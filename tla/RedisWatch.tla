----------------------------- MODULE RedisWatch ------------------------------
(***************************************************************************)
(* The watches of src/hs_py/storage/redis.py. A method is a sequence of    *)
(* Redis commands with a wait before each; a pipeline is one MULTI/EXEC.   *)
(* Requests are served by tasks that interleave at the waits, of one       *)
(* server or of several on the same Redis.                                 *)
(*                                                                         *)
(* An entity is told apart by the version of its dict, 0 for none. Nothing *)
(* under src/ puts an entity into a dirty set: the embedding program does, *)
(* for the watches that have it, after it stored the entity. The holder of *)
(* a watch has one request under way, unless it stops waiting for one; the *)
(* server goes on with that request.                                       *)
(*                                                                         *)
(* A command that is not answered in time, or whose connection breaks, is  *)
(* sent again (create_redis_client: three times; here any number), while   *)
(* the one before it may have run, may run later or may never run.         *)
(***************************************************************************)
EXTENDS Integers

CONSTANTS Entity, WatchId, Task, None

VARIABLES
  entities,   \* the stored entities
  watches,    \* the keys hs:watch:<id>
  ids,        \* the sets hs:watch:<id>:ids
  dirty,      \* the sets hs:watch:<id>:dirty
  drawn,      \* watch ids drawn by secrets.token_hex
  told,       \* watch ids the holder was answered
  task,       \* requests being served
  view,       \* version last returned to the holder of a watch
  unmarked,   \* stored, and not put into the dirty sets yet
  lost,       \* taken from the dirty set by a poll whose answer got lost
  raced,      \* watches closed while a watch_sub was about to add to them
  late        \* commands that were not answered: Redis may yet run them

vars == <<entities, watches, ids, dirty, drawn, told, task, view, unmarked, lost, raced, late>>

Op == {"sub", "remove", "close", "poll", "refresh"}
Request == [op : Op, w : WatchId, es : SUBSET Entity, step : {"hset", "sadd", "multi", "load", "reply"},
            rows : [Entity -> Nat], awaited : BOOLEAN]

\* A command or MULTI that writes.
Command == [op : {"hset", "sadd"} \union Op, w : WatchId, es : SUBSET Entity]

NoneAssumption == None \notin Request

TypeOK ==
  /\ entities \in [Entity -> Nat]
  /\ watches \in SUBSET WatchId /\ drawn \in SUBSET WatchId
  /\ told \in SUBSET WatchId /\ raced \in SUBSET WatchId
  /\ ids \in [WatchId -> SUBSET Entity]
  /\ dirty \in [WatchId -> SUBSET Entity]
  /\ task \in [Task -> {None} \union Request]
  /\ view \in [WatchId -> [Entity -> Nat]]
  /\ unmarked \in SUBSET Entity
  /\ lost \in [WatchId -> SUBSET Entity]
  /\ late \in SUBSET Command

NoRows == [e \in Entity |-> 0]

Init ==
  /\ entities = NoRows
  /\ watches = {} /\ drawn = {} /\ told = {} /\ raced = {}
  /\ ids = [w \in WatchId |-> {}] /\ dirty = [w \in WatchId |-> {}]
  /\ task = [t \in Task |-> None]
  /\ view = [w \in WatchId |-> NoRows]
  /\ unmarked = {}
  /\ lost = [w \in WatchId |-> {}]
  /\ late = {}

At(t, op, step) == task[t] # None /\ task[t].op \in op /\ task[t].step = step

\* The holder of w has no request under way that it waits for.
HolderFree(w) == \A t \in Task : task[t] # None /\ task[t].awaited => task[t].w # w

Begin(t, op, w, es, step) ==
  /\ task[t] = None /\ HolderFree(w)
  /\ task' = [task EXCEPT ![t] = [op |-> op, w |-> w, es |-> es, step |-> step,
                                  rows |-> NoRows, awaited |-> TRUE]]

\* What the holder of the watch does not get to know, once it gave up.
Untold(t, es) == IF task[t].awaited THEN lost ELSE [lost EXCEPT ![task[t].w] = @ \union es]

Goto(t, step) == task' = [task EXCEPT ![t].step = step]
End(t) == task' = [task EXCEPT ![t] = None]

-----------------------------------------------------------------------------
(* The embedding program                                                   *)

Change(e) ==
  /\ entities' = [entities EXCEPT ![e] = @ + 1]
  /\ unmarked' = unmarked \union {e}
  /\ UNCHANGED <<watches, ids, dirty, drawn, told, task, view, lost, raced, late>>

MarkDirty(e) ==
  /\ e \in unmarked
  /\ dirty' = [w \in WatchId |-> IF e \in ids[w] THEN dirty[w] \union {e} ELSE dirty[w]]
  /\ unmarked' = unmarked \ {e}
  /\ UNCHANGED <<entities, watches, ids, drawn, told, task, view, lost, raced, late>>

-----------------------------------------------------------------------------
(* watch_sub                                                               *)

\* The order of the commands after the existence check.
LoadsBeforeAdding == [check |-> "load", load |-> "sadd", sadd |-> "reply"]  \* mutant
SubStepAfter == [check |-> "sadd", sadd |-> "load", load |-> "reply"]

\* EXISTS found the watch: it is extended. Otherwise a new id is drawn.
SubExtends(t, w, es) ==
  /\ w \in watches /\ w \in told
  /\ Begin(t, "sub", w, es, SubStepAfter["check"])
  /\ UNCHANGED <<entities, watches, ids, dirty, drawn, told, view, unmarked, lost, raced, late>>

SubDraws(t, w, es) ==
  /\ w \notin drawn
  /\ drawn' = drawn \union {w}
  /\ Begin(t, "sub", w, es, "hset")
  /\ UNCHANGED <<entities, watches, ids, dirty, told, view, unmarked, lost, raced, late>>

SubCreates(t) ==
  /\ At(t, {"sub"}, "hset")
  /\ watches' = watches \union {task[t].w}
  /\ Goto(t, SubStepAfter["check"])
  /\ UNCHANGED <<entities, ids, dirty, drawn, told, view, unmarked, lost, raced, late>>

SubAdds(t) ==
  /\ At(t, {"sub"}, "sadd")
  /\ ids' = [ids EXCEPT ![task[t].w] = @ \union task[t].es]
  /\ lost' = Untold(t, task[t].es)
  /\ Goto(t, SubStepAfter["sadd"])
  /\ UNCHANGED <<entities, watches, dirty, drawn, told, view, unmarked, raced, late>>

\* _load_entities, for watch_sub and for watch_poll.
LoadRows(t) ==
  /\ task[t] # None /\ task[t].step = "load"
  /\ task' = [task EXCEPT
       ![t].rows = [e \in Entity |-> IF e \in task[t].es THEN entities[e] ELSE 0],
       ![t].step = IF task[t].op = "sub" THEN SubStepAfter["load"] ELSE "reply"]
  /\ UNCHANGED <<entities, watches, ids, dirty, drawn, told, view, unmarked, lost, raced, late>>

-----------------------------------------------------------------------------
(* watch_unsub and watch_poll                                              *)

\* EXISTS answers no: "Unknown watch", and nothing changes. Otherwise the
\* request goes on, whatever becomes of the watch in the meantime.
UnsubOrPollFinds(t, op, w, es) ==
  /\ w \in watches /\ w \in told
  /\ Begin(t, op, w, es, "multi")
  /\ UNCHANGED <<entities, watches, ids, dirty, drawn, told, view, unmarked, lost, raced, late>>

Forgotten(w, es) == view' = [view EXCEPT ![w] = [e \in Entity |-> IF e \in es THEN 0 ELSE @[e]]]

DirtyAfterRemove(t) == [dirty EXCEPT ![task[t].w] = @ \ task[t].es]

Removes(t) ==
  /\ At(t, {"remove"}, "multi")
  /\ ids' = [ids EXCEPT ![task[t].w] = @ \ task[t].es]
  /\ dirty' = DirtyAfterRemove(t)
  /\ Forgotten(task[t].w, task[t].es)
  /\ End(t)
  /\ UNCHANGED <<entities, watches, drawn, told, unmarked, lost, raced, late>>

IdsKept(w) == ids                                                           \* mutant
IdsAfterClose(w) == [ids EXCEPT ![w] = {}]

\* An SADD to w is about to be sent, or was and may yet run.
Adding(w) == \/ \E u \in Task : task[u] # None /\ task[u].step = "sadd" /\ task[u].w = w
             \/ \E c \in late : c.op = "sadd" /\ c.w = w
RacedByClose(w) == IF Adding(w) THEN raced \union {w} ELSE raced

Closes(t) ==
  /\ At(t, {"close"}, "multi")
  /\ watches' = watches \ {task[t].w}
  /\ ids' = IdsAfterClose(task[t].w)
  /\ dirty' = [dirty EXCEPT ![task[t].w] = {}]
  /\ Forgotten(task[t].w, Entity)
  /\ raced' = RacedByClose(task[t].w)
  /\ End(t)
  /\ UNCHANGED <<entities, drawn, told, unmarked, lost, late>>

\* One MULTI reads the dirty and the watched ids and deletes the dirty set.
DirtyAfterPoll(w) == [dirty EXCEPT ![w] = {}]

PolledIds(t) ==
  IF task[t].op = "refresh" THEN ids[task[t].w]
  ELSE dirty[task[t].w] \intersect ids[task[t].w]

Polls(t) ==
  /\ At(t, {"poll", "refresh"}, "multi")
  /\ dirty' = DirtyAfterPoll(task[t].w)
  /\ task' = [task EXCEPT ![t].es = PolledIds(t),
                          ![t].step = IF PolledIds(t) = {} THEN "reply" ELSE "load"]
  /\ lost' = Untold(t, PolledIds(t))
  /\ UNCHANGED <<entities, watches, ids, drawn, told, view, unmarked, raced, late>>

-----------------------------------------------------------------------------
(* Answers                                                                 *)

Replies(t) ==
  /\ task[t] # None /\ task[t].step = "reply"
  /\ IF task[t].awaited
     THEN /\ view' = [view EXCEPT ![task[t].w] =
                       [e \in Entity |-> IF task[t].rows[e] # 0 THEN task[t].rows[e] ELSE @[e]]]
          /\ lost' = [lost EXCEPT ![task[t].w] = @ \ {e \in Entity : task[t].rows[e] = entities[e]}]
          /\ told' = told \union {task[t].w}
     ELSE UNCHANGED <<view, lost, told>>
  /\ End(t)
  /\ UNCHANGED <<entities, watches, ids, dirty, drawn, unmarked, raced, late>>

\* A request that has loaded, or is about to, ends without an answer.
LossOf(t) == IF task[t].step \in {"load", "reply"}
             THEN [lost EXCEPT ![task[t].w] = @ \union task[t].es] ELSE lost

\* A command fails, or the request is cancelled before it sends one, and the
\* exception ends the request.
Fails(t) ==
  /\ task[t] # None
  /\ lost' = LossOf(t)
  /\ End(t)
  /\ UNCHANGED <<entities, watches, ids, dirty, drawn, told, view, unmarked, raced, late>>

\* The holder stops waiting (its timeout), and the server goes on.
HolderGivesUp(t) ==
  /\ task[t] # None /\ task[t].awaited
  /\ task' = [task EXCEPT ![t].awaited = FALSE]
  /\ lost' = LossOf(t)
  /\ UNCHANGED <<entities, watches, ids, dirty, drawn, told, view, unmarked, raced, late>>

-----------------------------------------------------------------------------
(* The client's retries                                                    *)

\* What the request sends at its step. A read that is not answered either is
\* sent again, which changes nothing, or ends the request: Fails.
Sent(t) == [op |-> IF task[t].step = "multi" THEN task[t].op ELSE task[t].step,
            w |-> task[t].w, es |-> IF task[t].step = "hset" THEN {} ELSE task[t].es]

\* No answer in time: the command is sent again, or there are no tries left.
Unanswered(t) ==
  /\ task[t] # None /\ task[t].step \in {"hset", "sadd", "multi"}
  /\ late' = late \union {Sent(t)}
  /\ UNCHANGED task \/ End(t)
  /\ UNCHANGED <<entities, watches, ids, dirty, drawn, told, view, unmarked, lost, raced>>

\* A command that was not answered runs, and nobody is told. It may run again:
\* it was sent any number of times.
LateCreates(c) == c.op = "hset" /\ watches' = watches \union {c.w} /\ UNCHANGED <<ids, dirty, lost, raced>>

LateAdds(c) ==
  /\ c.op = "sadd"
  /\ ids' = [ids EXCEPT ![c.w] = @ \union c.es]
  /\ lost' = [lost EXCEPT ![c.w] = @ \union (c.es \ ids[c.w])]
  /\ UNCHANGED <<watches, dirty, raced>>

LateRemoves(c) ==
  /\ c.op = "remove"
  /\ ids' = [ids EXCEPT ![c.w] = @ \ c.es]
  /\ dirty' = [dirty EXCEPT ![c.w] = @ \ c.es]
  /\ UNCHANGED <<watches, lost, raced>>

LateCloses(c) ==
  /\ c.op = "close"
  /\ watches' = watches \ {c.w}
  /\ ids' = IdsAfterClose(c.w)
  /\ dirty' = [dirty EXCEPT ![c.w] = {}]
  /\ raced' = RacedByClose(c.w)
  /\ UNCHANGED lost

LatePolls(c) ==
  /\ c.op \in {"poll", "refresh"}
  /\ dirty' = DirtyAfterPoll(c.w)
  /\ lost' = [lost EXCEPT ![c.w] = @ \union (dirty[c.w] \intersect ids[c.w])]
  /\ UNCHANGED <<watches, ids, raced>>

RunsLate(c) ==
  /\ c \in late
  /\ LateCreates(c) \/ LateAdds(c) \/ LateRemoves(c) \/ LateCloses(c) \/ LatePolls(c)
  /\ UNCHANGED <<entities, drawn, told, task, view, unmarked, late>>

Next ==
  \/ \E e \in Entity : Change(e) \/ MarkDirty(e)
  \/ \E t \in Task, w \in WatchId, es \in SUBSET Entity \ {{}} :
       SubExtends(t, w, es) \/ SubDraws(t, w, es) \/ UnsubOrPollFinds(t, "remove", w, es)
  \/ \E t \in Task, w \in WatchId, op \in {"close", "poll", "refresh"} : UnsubOrPollFinds(t, op, w, {})
  \/ \E t \in Task : \/ SubCreates(t) \/ SubAdds(t) \/ LoadRows(t)
                     \/ Removes(t) \/ Closes(t) \/ Polls(t)
                     \/ Replies(t) \/ Fails(t) \/ HolderGivesUp(t) \/ Unanswered(t)
  \/ \E c \in late : RunsLate(c)

Spec == Init /\ [][Next]_vars

-----------------------------------------------------------------------------
(* Properties                                                              *)

\* A request under way will tell the holder of w the current version of e.
Coming(w, e) ==
  \E t \in Task :
    /\ task[t] # None /\ task[t].awaited /\ task[t].w = w
    /\ task[t].op \in {"sub", "poll", "refresh"} /\ e \in task[t].es
    /\ task[t].step = "reply" => task[t].rows[e] = entities[e]

\* A change is missed only when the answer that would have told it got lost, by
\* a request that fails after the MULTI, a holder that stopped waiting, or a
\* command that was not answered and ran for nobody: a MULTI of watch_poll that
\* took the dirty set, an SADD that added the entity. And no later answer tells
\* it. Otherwise the entity is dirty, unmarked, or on its way to the holder, in
\* whatever order changes, marks, subscriptions, polls and their retries
\* interleave.
NoChangeMissed ==
  \A w \in watches, e \in Entity :
    e \in ids[w] =>
      \/ view[w][e] = entities[e]
      \/ e \in dirty[w] \union unmarked \union lost[w]
      \/ Coming(w, e)

\* What a closed watch leaves behind can never be removed, since every request
\* finds the watch gone. "If True, the entire watch is torn down"
\* (src/hs_py/storage/redis.py:717) is true unless a watch_sub had found the
\* watch before the close and adds its ids after it, or an SADD that was not
\* answered does.
LeftoverOnlyByRace == \A w \in WatchId : w \notin watches /\ ids[w] # {} => w \in raced

=============================================================================
