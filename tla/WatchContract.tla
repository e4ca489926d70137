---------------------------- MODULE WatchContract ----------------------------
(***************************************************************************)
(* What a storage adapter promises about watches, independently of how it  *)
(* keeps them (src/hs_py/storage/protocol.py, the docstrings of watch_sub, *)
(* watch_unsub and watch_poll, and what every adapter does): a watch is a  *)
(* set of subscribed entities and a set of pending changes; a poll hands   *)
(* over every pending change and clears exactly those; closing a watch     *)
(* leaves nothing of it behind.                                            *)
(***************************************************************************)
CONSTANTS
  WatchId,  \* watch identifiers
  Entity    \* Ref.val of the entities

VARIABLES
  known,    \* entities that exist in the store
  open,     \* watches that exist
  subs,     \* subs[w]: entities subscribed to by w
  pending,  \* pending[w]: changes that w has not been told of
  answer    \* answer[w]: entities in the answer to the last poll of w

vars == <<known, open, subs, pending, answer>>

TypeOK ==
  /\ known \subseteq Entity
  /\ open \subseteq WatchId
  /\ subs \in [WatchId -> SUBSET Entity]
  /\ pending \in [WatchId -> SUBSET Entity]
  /\ answer \in [WatchId -> SUBSET Entity]

Init ==
  /\ known \subseteq Entity
  /\ open = {}
  /\ subs = [w \in WatchId |-> {}]
  /\ pending = [w \in WatchId |-> {}]
  /\ answer = [w \in WatchId |-> {}]

\* Entities are written, and stay.
Store(es) ==
  /\ known' = known \union es
  /\ UNCHANGED <<open, subs, pending, answer>>

\* A subscription creates or extends w, and may count the new entities as
\* pending already.
Subscribe(w, es) ==
  /\ open' = open \union {w}
  /\ subs' = [subs EXCEPT ![w] = @ \union es]
  /\ \E fresh \in SUBSET es : pending' = [pending EXCEPT ![w] = @ \union fresh]
  /\ UNCHANGED <<known, answer>>

Unsubscribe(w, es) ==
  /\ w \in open
  /\ subs' = [subs EXCEPT ![w] = @ \ es]
  /\ pending' = [pending EXCEPT ![w] = @ \ es]
  /\ UNCHANGED <<known, open, answer>>

Close(w) ==
  /\ w \in open
  /\ open' = open \ {w}
  /\ subs' = [subs EXCEPT ![w] = {}]
  /\ pending' = [pending EXCEPT ![w] = {}]
  /\ UNCHANGED <<known, answer>>

\* A change of e becomes pending in every watch that subscribes to it.
Notify(e) ==
  /\ pending' = [w \in WatchId |-> IF e \in subs[w] THEN pending[w] \union {e}
                                                    ELSE pending[w]]
  /\ UNCHANGED <<known, open, subs, answer>>

\* A poll answers the pending entities that exist, or on request all of the
\* watch; only then is nothing pending any more.
Poll(w) ==
  /\ w \in open
  /\ \E told \in {pending[w], subs[w]} :
       answer' = [answer EXCEPT ![w] = told \intersect known]
  /\ pending' = [pending EXCEPT ![w] = {}]
  /\ UNCHANGED <<known, open, subs>>

Next ==
  \/ \E es \in SUBSET Entity : Store(es)
  \/ \E e \in Entity : Notify(e)
  \/ \E w \in WatchId :
       \/ Close(w)
       \/ Poll(w)
       \/ \E es \in SUBSET Entity : Subscribe(w, es) \/ Unsubscribe(w, es)

Spec == Init /\ [][Next]_vars

=============================================================================
