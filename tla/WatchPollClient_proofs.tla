------------------------ MODULE WatchPollClient_proofs ------------------------
(***************************************************************************)
(* Proofs about InMemoryAdapter and about the holders of its watches, for  *)
(* every set of entities, tags and watch identifiers: types, no missed     *)
(* change, the tag index, the column cache, that the adapter implements    *)
(* WatchContract, and that a holder has every tag.                         *)
(***************************************************************************)
EXTENDS WatchPollClient, TLAPS

\* The actions as one disjunction, for the proofs by cases below.
LEMMA NextCases ==
  ASSUME [Next]_vars
  PROVE  \/ \E e \in Entity, d \in Dict : LoadEntity(e, d)
         \/ ReadColNames
         \/ \E w \in WatchId, es \in SUBSET Entity : NewWatch(w, es)
         \/ \E w \in WatchId, es \in SUBSET Entity : ExtendWatch(w, es)
         \/ \E w \in WatchId, es \in SUBSET Entity : WatchUnsub(w, es)
         \/ \E w \in WatchId : WatchClose(w)
         \/ \E w \in WatchId, refresh \in BOOLEAN : WatchPoll(w, refresh)
         \/ \E e \in Entity : MarkDirty(e)
         \/ UNCHANGED vars
BY DEF Next, Other

-----------------------------------------------------------------------------
(* Types                                                                   *)

LEMMA ReturnedTypes ==
  ASSUME TypeOK, NEW w \in WatchId, NEW es \in SUBSET Entity, Returned(w, es)
  PROVE  view' \in [WatchId -> [Entity -> {None} \union Dict]]
BY DEF TypeOK, Returned, Known

LEMMA AllColNamesIsDict == TypeOK => AllColNames \in Dict
<1> SUFFICES ASSUME TypeOK, NEW t \in AllColNames PROVE t \in Tag
  BY DEF Dict
<1>1. PICK e \in Known : t \in entities[e]
  BY DEF AllColNames
<1>2. e \in Entity /\ entities[e] # None
  BY <1>1 DEF Known
<1>3. entities[e] \in SUBSET Tag
  BY <1>2 DEF TypeOK, Dict
<1>4. QED
  BY <1>1, <1>3

\* The variables of InMemoryAdapter keep their types.
THEOREM TypeCorrect == Spec => []TypeOK
<1>1. Init => TypeOK
  BY DEF Init, TypeOK, Dict
<1>2. TypeOK /\ [Next]_vars => TypeOK'
  <2> SUFFICES ASSUME TypeOK, [Next]_vars PROVE TypeOK'
    OBVIOUS
  <2>1. ASSUME NEW e \in Entity, NEW d \in Dict, LoadEntity(e, d) PROVE TypeOK'
    BY <2>1 DEF TypeOK, LoadEntity, IndexAfterLoad, ColNamesAfterLoad
  <2>2. CASE ReadColNames
    BY <2>2, AllColNamesIsDict DEF TypeOK, ReadColNames
  <2>3. ASSUME NEW w \in WatchId, NEW es \in SUBSET Entity, NewWatch(w, es) PROVE TypeOK'
    BY <2>3, ReturnedTypes DEF TypeOK, NewWatch, store
  <2>4. ASSUME NEW w \in WatchId, NEW es \in SUBSET Entity, ExtendWatch(w, es) PROVE TypeOK'
    <3>1. ids' \in [WatchId -> SUBSET Entity]
      BY <2>4 DEF TypeOK, ExtendWatch
    <3>2. ids'[w] \in SUBSET Entity
      BY <3>1
    <3>3. QED
      BY <2>4, <3>1, <3>2, ReturnedTypes DEF TypeOK, ExtendWatch, store
  <2>5. ASSUME NEW w \in WatchId, NEW es \in SUBSET Entity, WatchUnsub(w, es) PROVE TypeOK'
    BY <2>5 DEF TypeOK, WatchUnsub, DirtyAfterUnsub, store
  <2>6. ASSUME NEW w \in WatchId, WatchClose(w) PROVE TypeOK'
    BY <2>6 DEF TypeOK, WatchClose, store
  <2>7. ASSUME NEW w \in WatchId, NEW refresh \in BOOLEAN, WatchPoll(w, refresh) PROVE TypeOK'
    <3> DEFINE es == Polled(w, refresh)
    <3>1. es \in SUBSET Entity
      BY DEF TypeOK, Polled
    <3>2. Returned(w, es)
      BY <2>7 DEF WatchPoll
    <3>3. answer' = [answer EXCEPT ![w] = es \intersect Known]
      BY <2>7 DEF WatchPoll
    <3> HIDE DEF es
    <3>4. answer' \in [WatchId -> SUBSET Entity]
      BY <3>1, <3>3 DEF TypeOK, Known
    <3>5. view' \in [WatchId -> [Entity -> {None} \union Dict]]
      BY <3>1, <3>2, ReturnedTypes
    <3>6. QED
      BY <2>7, <3>4, <3>5 DEF TypeOK, WatchPoll, DirtyAfterPoll, store
  <2>8. ASSUME NEW e \in Entity, MarkDirty(e) PROVE TypeOK'
    BY <2>8 DEF TypeOK, MarkDirty, DirtyAfterMark, store
  <2>9. CASE UNCHANGED vars
    BY <2>9 DEF TypeOK, vars
  <2>10. QED
    BY <2>1, <2>2, <2>3, <2>4, <2>5, <2>6, <2>7, <2>8, <2>9, NextCases
<1>3. QED
  BY <1>1, <1>2, PTL DEF Spec

-----------------------------------------------------------------------------
(* Watches                                                                 *)

\* Only subscribed entities are dirty, and closed watches are empty.
THEOREM DirtyCorrect == Spec => []DirtyIsSubscribed
<1>1. Init => DirtyIsSubscribed
  BY DEF Init, DirtyIsSubscribed
<1>2. TypeOK /\ DirtyIsSubscribed /\ [Next]_vars => DirtyIsSubscribed'
  <2> SUFFICES ASSUME TypeOK, DirtyIsSubscribed, [Next]_vars PROVE DirtyIsSubscribed'
    OBVIOUS
  <2> USE DEF TypeOK, DirtyIsSubscribed
  <2>1. ASSUME NEW e \in Entity, NEW d \in Dict, LoadEntity(e, d) PROVE DirtyIsSubscribed'
    BY <2>1 DEF LoadEntity
  <2>2. CASE ReadColNames
    BY <2>2 DEF ReadColNames
  <2>3. ASSUME NEW w \in WatchId, NEW es \in SUBSET Entity, NewWatch(w, es)
        PROVE  DirtyIsSubscribed'
    BY <2>3 DEF NewWatch
  <2>4. ASSUME NEW w \in WatchId, NEW es \in SUBSET Entity, ExtendWatch(w, es)
        PROVE  DirtyIsSubscribed'
    BY <2>4 DEF ExtendWatch
  <2>5. ASSUME NEW w \in WatchId, NEW es \in SUBSET Entity, WatchUnsub(w, es)
        PROVE  DirtyIsSubscribed'
    BY <2>5 DEF WatchUnsub, DirtyAfterUnsub
  <2>6. ASSUME NEW w \in WatchId, WatchClose(w) PROVE DirtyIsSubscribed'
    BY <2>6 DEF WatchClose
  <2>7. ASSUME NEW w \in WatchId, NEW refresh \in BOOLEAN, WatchPoll(w, refresh)
        PROVE  DirtyIsSubscribed'
    BY <2>7 DEF WatchPoll, DirtyAfterPoll
  <2>8. ASSUME NEW e \in Entity, MarkDirty(e) PROVE DirtyIsSubscribed'
    BY <2>8 DEF MarkDirty, DirtyAfterMark
  <2>9. CASE UNCHANGED vars
    BY <2>9 DEF vars
  <2>10. QED
    BY <2>1, <2>2, <2>3, <2>4, <2>5, <2>6, <2>7, <2>8, <2>9, NextCases
<1>3. QED
  BY <1>1, <1>2, TypeCorrect, PTL DEF Spec

\* Nothing is known to the holder of a watch about an entity that does not
\* exist: the strengthening that makes NoChangeMissed inductive.
UnknownIsUnseen ==
  \A w \in WatchId, e \in Entity : entities[e] = None => view[w][e] = None

\* After a reply, the view of the entities asked for is the current one.
LEMMA ReturnedIsCurrent ==
  ASSUME TypeOK, UnknownIsUnseen, NEW w \in WatchId, NEW es \in SUBSET Entity,
         Returned(w, es), NEW v \in WatchId, NEW e \in Entity
  PROVE  /\ v = w /\ e \in es => view'[v][e] = entities[e]
         /\ v # w \/ e \notin es => view'[v][e] = view[v][e]
         /\ entities[e] = None => view'[v][e] = None
BY DEF TypeOK, UnknownIsUnseen, Returned, Known

LEMMA UnknownIsUnseenCorrect == Spec => []UnknownIsUnseen
<1>1. Init => UnknownIsUnseen
  BY DEF Init, UnknownIsUnseen
<1>2. TypeOK /\ UnknownIsUnseen /\ [Next]_vars => UnknownIsUnseen'
  <2> SUFFICES ASSUME TypeOK, UnknownIsUnseen, [Next]_vars PROVE UnknownIsUnseen'
    OBVIOUS
  <2>1. ASSUME NEW e \in Entity, NEW d \in Dict, LoadEntity(e, d) PROVE UnknownIsUnseen'
    BY <2>1, NoneAssumption DEF LoadEntity, TypeOK, UnknownIsUnseen, Dict
  <2>2. ASSUME NEW w \in WatchId, NEW es \in SUBSET Entity, Returned(w, es),
               UNCHANGED entities
        PROVE  UnknownIsUnseen'
    BY <2>2, ReturnedIsCurrent DEF UnknownIsUnseen
  <2>3. ASSUME NEW w \in WatchId, NEW es \in SUBSET Entity, NewWatch(w, es)
        PROVE  UnknownIsUnseen'
    BY <2>2, <2>3 DEF NewWatch, store
  <2>4. ASSUME NEW w \in WatchId, NEW es \in SUBSET Entity, ExtendWatch(w, es)
        PROVE  UnknownIsUnseen'
    <3>1. ids'[w] \in SUBSET Entity
      BY <2>4 DEF TypeOK, ExtendWatch
    <3>2. QED
      BY <2>2, <2>4, <3>1 DEF ExtendWatch, store
  <2>5. ASSUME NEW w \in WatchId, NEW refresh \in BOOLEAN, WatchPoll(w, refresh)
        PROVE  UnknownIsUnseen'
    <3>1. Polled(w, refresh) \in SUBSET Entity
      BY DEF TypeOK, Polled
    <3>2. QED
      BY <2>2, <2>5, <3>1 DEF WatchPoll, DirtyAfterPoll, store
  <2>6. ASSUME NEW w \in WatchId, NEW es \in SUBSET Entity, WatchUnsub(w, es)
        PROVE  UnknownIsUnseen'
    BY <2>6 DEF WatchUnsub, DirtyAfterUnsub, store, TypeOK, UnknownIsUnseen
  <2>7. ASSUME NEW w \in WatchId, WatchClose(w) PROVE UnknownIsUnseen'
    BY <2>7 DEF WatchClose, store, TypeOK, UnknownIsUnseen
  <2>8. CASE ReadColNames \/ (\E e \in Entity : MarkDirty(e)) \/ UNCHANGED vars
    BY <2>8 DEF ReadColNames, MarkDirty, DirtyAfterMark, vars, store, UnknownIsUnseen
  <2>9. QED
    BY <2>1, <2>3, <2>4, <2>5, <2>6, <2>7, <2>8, NextCases
<1>3. QED
  BY <1>1, <1>2, TypeCorrect, PTL DEF Spec

\* No change of a watched entity is missed: it is in the holder's view, dirty,
\* or still to be marked by the embedder.
THEOREM NoChangeMissedCorrect == Spec => []NoChangeMissed
<1> DEFINE Inv == TypeOK /\ DirtyIsSubscribed /\ UnknownIsUnseen
<1>1. Init => NoChangeMissed
  BY DEF Init, NoChangeMissed
<1>2. Inv /\ Inv' /\ NoChangeMissed /\ [Next]_vars => NoChangeMissed'
  <2> SUFFICES ASSUME Inv, Inv', NoChangeMissed, [Next]_vars,
                      NEW v \in watches', NEW f \in ids'[v]
               PROVE  \/ view'[v][f] = entities'[f]
                      \/ f \in dirty'[v]
                      \/ f \in unmarked'
    BY DEF NoChangeMissed
  <2> DEFINE Goal == view'[v][f] = entities'[f] \/ f \in dirty'[v] \/ f \in unmarked'
  <2>0. v \in WatchId /\ f \in Entity
    BY DEF TypeOK
  <2>1. ASSUME NEW e \in Entity, NEW d \in Dict, LoadEntity(e, d) PROVE Goal
    BY <2>0, <2>1 DEF LoadEntity, TypeOK, NoChangeMissed
  <2>2. CASE ReadColNames
    BY <2>2 DEF ReadColNames, NoChangeMissed
  <2>3. ASSUME NEW w \in WatchId, NEW es \in SUBSET Entity, NewWatch(w, es) PROVE Goal
    <3>1. CASE v = w
      <4>1. f \in es
        BY <2>3, <3>1 DEF NewWatch, TypeOK
      <4>2. QED
        BY <2>0, <2>3, <3>1, <4>1, ReturnedIsCurrent DEF NewWatch, store
    <3>2. CASE v # w
      <4>1. v \in watches /\ f \in ids[v]
        BY <2>3, <3>2 DEF NewWatch, TypeOK
      <4>2. QED
        BY <2>0, <2>3, <3>2, <4>1, ReturnedIsCurrent DEF NewWatch, store, NoChangeMissed
    <3>3. QED
      BY <3>1, <3>2
  <2>4. ASSUME NEW w \in WatchId, NEW es \in SUBSET Entity, ExtendWatch(w, es) PROVE Goal
    <3>1. ids'[w] \in SUBSET Entity /\ Returned(w, ids'[w])
      BY <2>4 DEF ExtendWatch, TypeOK
    <3>2. CASE v = w
      BY <2>0, <2>4, <3>1, <3>2, ReturnedIsCurrent DEF ExtendWatch, store
    <3>3. CASE v # w
      <4>1. v \in watches /\ f \in ids[v]
        BY <2>4, <3>3 DEF ExtendWatch, TypeOK
      <4>2. QED
        BY <2>0, <2>4, <3>1, <3>3, <4>1, ReturnedIsCurrent DEF ExtendWatch, store, NoChangeMissed
    <3>4. QED
      BY <3>2, <3>3
  <2>5. ASSUME NEW w \in WatchId, NEW es \in SUBSET Entity, WatchUnsub(w, es) PROVE Goal
    <3>1. v \in watches /\ f \in ids[v] /\ (v = w => f \notin es)
      BY <2>0, <2>5 DEF WatchUnsub, DirtyAfterUnsub, TypeOK
    <3>2. view'[v][f] = view[v][f] /\ (f \in dirty[v] => f \in dirty'[v])
      BY <2>0, <2>5, <3>1 DEF WatchUnsub, DirtyAfterUnsub, TypeOK
    <3>3. QED
      BY <2>5, <3>1, <3>2 DEF WatchUnsub, DirtyAfterUnsub, store, NoChangeMissed
  <2>6. ASSUME NEW w \in WatchId, WatchClose(w) PROVE Goal
    <3>1. v # w /\ v \in watches /\ f \in ids[v]
      BY <2>0, <2>6 DEF WatchClose, TypeOK
    <3>2. view'[v][f] = view[v][f] /\ dirty'[v] = dirty[v]
      BY <2>0, <2>6, <3>1 DEF WatchClose, TypeOK
    <3>3. QED
      BY <2>6, <3>1, <3>2 DEF WatchClose, store, NoChangeMissed
  <2>7. ASSUME NEW w \in WatchId, NEW refresh \in BOOLEAN, WatchPoll(w, refresh) PROVE Goal
    <3> DEFINE es == Polled(w, refresh)
    <3>1. /\ es \in SUBSET Entity /\ Returned(w, es)
          /\ v \in watches /\ f \in ids[v] /\ UNCHANGED <<entities, unmarked>>
      BY <2>7 DEF WatchPoll, Polled, TypeOK, store
    <3>2. CASE v = w /\ f \in es
      BY <2>0, <3>1, <3>2, ReturnedIsCurrent
    <3>3. CASE v = w /\ f \notin es
      <4>1. f \notin dirty[v]
        BY <3>1, <3>3 DEF Polled
      <4>2. view'[v][f] = view[v][f]
        <5>1. es \in SUBSET Entity /\ Returned(w, es) /\ f \notin es
          BY <3>1, <3>3
        <5> HIDE DEF es
        <5>2. QED
          BY <2>0, <5>1, ReturnedIsCurrent
      <4>3. QED
        BY <3>1, <4>1, <4>2 DEF NoChangeMissed
    <3>4. CASE v # w
      <4>1. dirty'[v] = dirty[v]
        BY <2>0, <2>7, <3>4 DEF WatchPoll, DirtyAfterPoll, TypeOK
      <4>2. es \in SUBSET Entity /\ Returned(w, es)
        BY <3>1
      <4>3. view'[v][f] = view[v][f]
        <5> HIDE DEF es
        <5>1. QED
          BY <2>0, <3>4, <4>2, ReturnedIsCurrent
      <4>4. QED
        BY <3>1, <4>1, <4>3 DEF NoChangeMissed
    <3>5. QED
      BY <3>2, <3>3, <3>4
  <2>8. ASSUME NEW e \in Entity, MarkDirty(e) PROVE Goal
    <3>1. v \in watches /\ f \in ids[v] /\ UNCHANGED <<entities, view>>
      BY <2>8 DEF MarkDirty, DirtyAfterMark, store
    <3>2. /\ dirty[v] \subseteq dirty'[v] /\ (f = e => f \in dirty'[v])
          /\ (f # e /\ f \in unmarked => f \in unmarked')
      BY <2>0, <2>8, <3>1 DEF MarkDirty, DirtyAfterMark, TypeOK
    <3>3. QED
      BY <3>1, <3>2 DEF NoChangeMissed
  <2>9. CASE UNCHANGED vars
    BY <2>9 DEF vars, NoChangeMissed
  <2>10. QED
    BY <2>1, <2>2, <2>3, <2>4, <2>5, <2>6, <2>7, <2>8, <2>9, NextCases
<1>3. QED
  BY <1>1, <1>2, TypeCorrect, DirtyCorrect, UnknownIsUnseenCorrect, PTL DEF Spec

-----------------------------------------------------------------------------
(* Tag index and column cache                                              *)

\* Inductive form of IndexMissesNothing, without the detour over Known.
IndexHoldsTags ==
  \A e \in Entity, t \in Tag : entities[e] # None /\ t \in entities[e] => e \in tagIndex[t]

\* The tag index never misses an entity, and the cached columns are fresh.
THEOREM IndexAndColumnsCorrect == Spec => [](IndexMissesNothing /\ ColumnsAreFresh)
<1> DEFINE Inv == IndexHoldsTags /\ ColumnsAreFresh
<1>1. Init => Inv
  BY DEF Init, IndexHoldsTags, ColumnsAreFresh
<1>2. TypeOK /\ Inv /\ [Next]_vars => Inv'
  <2> SUFFICES ASSUME TypeOK, Inv, [Next]_vars PROVE Inv'
    OBVIOUS
  <2>1. ASSUME NEW e \in Entity, NEW d \in Dict, LoadEntity(e, d) PROVE Inv'
    <3>1. ColumnsAreFresh'
      BY <2>1 DEF LoadEntity, ColNamesAfterLoad, ColumnsAreFresh
    <3>2. ASSUME NEW f \in Entity, NEW t \in Tag, entities'[f] # None, t \in entities'[f]
          PROVE  f \in tagIndex'[t]
      <4>1. CASE f = e
        BY <2>1, <3>2, <4>1 DEF LoadEntity, IndexAfterLoad, TypeOK
      <4>2. CASE f # e
        BY <2>1, <3>2, <4>2 DEF LoadEntity, IndexAfterLoad, TypeOK, IndexHoldsTags
      <4>3. QED
        BY <4>1, <4>2
    <3>3. QED
      BY <3>1, <3>2 DEF IndexHoldsTags
  <2>2. CASE ReadColNames
    BY <2>2 DEF ReadColNames, IndexHoldsTags, ColumnsAreFresh, AllColNames, Known
  <2>3. CASE UNCHANGED store
    BY <2>3 DEF store, IndexHoldsTags, ColumnsAreFresh, AllColNames, Known
  <2>4. ASSUME ~ \E e \in Entity, d \in Dict : LoadEntity(e, d), ~ReadColNames
        PROVE  UNCHANGED store
    BY <2>4, NextCases
    DEF NewWatch, ExtendWatch, WatchUnsub, DirtyAfterUnsub, WatchClose, WatchPoll, DirtyAfterPoll, MarkDirty, DirtyAfterMark, vars, store
  <2>5. QED
    BY <2>1, <2>2, <2>3, <2>4
<1>3. TypeOK /\ Inv => IndexMissesNothing
  BY DEF IndexHoldsTags, IndexMissesNothing, HasByEvaluation, HasByIndex, Known
<1>4. QED
  BY <1>1, <1>2, <1>3, TypeCorrect, PTL DEF Spec

-----------------------------------------------------------------------------
(* Refinement                                                              *)

\* The in-memory adapter implements WatchContract: a poll hands over every
\* pending change and clears exactly those, whatever the calls before it.
THEOREM ImplementsContract == Spec => ContractSpec
<1>1. Init => Contract!Init
  BY DEF Init, Contract!Init, Known
<1>2. TypeOK /\ DirtyIsSubscribed /\ [Next]_vars => [Contract!Next]_(Contract!vars)
  <2> SUFFICES ASSUME TypeOK, DirtyIsSubscribed, [Next]_vars
               PROVE  Contract!Next \/ UNCHANGED Contract!vars
    OBVIOUS
  <2>1. ASSUME NEW e \in Entity, NEW d \in Dict, LoadEntity(e, d) PROVE Contract!Next
    <3>1. Known' = Known \union {e}
      BY <2>1, NoneAssumption DEF LoadEntity, Known, TypeOK, Dict
    <3>2. Contract!Store({e})
      BY <2>1, <3>1 DEF LoadEntity, Contract!Store
    <3>3. QED
      BY <3>2 DEF Contract!Next
  <2>2. CASE ReadColNames
    BY <2>2 DEF ReadColNames, Contract!vars, Known
  <2>3. ASSUME NEW w \in WatchId, NEW es \in SUBSET Entity, NewWatch(w, es)
        PROVE  Contract!Next
    <3>1. ids[w] = {} /\ ids' = [ids EXCEPT ![w] = @ \union es]
      BY <2>3 DEF NewWatch, DirtyIsSubscribed, TypeOK
    <3>2. dirty' = [dirty EXCEPT ![w] = @ \union {}]
      BY <2>3 DEF NewWatch, TypeOK
    <3>3. UNCHANGED <<Known, answer>> /\ watches' = watches \union {w}
      BY <2>3 DEF NewWatch, store, Known
    <3>4. Contract!Subscribe(w, es)
      BY <3>1, <3>2, <3>3 DEF Contract!Subscribe
    <3>5. QED
      BY <3>4 DEF Contract!Next
  <2>4. ASSUME NEW w \in WatchId, NEW es \in SUBSET Entity, ExtendWatch(w, es)
        PROVE  Contract!Next
    <3>1. ids' = [ids EXCEPT ![w] = @ \union es]
      BY <2>4 DEF ExtendWatch
    <3>2. dirty' = [dirty EXCEPT ![w] = @ \union {}]
      BY <2>4 DEF ExtendWatch, TypeOK
    <3>3. UNCHANGED <<Known, answer>> /\ watches' = watches \union {w}
      BY <2>4 DEF ExtendWatch, store, Known
    <3>4. Contract!Subscribe(w, es)
      BY <3>1, <3>2, <3>3 DEF Contract!Subscribe
    <3>5. QED
      BY <3>4 DEF Contract!Next
  <2>5. ASSUME NEW w \in WatchId, NEW es \in SUBSET Entity, WatchUnsub(w, es)
        PROVE  Contract!Next
    <3>1. Contract!Unsubscribe(w, es)
      BY <2>5 DEF WatchUnsub, DirtyAfterUnsub, store, Known, Contract!Unsubscribe
    <3>2. QED
      BY <3>1 DEF Contract!Next
  <2>6. ASSUME NEW w \in WatchId, WatchClose(w) PROVE Contract!Next
    <3>1. Contract!Close(w)
      BY <2>6 DEF WatchClose, store, Known, Contract!Close
    <3>2. QED
      BY <3>1 DEF Contract!Next
  <2>7. ASSUME NEW w \in WatchId, NEW refresh \in BOOLEAN, WatchPoll(w, refresh)
        PROVE  Contract!Next
    <3> DEFINE es == Polled(w, refresh)
    <3>1. es \in {dirty[w], ids[w]}
      BY DEF DirtyIsSubscribed, Polled
    <3>2. /\ answer' = [answer EXCEPT ![w] = es \intersect Known]
          /\ UNCHANGED <<Known, watches, ids>>
          /\ w \in watches /\ dirty' = [dirty EXCEPT ![w] = {}]
      BY <2>7 DEF WatchPoll, DirtyAfterPoll, store, Known
    <3> HIDE DEF es
    <3>3. Contract!Poll(w)
      BY <3>1, <3>2 DEF Contract!Poll
    <3>4. QED
      BY <3>3 DEF Contract!Next
  <2>8. ASSUME NEW e \in Entity, MarkDirty(e) PROVE Contract!Next
    <3>1. dirty' = [w \in WatchId |-> IF e \in ids[w] THEN dirty[w] \union {e} ELSE dirty[w]]
      BY <2>8 DEF MarkDirty, DirtyAfterMark, DirtyIsSubscribed
    <3>2. Contract!Notify(e)
      BY <2>8, <3>1 DEF MarkDirty, DirtyAfterMark, store, Known, Contract!Notify
    <3>3. QED
      BY <3>2 DEF Contract!Next
  <2>9. CASE UNCHANGED vars
    BY <2>9 DEF vars, Contract!vars, Known
  <2>10. QED
    BY <2>1, <2>2, <2>3, <2>4, <2>5, <2>6, <2>7, <2>8, <2>9, NextCases
<1>3. QED
  BY <1>1, <1>2, TypeCorrect, DirtyCorrect, PTL DEF Spec, ContractSpec, Contract!Spec

-----------------------------------------------------------------------------
(* The holders of the watches                                              *)

\* What the holders of the watches do with their answers does not change what the
\* adapter does: its theorems hold with them.
LEMMA StepOfAdapter == [PNext]_pvars => [Next]_vars
<1>1. CASE PNext
  BY <1>1 DEF PNext, Subscribe, Next
<1>2. CASE UNCHANGED pvars
  BY <1>2 DEF pvars
<1>3. QED
  BY <1>1, <1>2

THEOREM ClientKeepsAdapter == PSpec => Spec
BY StepOfAdapter, PTL DEF PSpec, PInit, Spec

AccOK == acc \in [WatchId -> [Entity -> {None} \union Dict]]

Inv == TypeOK /\ AccOK /\ NoTagMissing

\* The rows of an answer are in the accumulator with all their tags, and what is
\* not in the answer stays as it was.
LEMMA RowsAreMerged ==
  ASSUME TypeOK, NEW old \in [Entity -> {None} \union Dict], NEW es \in SUBSET Known
  PROVE  /\ ApplyRows(old, es) \in [Entity -> {None} \union Dict]
         /\ \A e \in es : ApplyRows(old, es)[e] # None /\ entities[e] \subseteq ApplyRows(old, es)[e]
         /\ \A e \in Entity \ es : ApplyRows(old, es)[e] = old[e]
<1>1. \A e \in es : e \in Entity /\ entities[e] # None /\ entities[e] \in Dict
  BY DEF TypeOK, Known
<1>2. ASSUME NEW e \in es
      PROVE  /\ ApplyRows(old, es)[e] \in Dict
             /\ entities[e] \subseteq ApplyRows(old, es)[e]
  <2>1. CASE old[e] = None
    BY <1>1, <2>1 DEF ApplyRows
  <2>2. CASE old[e] # None
    <3>1. old[e] \in Dict /\ ApplyRows(old, es)[e] = old[e] \union entities[e]
      BY <1>1, <2>2 DEF ApplyRows
    <3>2. QED
      BY <1>1, <3>1 DEF Dict
  <2>3. QED
    BY <2>1, <2>2
<1>3. \A e \in Entity \ es : ApplyRows(old, es)[e] = old[e]
  BY DEF ApplyRows
<1>4. ApplyRows(old, es) = [e \in Entity |-> ApplyRows(old, es)[e]]
  BY DEF ApplyRows
<1> HIDE DEF ApplyRows
<1>5. \A e \in Entity : ApplyRows(old, es)[e] \in {None} \union Dict
  BY <1>2, <1>3
<1>6. QED
  BY <1>2, <1>3, <1>4, <1>5, NoneAssumption DEF Dict

\* An answer to one watch: the rows it has are merged, and every entity it has not
\* was settled before.
LEMMA AnswerKeepsTags ==
  ASSUME Inv, TypeOK', NEW w \in WatchId, NEW old \in [Entity -> {None} \union Dict],
         NEW es \in SUBSET Entity,
         acc' = [acc EXCEPT ![w] = ApplyRows(old, es \intersect Known)],
         entities' = entities, unmarked' = unmarked,
         \A v \in WatchId : v # w => (v \in watches' => v \in watches) /\ ids'[v] = ids[v] /\ dirty'[v] = dirty[v],
         \A e \in ids'[w] \ es : old[e] = acc[w][e] /\ (Settled(w, e)' => Settled(w, e))
  PROVE  AccOK' /\ NoTagMissing'
<1> DEFINE new == ApplyRows(old, es \intersect Known)
<1>1. /\ new \in [Entity -> {None} \union Dict]
      /\ \A e \in es \intersect Known : new[e] # None /\ entities[e] \subseteq new[e]
      /\ \A e \in Entity \ (es \intersect Known) : new[e] = old[e]
  BY RowsAreMerged DEF Inv
<1> HIDE DEF new
<1>2. acc' = [acc EXCEPT ![w] = new]
  BY DEF new
<1>3. AccOK' /\ acc'[w] = new /\ \A v \in WatchId : v # w => acc'[v] = acc[v]
  BY <1>1, <1>2 DEF Inv, AccOK
<1>4. ASSUME NEW v \in WatchId, NEW e \in Entity, Settled(v, e)', entities'[e] # None
      PROVE  acc'[v][e] # None /\ entities'[e] \subseteq acc'[v][e]
  <2>1. CASE v # w
    <3>1. Settled(v, e)
      BY <1>4, <2>1 DEF Settled
    <3>2. QED
      BY <1>3, <1>4, <2>1, <3>1 DEF Inv, NoTagMissing
  <2>2. CASE v = w /\ e \in es
    BY <1>1, <1>3, <1>4, <2>2 DEF Known
  <2>3. CASE v = w /\ e \notin es
    <3>1. Settled(w, e) /\ old[e] = acc[w][e]
      BY <1>4, <2>3 DEF Settled
    <3>2. acc[w][e] # None /\ entities[e] \subseteq acc[w][e]
      BY <1>4, <3>1 DEF Inv, NoTagMissing
    <3>3. QED
      BY <1>1, <1>3, <2>3, <3>1, <3>2
  <2>4. QED
    BY <2>1, <2>2, <2>3
<1>5. QED
  BY <1>3, <1>4 DEF NoTagMissing

\* A step that answers nobody leaves no more entities settled than there were, and
\* does not change one that is.
LEMMA OtherKeepsTags ==
  ASSUME Inv, Other, UNCHANGED acc
  PROVE  AccOK' /\ NoTagMissing'
<1>1. ASSUME NEW v \in WatchId, NEW f \in Entity, Settled(v, f)', entities'[f] # None
      PROVE  Settled(v, f) /\ entities'[f] = entities[f]
  <2> USE <1>1 DEF Settled, Inv, TypeOK
  <2>1. ASSUME NEW e \in Entity, NEW d \in Dict, LoadEntity(e, d)
        PROVE  Settled(v, f) /\ entities'[f] = entities[f]
    BY <2>1 DEF LoadEntity
  <2>2. ASSUME ReadColNames
        PROVE  Settled(v, f) /\ entities'[f] = entities[f]
    BY <2>2 DEF ReadColNames
  <2>3. ASSUME NEW w \in WatchId, NEW es \in SUBSET Entity, WatchUnsub(w, es)
        PROVE  Settled(v, f) /\ entities'[f] = entities[f]
    BY <2>3 DEF WatchUnsub, DirtyAfterUnsub, store
  <2>4. ASSUME NEW w \in WatchId, WatchClose(w)
        PROVE  Settled(v, f) /\ entities'[f] = entities[f]
    BY <2>4 DEF WatchClose, store
  <2>5. ASSUME NEW e \in Entity, MarkDirty(e)
        PROVE  Settled(v, f) /\ entities'[f] = entities[f]
    BY <2>5 DEF MarkDirty, DirtyAfterMark, store
  <2>6. QED
    BY <2>1, <2>2, <2>3, <2>4, <2>5 DEF Other
<1>2. AccOK'
  BY DEF Inv, AccOK
<1>3. ASSUME NEW v \in WatchId, NEW f \in Entity, Settled(v, f)', entities'[f] # None
      PROVE  acc'[v][f] # None /\ entities'[f] \subseteq acc'[v][f]
  BY <1>1, <1>3 DEF Inv, NoTagMissing
<1>4. QED
  BY <1>2, <1>3 DEF NoTagMissing

LEMMA StepKeepsTags ==
  ASSUME Inv, TypeOK', [PNext]_pvars
  PROVE  AccOK' /\ NoTagMissing'
<1>1. Nothing \in [Entity -> {None} \union Dict] /\ \A w \in WatchId : acc[w] \in [Entity -> {None} \union Dict]
  BY DEF Inv, AccOK, Nothing
<1>2. ASSUME NEW w \in WatchId, NEW es \in SUBSET Entity, NewWatch(w, es),
             acc' = [acc EXCEPT ![w] = ApplyRows(Nothing, es \intersect Known)]
      PROVE  AccOK' /\ NoTagMissing'
  <2>1. /\ entities' = entities /\ unmarked' = unmarked /\ ids'[w] = es
        /\ \A v \in WatchId : v # w => (v \in watches' => v \in watches) /\ ids'[v] = ids[v] /\ dirty'[v] = dirty[v]
    BY <1>2 DEF NewWatch, store, Inv, TypeOK
  <2>2. QED
    BY <1>1, <1>2, <2>1, AnswerKeepsTags
<1>3. ASSUME NEW w \in WatchId, NEW es \in SUBSET Entity, ExtendWatch(w, es), Merge(w, ids'[w])
      PROVE  AccOK' /\ NoTagMissing'
  <2>1. /\ entities' = entities /\ unmarked' = unmarked /\ ids'[w] \in SUBSET Entity
        /\ \A v \in WatchId : v # w => (v \in watches' => v \in watches) /\ ids'[v] = ids[v] /\ dirty'[v] = dirty[v]
    BY <1>3 DEF ExtendWatch, store, Inv, TypeOK
  <2>2. acc' = [acc EXCEPT ![w] = ApplyRows(acc[w], ids'[w] \intersect Known)]
    BY <1>3 DEF Merge
  <2>3. QED
    BY <1>1, <2>1, <2>2, AnswerKeepsTags
<1>4. ASSUME NEW w \in WatchId, NEW refresh \in BOOLEAN, WatchPoll(w, refresh), Merge(w, Polled(w, refresh))
      PROVE  AccOK' /\ NoTagMissing'
  <2>1. /\ entities' = entities /\ unmarked' = unmarked /\ Polled(w, refresh) \in SUBSET Entity
        /\ watches' = watches /\ ids' = ids /\ ids[w] \in SUBSET Entity
        /\ \A v \in WatchId : v # w => dirty'[v] = dirty[v]
    BY <1>4 DEF WatchPoll, DirtyAfterPoll, Polled, store, Inv, TypeOK
  <2>2. acc' = [acc EXCEPT ![w] = ApplyRows(acc[w], Polled(w, refresh) \intersect Known)]
    BY <1>4 DEF Merge
  <2>3. ASSUME NEW e \in ids'[w] \ Polled(w, refresh), Settled(w, e)'
        PROVE  Settled(w, e)
    BY <2>1, <2>3 DEF Settled, Polled
  <2>4. QED
    BY <1>1, <2>1, <2>2, <2>3, AnswerKeepsTags
<1>5. CASE Other /\ UNCHANGED acc
  BY <1>5, OtherKeepsTags
<1>6. CASE UNCHANGED pvars
  BY <1>6 DEF pvars, vars, Inv, AccOK, NoTagMissing, Settled
<1>7. QED
  BY <1>2, <1>3, <1>4, <1>5, <1>6 DEF PNext, Subscribe

\* A settled entity is in the accumulator with every tag it has (watch_sub,
\* watch_poll and apply_delta).
THEOREM TagsCorrect == PSpec => []NoTagMissing
<1>1. PInit => AccOK /\ NoTagMissing
  BY DEF PInit, Init, AccOK, Nothing, NoTagMissing
<1>2. TypeOK /\ TypeOK' /\ AccOK /\ NoTagMissing /\ [PNext]_pvars => (AccOK /\ NoTagMissing)'
  BY StepKeepsTags DEF Inv
<1>3. QED
  BY <1>1, <1>2, TypeCorrect, ClientKeepsAdapter, PTL DEF PSpec

=============================================================================
