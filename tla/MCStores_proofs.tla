---------------------------- MODULE MCStores_proofs ----------------------------
(****************************************************************************)
(* Proofs about the parts of the run "stores", for any number of entities,   *)
(* watches, points, usernames, requests, reads and changes: the watches of   *)
(* the TimescaleDB adapter, the points and the users of all three stores;    *)
(* and, from their own proof modules, the reads by filter and the namespace  *)
(* of defs.                                                                  *)
(****************************************************************************)
EXTENDS MCStores, Sequences, FiniteSetTheorems, WellFoundedInduction, TLAPS

-----------------------------------------------------------------------------
(* The watches of the TimescaleDB adapter.                                   *)

\* The version is told, or why it is not is another matter than the flag.
Told(w, e) ==
  \/ shown[w][e] = rows[e] \/ e \in unflagged \union passed[w] \union untold[w]
  \/ Timescale!Coming(w, e)

\* For a poll under way e is done: it tells the version, or need not.
Settled(s, e) == txn[s].rows[e] = rows[e] \/ Told(txn[s].w, e)

\* What a poll tells or clears, and what it and a subscription have locked.
InOrder(s) ==
  /\ \A e \in Entity : txn[s].rows[e] <= rows[e] /\ (e \in txn[s].told \/ txn[s].rows[e] = 0)
  /\ txn[s].added # {} => txn[s].op = "sub"
  /\ txn[s].locked # {} => txn[s].op # "sub" /\ txn[s].step = "commit"
  /\ txn[s].locked \subseteq Timescale!Subscribed(txn[s].w)
  /\ txn[s].op # "sub" /\ txn[s].step = "update" =>
       \A e \in Timescale!Subscribed(txn[s].w) : Settled(s, e)
  /\ \A e \in txn[s].locked : Settled(s, e)

NotLost(w, e) == Told(w, e) \/ e \in Timescale!Dirty(w)

TimescaleInv ==
  /\ Timescale!TypeOK
  /\ \A w \in WatchId, e \in Entity : shown[w][e] <= rows[e]
  /\ \A w \in WatchId : \A e \in Timescale!Subscribed(w) : NotLost(w, e)
  /\ \A s \in Task : txn[s] # None => InOrder(s)

LEMMA TxnFields ==
  /\ None \notin Timescale!Txn
  /\ \A x \in Timescale!Txn :
       /\ x.op \in {"sub", "poll", "refresh"} /\ x.w \in WatchId
       /\ x.step \in {"insert", "select", "update", "commit", "answer"} /\ x.parent \in BOOLEAN
       /\ x.added \in SUBSET Entity /\ x.locked \in SUBSET Entity /\ x.told \in SUBSET Entity
       /\ x.rows \in [Entity -> Nat]
<1>1. None \notin Timescale!Txn
  BY StoresAssumption DEF Timescale!NoneAssumption
<1>2. QED
  BY <1>1 DEF Timescale!Txn

LEMMA TimescaleInitInv == Timescale!Init => TimescaleInv
<1> SUFFICES ASSUME Timescale!Init PROVE TimescaleInv
  OBVIOUS
<1> USE DEF Timescale!Init, Timescale!NoRows
<1>1. Timescale!TypeOK
  BY DEF Timescale!TypeOK, Timescale!Flag
<1>2. \A w \in WatchId, e \in Entity : shown[w][e] <= rows[e]
  OBVIOUS
<1>3. \A w \in WatchId : Timescale!Subscribed(w) = {}
  BY DEF Timescale!Subscribed
<1>4. \A s \in Task : txn[s] = None
  OBVIOUS
<1>5. QED
  BY <1>1, <1>2, <1>3, <1>4 DEF TimescaleInv

\* What is on its way to a holder depends on the transactions that committed.
LEMMA ComingKept ==
  ASSUME UNCHANGED rows, NEW s \in Task, \A r \in Task \ {s} : txn'[r] = txn[r],
         txn[s] # None => txn[s].step # "answer", txn'[s] # None => txn'[s].step # "answer"
  PROVE  \A w, e : Timescale!Coming(w, e)' <=> Timescale!Coming(w, e)
BY DEF Timescale!Coming, Timescale!Open, Timescale!At, Timescale!Current

\* A step within one transaction, which nobody else sees.
LEMMA WithinTxn ==
  ASSUME TimescaleInv, NEW s \in Task, NEW x \in {None} \union Timescale!Txn,
         txn' = [txn EXCEPT ![s] = x],
         UNCHANGED <<rows, parents, flag, shown, unflagged, passed, untold>>,
         txn[s] # None => txn[s].step # "answer", x # None => x.step # "answer" /\ InOrder(s)'
  PROVE  TimescaleInv'
<1>1. /\ txn' \in [Task -> {None} \union Timescale!Txn]
      /\ txn'[s] = x /\ \A r \in Task \ {s} : txn'[r] = txn[r]
  BY DEF TimescaleInv, Timescale!TypeOK
<1>2. Timescale!TypeOK'
  BY <1>1 DEF TimescaleInv, Timescale!TypeOK
<1>3. \A w : Timescale!Subscribed(w)' = Timescale!Subscribed(w) /\ Timescale!Dirty(w)' = Timescale!Dirty(w)
  BY DEF Timescale!Subscribed, Timescale!Dirty
<1>4. \A w \in WatchId : \A e \in Timescale!Subscribed(w)' : NotLost(w, e)'
  BY <1>1, <1>3, ComingKept DEF TimescaleInv, NotLost, Told
<1>5. ASSUME NEW r \in Task \ {s}, txn[r] # None PROVE InOrder(r)'
  <2>1. InOrder(r)
    BY <1>5 DEF TimescaleInv
  <2>2. \A e : Settled(r, e)' <=> Settled(r, e)
    BY <1>1, ComingKept DEF Settled, Told
  <2>3. QED
    BY <1>1, <1>3, <2>1, <2>2 DEF InOrder
<1>6. QED
  BY <1>1, <1>2, <1>4, <1>5 DEF TimescaleInv

\* A transaction that begins.
LEMMA TxnBegins ==
  ASSUME TimescaleInv, NEW s \in Task, NEW op \in {"sub", "poll", "refresh"}, NEW w \in WatchId,
         NEW parent \in BOOLEAN, NEW es \in SUBSET Entity, NEW step \in {"insert", "select"},
         Timescale!Begin(s, op, w, parent, es, step),
         UNCHANGED <<rows, parents, flag, shown, unflagged, passed, untold>>
  PROVE  TimescaleInv'
<1> DEFINE x == [op |-> op, w |-> w, step |-> step, parent |-> parent, added |-> {},
                 locked |-> {}, told |-> es, rows |-> Timescale!NoRows]
<1>1. txn[s] = None /\ txn' = [txn EXCEPT ![s] = x] /\ txn \in [Task -> {None} \union Timescale!Txn]
  BY DEF Timescale!Begin, TimescaleInv, Timescale!TypeOK
<1>2. /\ x \in Timescale!Txn /\ x.added = {} /\ x.locked = {} /\ x.step \in {"insert", "select"}
      /\ \A e \in Entity : x.rows[e] = 0
  BY DEF Timescale!Txn, Timescale!NoRows
<1> HIDE DEF x
<1>3. txn'[s] = x /\ rows' = rows /\ rows \in [Entity -> Nat]
  BY <1>1, <1>2 DEF TimescaleInv, Timescale!TypeOK
<1>4. InOrder(s)'
  BY <1>2, <1>3 DEF InOrder
<1>5. QED
  BY <1>1, <1>2, <1>4, WithinTxn

LEMMA TxnInserts ==
  ASSUME TimescaleInv, NEW s \in Task, Timescale!SubInserts(s)
  PROVE  TimescaleInv'
<1> DEFINE new == txn[s].told \ Timescale!Subscribed(txn[s].w)
           x == [txn[s] EXCEPT !.added = new, !.step = "select"]
<1>1. /\ txn[s] # None /\ txn[s].op = "sub" /\ txn' = [txn EXCEPT ![s] = x]
      /\ txn[s].step = "insert"
      /\ UNCHANGED <<rows, parents, flag, shown, unflagged, passed, untold>>
  BY DEF Timescale!SubInserts, Timescale!At
<1>2. /\ txn[s] \in Timescale!Txn /\ InOrder(s) /\ new \in SUBSET Entity
      /\ txn \in [Task -> {None} \union Timescale!Txn]
  BY <1>1, TxnFields DEF TimescaleInv, Timescale!TypeOK
<1> HIDE DEF new
<1>3. /\ x \in Timescale!Txn /\ x.op = "sub" /\ x.step = "select" /\ x.w = txn[s].w
      /\ x.locked = txn[s].locked /\ x.rows = txn[s].rows /\ x.told = txn[s].told
  BY <1>1, <1>2 DEF Timescale!Txn
<1> HIDE DEF x
<1>4. txn'[s] = x /\ rows' = rows
  BY <1>1, <1>2, <1>3
<1>5. txn[s].locked = {}
  BY <1>1, <1>2 DEF InOrder
<1>6. InOrder(s)'
  BY <1>2, <1>3, <1>4, <1>5 DEF InOrder
<1>7. QED
  BY <1>1, <1>3, <1>6, WithinTxn

LEMMA TxnSelects ==
  ASSUME TimescaleInv, NEW s \in Task, Timescale!Selects(s)
  PROVE  TimescaleInv'
<1> DEFINE S == Timescale!Selected(s)
           R == [e \in Entity |-> IF e \in S THEN rows[e] ELSE 0]
           p == IF txn[s].op = "sub" THEN "commit" ELSE "update"
           x == [txn[s] EXCEPT !.rows = R, !.told = S, !.step = p]
<1>1. /\ txn[s] # None /\ txn[s].step = "select" /\ txn' = [txn EXCEPT ![s] = x]
      /\ UNCHANGED <<rows, parents, flag, shown, unflagged, passed, untold>>
  <2>1. txn' = [txn EXCEPT ![s].rows = R, ![s].told = S, ![s].step = p]
    BY DEF Timescale!Selects
  <2> HIDE DEF S, R, p
  <2>2. txn' = [txn EXCEPT ![s] = x]
    BY <2>1
  <2>3. /\ txn[s] # None /\ txn[s].step = "select"
        /\ UNCHANGED <<rows, parents, flag, shown, unflagged, passed, untold>>
    BY Zenon DEF Timescale!Selects
  <2>4. QED
    BY <2>2, <2>3
<1>2. /\ txn[s] \in Timescale!Txn /\ InOrder(s) /\ rows \in [Entity -> Nat]
      /\ txn \in [Task -> {None} \union Timescale!Txn]
  BY <1>1 DEF TimescaleInv, Timescale!TypeOK
<1>3. /\ S \in SUBSET Entity
      /\ txn[s].op = "poll" => S = {e \in Timescale!Dirty(txn[s].w) : rows[e] # 0}
      /\ txn[s].op = "refresh" => \A e \in Timescale!Subscribed(txn[s].w) : rows[e] # 0 => e \in S
  BY <1>2, TxnFields DEF Timescale!Selected, Timescale!Stored, Timescale!Dirty, Timescale!Subscribed
<1> HIDE DEF S
<1>4. R \in [Entity -> Nat] /\ \A e \in Entity : R[e] = IF e \in S THEN rows[e] ELSE 0
  BY <1>2
<1>5. p \in {"commit", "update"} /\ (p = "commit" <=> txn[s].op = "sub")
  OBVIOUS
<1> HIDE DEF R, p
<1>6. /\ x \in Timescale!Txn /\ x.op = txn[s].op /\ x.w = txn[s].w
      /\ x.step = p
      /\ x.locked = txn[s].locked /\ x.added = txn[s].added /\ x.told = S
      /\ x.rows = R
  BY <1>2, <1>3, <1>4, <1>5 DEF Timescale!Txn
<1> HIDE DEF x
<1>7. /\ txn'[s] = x /\ rows' = rows /\ shown' = shown /\ unflagged' = unflagged
      /\ passed' = passed /\ untold' = untold
      /\ \A w, e : Timescale!Coming(w, e)' <=> Timescale!Coming(w, e)
  <2>1. txn'[s] = x /\ \A r \in Task \ {s} : txn'[r] = txn[r]
    BY <1>1, <1>2, <1>6
  <2>2. x.step # "answer"
    BY <1>6, <1>5
  <2>3. QED
    BY <1>1, <1>6, <2>1, <2>2, ComingKept
<1>8. txn[s].locked = {}
  BY <1>1, <1>2 DEF InOrder
<1>9. \A w : Timescale!Subscribed(w)' = Timescale!Subscribed(w)
  BY <1>1 DEF Timescale!Subscribed
<1>10. ASSUME NEW e \in Timescale!Subscribed(txn[s].w), txn[s].op # "sub" PROVE Settled(s, e)'
  <2>1. e \in Entity /\ txn[s].w \in WatchId
    BY <1>2, TxnFields DEF Timescale!Subscribed
  <2>2. CASE x.rows[e] = rows[e]
    BY <1>7, <2>2 DEF Settled, Told
  <2>3. CASE x.rows[e] # rows[e]
    <3>1. txn[s].op = "poll"
      BY <1>2, <1>3, <1>6, <1>4, <1>10, <2>1, <2>3, TxnFields
    <3>2. e \notin Timescale!Dirty(txn[s].w)
      BY <1>3, <1>6, <1>4, <2>1, <2>3, <3>1
    <3>3. NotLost(txn[s].w, e)
      BY <1>10, <2>1 DEF TimescaleInv
    <3>4. QED
      BY <1>6, <1>7, <3>2, <3>3 DEF NotLost, Settled, Told
  <2>4. QED
    BY <2>2, <2>3
<1>11. InOrder(s)'
  <2>1. \A e \in Entity : x.rows[e] <= rows[e] /\ (e \in x.told \/ x.rows[e] = 0)
    BY <1>2, <1>6, <1>4
  <2>2. QED
    BY <1>2, <1>6, <1>5, <1>7, <1>8, <1>9, <1>10, <2>1 DEF InOrder
<1>12. QED
  BY <1>1, <1>6, <1>5, <1>11, WithinTxn

LEMMA TxnUpdates ==
  ASSUME TimescaleInv, NEW s \in Task, Timescale!PollUpdates(s)
  PROVE  TimescaleInv'
<1> DEFINE S == Timescale!Subscribed(txn[s].w)
           x == [txn[s] EXCEPT !.locked = S, !.step = "commit"]
<1>1. /\ txn[s] # None /\ txn[s].op \in {"poll", "refresh"} /\ txn[s].step = "update"
      /\ txn' = [txn EXCEPT ![s] = x]
      /\ UNCHANGED <<rows, parents, flag, shown, unflagged, passed, untold>>
  BY DEF Timescale!PollUpdates, Timescale!At
<1>2. /\ txn[s] \in Timescale!Txn /\ InOrder(s) /\ S \in SUBSET Entity
      /\ txn \in [Task -> {None} \union Timescale!Txn]
  BY <1>1 DEF TimescaleInv, Timescale!TypeOK, Timescale!Subscribed
<1>3. /\ x \in Timescale!Txn /\ x.op = txn[s].op /\ x.w = txn[s].w /\ x.step = "commit"
      /\ x.locked = S /\ x.added = txn[s].added /\ x.rows = txn[s].rows /\ x.told = txn[s].told
  BY <1>2 DEF Timescale!Txn
<1> HIDE DEF x
<1>4. /\ txn'[s] = x /\ rows' = rows /\ shown' = shown /\ unflagged' = unflagged
      /\ passed' = passed /\ untold' = untold
      /\ \A w, e : Timescale!Coming(w, e)' <=> Timescale!Coming(w, e)
  <2>1. txn'[s] = x /\ \A r \in Task \ {s} : txn'[r] = txn[r]
    BY <1>1, <1>2, <1>3
  <2>2. QED
    BY <1>1, <1>3, <2>1, ComingKept
<1>5. \A w : Timescale!Subscribed(w)' = Timescale!Subscribed(w)
  BY <1>1 DEF Timescale!Subscribed
<1>6. \A e \in S : Settled(s, e)'
  BY <1>1, <1>2, <1>3, <1>4 DEF InOrder, Settled, Told
<1>7. InOrder(s)'
  BY <1>1, <1>2, <1>3, <1>4, <1>5, <1>6 DEF InOrder
<1>8. QED
  BY <1>1, <1>3, <1>7, WithinTxn

\* A transaction that ends without a trace.
LEMMA TxnEnds ==
  ASSUME TimescaleInv, NEW s \in Task, Timescale!SubOrphaned(s) \/ Timescale!RollsBack(s)
  PROVE  TimescaleInv'
<1>1. /\ txn' = [txn EXCEPT ![s] = None] /\ txn[s] # None /\ txn[s].step # "answer"
      /\ UNCHANGED <<rows, parents, flag, shown, unflagged, passed, untold>>
  BY DEF Timescale!SubOrphaned, Timescale!RollsBack, Timescale!At
<1>2. QED
  BY <1>1, WithinTxn

\* An entity is stored.
LEMMA TimescaleChange ==
  ASSUME TimescaleInv, NEW e \in Entity, Timescale!Change(e)
  PROVE  TimescaleInv'
<1>1. /\ rows' = [rows EXCEPT ![e] = rows[e] + 1] /\ unflagged' = unflagged \union {e}
      /\ UNCHANGED <<parents, flag, txn, shown, passed, untold>>
  BY DEF Timescale!Change
<1>2. /\ Timescale!TypeOK /\ rows \in [Entity -> Nat] /\ shown \in [WatchId -> [Entity -> Nat]]
      /\ txn \in [Task -> {None} \union Timescale!Txn]
  BY DEF TimescaleInv, Timescale!TypeOK
<1>3. /\ rows' \in [Entity -> Nat]
      /\ \A d \in Entity : rows[d] <= rows'[d] /\ (d # e => rows'[d] = rows[d])
  BY <1>1, <1>2
<1>4. Timescale!TypeOK'
  BY <1>1, <1>2, <1>3 DEF Timescale!TypeOK
<1>5. \A w \in WatchId, d \in Entity : shown'[w][d] <= rows'[d]
  <2>1. ASSUME NEW w \in WatchId, NEW d \in Entity PROVE shown[w][d] <= rows'[d]
    <3>1. shown[w][d] \in Nat /\ shown[w][d] <= rows[d] /\ rows[d] \in Nat /\ rows'[d] \in Nat
      BY <1>2, <1>3 DEF TimescaleInv
    <3>2. QED
      BY <1>3, <3>1
  <2>2. QED
    BY <1>1, <2>1
<1>6. \A w \in WatchId, d \in Entity : Told(w, d) => Told(w, d)'
  <2>1. \A w, d : d \in Entity /\ d # e /\ Timescale!Coming(w, d) => Timescale!Coming(w, d)'
    BY <1>1, <1>3 DEF Timescale!Coming, Timescale!Open, Timescale!At, Timescale!Current
  <2>2. QED
    BY <1>1, <1>3, <2>1 DEF Told
<1>7. \A w : Timescale!Subscribed(w)' = Timescale!Subscribed(w) /\ Timescale!Dirty(w)' = Timescale!Dirty(w)
  BY <1>1 DEF Timescale!Subscribed, Timescale!Dirty
<1>8. \A w \in WatchId : Timescale!Subscribed(w) \subseteq Entity
  BY DEF Timescale!Subscribed
<1>9. \A w \in WatchId : \A d \in Timescale!Subscribed(w)' : NotLost(w, d)'
  BY <1>6, <1>7, <1>8 DEF TimescaleInv, NotLost
<1>10. ASSUME NEW s \in Task, txn[s] # None PROVE InOrder(s)'
  <2>1. txn[s] \in Timescale!Txn /\ InOrder(s)
    BY <1>2, <1>10 DEF TimescaleInv
  <2>2. \A d \in Entity : Settled(s, d) => Settled(s, d)'
    BY <1>1, <1>3, <1>6, <2>1, TxnFields DEF Settled, Told
  <2>3. ASSUME NEW d \in Entity
        PROVE  txn[s].rows[d] <= rows'[d] /\ (d \in txn[s].told \/ txn[s].rows[d] = 0)
    <3>1. /\ txn[s].rows[d] \in Nat /\ txn[s].rows[d] <= rows[d]
          /\ rows[d] \in Nat /\ rows'[d] \in Nat /\ rows[d] <= rows'[d]
          /\ d \in txn[s].told \/ txn[s].rows[d] = 0
      BY <1>2, <1>3, <2>1, TxnFields DEF InOrder
    <3>2. QED
      BY <3>1
  <2>4. txn[s].locked \subseteq Entity /\ Timescale!Subscribed(txn[s].w) \subseteq Entity
    BY <1>8, <2>1, TxnFields
  <2>5. QED
    BY <1>1, <1>7, <2>1, <2>2, <2>3, <2>4 DEF InOrder
<1>11. QED
  BY <1>1, <1>4, <1>5, <1>9, <1>10 DEF TimescaleInv

\* An entity is flagged.
LEMMA TimescaleMarks ==
  ASSUME TimescaleInv, NEW e \in Entity, Timescale!MarkDirty(e)
  PROVE  TimescaleInv'
<1>1. /\ unflagged' = unflagged \ {e}
      /\ \A w \in WatchId : e \in Timescale!Subscribed(w) => ~ Timescale!Locked(w, e)
      /\ flag' = [w \in WatchId |-> IF e \in Timescale!Subscribed(w)
                                    THEN [flag[w] EXCEPT ![e] = "dirty"] ELSE flag[w]]
      /\ passed' = [w \in WatchId |-> IF e \in Timescale!Subscribed(w) /\ Timescale!Between(w)
                                      THEN passed[w] \union {e} ELSE passed[w]]
      /\ UNCHANGED <<rows, parents, txn, shown, untold>>
  BY DEF Timescale!MarkDirty
<1>2. /\ Timescale!TypeOK /\ flag \in [WatchId -> [Entity -> Timescale!Flag]]
      /\ txn \in [Task -> {None} \union Timescale!Txn] /\ passed \in [WatchId -> SUBSET Entity]
  BY DEF TimescaleInv, Timescale!TypeOK
<1>3. ASSUME NEW w \in WatchId
      PROVE  /\ flag'[w] \in [Entity -> Timescale!Flag] /\ passed'[w] \in SUBSET Entity
             /\ Timescale!Subscribed(w)' = Timescale!Subscribed(w)
             /\ Timescale!Dirty(w) \subseteq Timescale!Dirty(w)'
             /\ e \in Timescale!Subscribed(w) => e \in Timescale!Dirty(w)'
  <2>1. CASE e \in Timescale!Subscribed(w)
    <3>1. flag'[w] = [flag[w] EXCEPT ![e] = "dirty"] /\ "dirty" \in Timescale!Flag
      BY <1>1, <2>1 DEF Timescale!Flag
    <3>2. QED
      BY <1>1, <1>2, <2>1, <3>1 DEF Timescale!Subscribed, Timescale!Dirty
  <2>2. CASE e \notin Timescale!Subscribed(w)
    <3>1. flag'[w] = flag[w] /\ passed'[w] = passed[w]
      BY <1>1, <2>2
    <3>2. QED
      BY <1>2, <2>2, <3>1 DEF Timescale!Subscribed, Timescale!Dirty
  <2>3. QED
    BY <2>1, <2>2
<1>4. Timescale!TypeOK'
  BY <1>1, <1>2, <1>3 DEF Timescale!TypeOK
<1>5. \A w \in WatchId, d \in Entity : Told(w, d) => Told(w, d)' \/ d = e
  <2>1. \A w, d : Timescale!Coming(w, d) => Timescale!Coming(w, d)'
    BY <1>1 DEF Timescale!Coming, Timescale!Open, Timescale!At, Timescale!Current
  <2>2. QED
    BY <1>1, <2>1 DEF Told
<1>6. ASSUME NEW w \in WatchId, NEW d \in Timescale!Subscribed(w)' PROVE NotLost(w, d)'
  <2>1. d \in Timescale!Subscribed(w) /\ d \in Entity
    BY <1>3, <1>6 DEF Timescale!Subscribed
  <2>2. NotLost(w, d)
    BY <2>1 DEF TimescaleInv
  <2>3. QED
    BY <1>3, <1>5, <2>1, <2>2 DEF NotLost
<1>7. ASSUME NEW s \in Task, txn[s] # None PROVE InOrder(s)'
  <2>1. txn[s] \in Timescale!Txn /\ InOrder(s) /\ txn[s].w \in WatchId
    BY <1>2, <1>7, TxnFields DEF TimescaleInv
  <2>2. \A d \in Entity \ {e} : Settled(s, d) => Settled(s, d)'
    BY <1>1, <1>5, <2>1 DEF Settled
  <2>3. e \notin txn[s].locked
    <3>1. e \in txn[s].locked => Timescale!Locked(txn[s].w, e)
      BY <1>7 DEF Timescale!Locked, Timescale!Open
    <3>2. QED
      BY <1>1, <2>1, <3>1 DEF InOrder
  <2>4. ASSUME txn[s].op # "sub", txn[s].step = "update", e \in Timescale!Subscribed(txn[s].w)
        PROVE  Settled(s, e)'
    <3>1. Timescale!Between(txn[s].w)
      BY <1>7, <2>1, <2>4, TxnFields DEF Timescale!Between, Timescale!Open, Timescale!At
    <3>2. e \in passed'[txn[s].w]
      BY <1>1, <2>1, <2>4, <3>1
    <3>3. QED
      BY <1>1, <3>2 DEF Settled, Told
  <2>5. /\ Timescale!Subscribed(txn[s].w)' = Timescale!Subscribed(txn[s].w)
        /\ Timescale!Subscribed(txn[s].w) \subseteq Entity /\ txn[s].locked \subseteq Entity
    BY <1>1, <1>3, <2>1, TxnFields DEF Timescale!Subscribed
  <2>6. QED
    BY <1>1, <2>1, <2>2, <2>3, <2>4, <2>5 DEF InOrder
<1>8. QED
  BY <1>1, <1>4, <1>6, <1>7 DEF TimescaleInv

\* Rows of a watch go away, and no transaction had locked them.
LEMMA RowsGo ==
  ASSUME TimescaleInv, NEW w \in WatchId, NEW es \in SUBSET Entity,
         \A e \in es \intersect Timescale!Subscribed(w) : ~ Timescale!Locked(w, e),
         flag' = Timescale!NoRowsLeft(w, es), shown' = Timescale!Forgotten(w, es),
         parents' \in SUBSET WatchId, UNCHANGED <<rows, txn, unflagged, passed, untold>>
  PROVE  TimescaleInv'
<1>1. /\ flag \in [WatchId -> [Entity -> Timescale!Flag]] /\ shown \in [WatchId -> [Entity -> Nat]]
      /\ txn \in [Task -> {None} \union Timescale!Txn] /\ rows \in [Entity -> Nat]
  BY DEF TimescaleInv, Timescale!TypeOK
<1>2. /\ flag' \in [WatchId -> [Entity -> Timescale!Flag]]
      /\ \A v \in WatchId, e \in Entity :
           flag'[v][e] = IF v = w /\ e \in es THEN "none" ELSE flag[v][e]
  <2>1. PICK f \in [Entity -> Timescale!Flag] :
          /\ f = [e \in Entity |-> IF e \in es THEN "none" ELSE flag[w][e]]
          /\ flag' = [flag EXCEPT ![w] = f]
    BY <1>1 DEF Timescale!NoRowsLeft, Timescale!Flag
  <2>2. QED
    BY <1>1, <2>1
<1>3. /\ shown' \in [WatchId -> [Entity -> Nat]]
      /\ \A v \in WatchId, e \in Entity :
           shown'[v][e] = IF v = w /\ e \in es THEN 0 ELSE shown[v][e]
  <2>1. PICK f \in [Entity -> Nat] :
          /\ f = [e \in Entity |-> IF e \in es THEN 0 ELSE shown[w][e]]
          /\ shown' = [shown EXCEPT ![w] = f]
    BY <1>1 DEF Timescale!Forgotten
  <2>2. QED
    BY <1>1, <2>1
<1>4. Timescale!TypeOK'
  <2>1. /\ unflagged \in SUBSET Entity /\ passed \in [WatchId -> SUBSET Entity]
        /\ untold \in [WatchId -> SUBSET Entity]
    BY DEF TimescaleInv, Timescale!TypeOK
  <2>2. QED
    BY <1>1, <1>2, <1>3, <2>1 DEF Timescale!TypeOK
<1>5. ASSUME NEW v \in WatchId, NEW e \in Entity PROVE shown'[v][e] <= rows'[e]
  <2>1. shown[v][e] <= rows[e] /\ rows[e] \in Nat /\ rows' = rows
    BY <1>1 DEF TimescaleInv
  <2>2. shown'[v][e] \in {0, shown[v][e]}
    BY <1>3
  <2>3. QED
    BY <2>1, <2>2
<1>6. \A v \in WatchId, e \in Entity :
        /\ e \in Timescale!Subscribed(v)' <=>
             e \in Timescale!Subscribed(v) /\ ~ (v = w /\ e \in es)
        /\ ~ (v = w /\ e \in es) => /\ Told(v, e) => Told(v, e)'
                                    /\ e \in Timescale!Dirty(v) => e \in Timescale!Dirty(v)'
  <2>1. \A v, e : Timescale!Coming(v, e) => Timescale!Coming(v, e)'
    BY DEF Timescale!Coming, Timescale!Open, Timescale!At, Timescale!Current
  <2>2. QED
    BY <1>2, <1>3, <2>1 DEF Timescale!Subscribed, Timescale!Dirty, Told
<1>7. \A v \in WatchId : Timescale!Subscribed(v) \subseteq Entity /\ Timescale!Subscribed(v)' \subseteq Entity
  BY DEF Timescale!Subscribed
<1>8. \A v \in WatchId : \A e \in Timescale!Subscribed(v)' : NotLost(v, e)'
  BY <1>6, <1>7 DEF TimescaleInv, NotLost
<1>9. ASSUME NEW s \in Task, txn[s] # None PROVE InOrder(s)'
  <2>1. txn[s] \in Timescale!Txn /\ InOrder(s) /\ txn[s].w \in WatchId
    BY <1>1, <1>9, TxnFields DEF TimescaleInv
  <2>2. \A e \in Entity : ~ (txn[s].w = w /\ e \in es) => (Settled(s, e) => Settled(s, e)')
    BY <1>6, <2>1 DEF Settled
  <2>3. \A e \in txn[s].locked : /\ e \in Entity /\ ~ (txn[s].w = w /\ e \in es)
                                 /\ e \in Timescale!Subscribed(txn[s].w)'
    <3>1. ASSUME NEW e \in txn[s].locked PROVE e \in Entity /\ ~ (txn[s].w = w /\ e \in es)
      <4>1. e \in Timescale!Subscribed(txn[s].w) /\ Timescale!Locked(txn[s].w, e) /\ e \in Entity
        BY <1>9, <2>1, TxnFields DEF InOrder, Timescale!Locked, Timescale!Open
      <4>2. QED
        BY <4>1
    <3>2. QED
      BY <1>6, <2>1, <3>1 DEF InOrder
  <2>4. QED
    BY <1>6, <1>7, <2>1, <2>2, <2>3 DEF InOrder
<1>10. QED
  BY <1>4, <1>5, <1>8, <1>9 DEF TimescaleInv

\* A transaction commits: what it has cleared was settled or is on its way, and
\* what it has added is dirty.
LEMMA TimescaleCommits ==
  ASSUME TimescaleInv, NEW s \in Task, Timescale!Commits(s)
  PROVE  TimescaleInv'
<1>0. PICK w \in WatchId : w = txn[s].w
  BY TxnFields DEF Timescale!Commits, TimescaleInv, Timescale!TypeOK
<1> DEFINE x == [txn[s] EXCEPT !.step = "answer", !.parent = FALSE, !.added = {}, !.locked = {}]
<1>1. /\ txn[s] # None /\ txn[s].step = "commit" /\ txn' = [txn EXCEPT ![s] = x]
      /\ parents' = IF txn[s].parent THEN parents \union {w} ELSE parents
      /\ flag' = [flag EXCEPT ![w] = Timescale!FlagAfterCommit(s)]
      /\ passed' = IF Timescale!Between(w) THEN [passed EXCEPT ![w] = @ \union txn[s].added] ELSE passed
      /\ UNCHANGED <<rows, shown, unflagged, untold>>
  BY <1>0 DEF Timescale!Commits
<1>2. /\ Timescale!TypeOK /\ flag \in [WatchId -> [Entity -> Timescale!Flag]]
      /\ shown \in [WatchId -> [Entity -> Nat]] /\ rows \in [Entity -> Nat]
      /\ passed \in [WatchId -> SUBSET Entity] /\ txn \in [Task -> {None} \union Timescale!Txn]
  BY DEF TimescaleInv, Timescale!TypeOK
<1>3. /\ txn[s].added \in SUBSET Entity /\ txn[s].locked \in SUBSET Entity
      /\ txn[s].rows \in [Entity -> Nat] /\ txn[s].parent \in BOOLEAN /\ InOrder(s)
      /\ txn[s].added = {} \/ txn[s].locked = {}
  BY <1>1, <1>2, TxnFields DEF TimescaleInv, InOrder
<1>4. /\ txn' \in [Task -> {None} \union Timescale!Txn]
      /\ txn'[s] = x /\ \A r \in Task \ {s} : txn'[r] = txn[r]
      /\ x # None /\ x.step = "answer" /\ x.added = {} /\ x.locked = {} /\ x.w = w
      /\ x.rows = txn[s].rows /\ x.told = txn[s].told /\ x.op = txn[s].op
  <2>1. txn[s] \in Timescale!Txn
    BY <1>1, <1>2
  <2>2. /\ x \in Timescale!Txn /\ x.step = "answer" /\ x.added = {} /\ x.locked = {} /\ x.w = w
        /\ x.rows = txn[s].rows /\ x.told = txn[s].told /\ x.op = txn[s].op
    BY <1>0, <2>1 DEF Timescale!Txn
  <2> HIDE DEF x
  <2>3. QED
    BY <1>1, <1>2, <2>2, TxnFields
<1> HIDE DEF x
<1>5. /\ flag' \in [WatchId -> [Entity -> Timescale!Flag]]
      /\ \A v \in WatchId, e \in Entity :
           flag'[v][e] = IF v = w /\ e \in txn[s].added THEN "dirty"
                         ELSE IF v = w /\ e \in txn[s].locked THEN "clean" ELSE flag[v][e]
  <2>1. \A e \in Entity : Timescale!FlagAfterCommit(s)[e] =
          IF e \in txn[s].added THEN "dirty" ELSE IF e \in txn[s].locked THEN "clean" ELSE flag[w][e]
    BY <1>0, <1>3 DEF Timescale!FlagAfterCommit
  <2>2. Timescale!FlagAfterCommit(s) = [e \in Entity |-> Timescale!FlagAfterCommit(s)[e]]
    BY DEF Timescale!FlagAfterCommit
  <2>3. Timescale!FlagAfterCommit(s) \in [Entity -> Timescale!Flag]
    BY <1>2, <1>3, <2>1, <2>2 DEF Timescale!Flag
  <2>4. QED
    BY <1>1, <1>2, <1>3, <2>1, <2>3
<1>7. /\ passed' \in [WatchId -> SUBSET Entity]
      /\ \A v \in WatchId \ {w} : passed'[v] = passed[v]
      /\ passed[w] \subseteq passed'[w]
      /\ Timescale!Between(w) => txn[s].added \subseteq passed'[w]
  BY <1>1, <1>2, <1>3
<1>8. Timescale!TypeOK'
  BY <1>1, <1>2, <1>3, <1>4, <1>5, <1>7 DEF Timescale!TypeOK
<1>9. \A v, e : Timescale!Coming(v, e) => Timescale!Coming(v, e)'
  BY <1>1, <1>4 DEF Timescale!Coming, Timescale!Open, Timescale!At, Timescale!Current
<1>10. \A v \in WatchId, e \in Entity : Told(v, e) => Told(v, e)'
  BY <1>1, <1>7, <1>9 DEF Told
<1>11. \A v \in WatchId, e \in Entity :
         /\ e \in Timescale!Subscribed(v) => e \in Timescale!Subscribed(v)'
         /\ e \in Timescale!Subscribed(v)' =>
              e \in Timescale!Subscribed(v) \/ (v = w /\ e \in txn[s].added)
         /\ v = w /\ e \in txn[s].added => e \in Timescale!Dirty(v)'
         /\ e \in Timescale!Dirty(v) => e \in Timescale!Dirty(v)' \/ (v = w /\ e \in txn[s].locked)
  <2>1. txn[s].locked \subseteq Timescale!Subscribed(w)
    BY <1>0, <1>3 DEF InOrder
  <2>2. QED
    BY <1>5, <2>1 DEF Timescale!Subscribed, Timescale!Dirty
<1>12. \A v \in WatchId : Timescale!Subscribed(v) \subseteq Entity /\ Timescale!Subscribed(v)' \subseteq Entity
  BY DEF Timescale!Subscribed
<1>13. \A e \in txn[s].locked : Told(w, e)'
  <2>1. ASSUME NEW e \in txn[s].locked PROVE Told(w, e)'
    <3>1. e \in Entity /\ Settled(s, e)
      BY <1>3 DEF InOrder
    <3>2. CASE txn[s].rows[e] = rows[e]
      <4>1. txn[s].op \in {"poll", "refresh"}
        BY <1>1, <1>2, <1>3, <2>1, TxnFields DEF InOrder
      <4>2. CASE e \in txn[s].told
        <5>1. Timescale!Coming(w, e)'
          BY <1>1, <1>4, <3>2, <4>1, <4>2 DEF Timescale!Coming, Timescale!Open, Timescale!At, Timescale!Current
        <5>2. QED
          BY <5>1 DEF Told
      <4>3. CASE e \notin txn[s].told
        <5>1. rows[e] = 0 /\ shown[w][e] <= rows[e] /\ shown[w][e] \in Nat
          BY <1>2, <1>3, <3>1, <3>2, <4>3 DEF InOrder, TimescaleInv
        <5>2. QED
          BY <1>1, <5>1 DEF Told
      <4>4. QED
        BY <4>2, <4>3
    <3>3. CASE Told(w, e)
      BY <1>3, <1>10, <3>1, <3>3
    <3>4. QED
      BY <1>0, <3>1, <3>2, <3>3 DEF Settled
  <2>2. QED
    BY <2>1
<1>14. ASSUME NEW v \in WatchId, NEW e \in Timescale!Subscribed(v)' PROVE NotLost(v, e)'
  <2>1. e \in Entity
    BY <1>12, <1>14
  <2>2. CASE v = w /\ e \in txn[s].added
    BY <1>11, <2>1, <2>2 DEF NotLost
  <2>3. CASE e \in Timescale!Subscribed(v)
    <3>1. NotLost(v, e)
      BY <2>3 DEF TimescaleInv
    <3>2. QED
      BY <1>10, <1>11, <1>13, <2>1, <3>1 DEF NotLost
  <2>4. QED
    BY <1>11, <1>14, <2>1, <2>2, <2>3
<1>6. InOrder(s)'
  BY <1>1, <1>3, <1>4 DEF InOrder
<1>15. ASSUME NEW r \in Task \ {s}, txn'[r] # None PROVE InOrder(r)'
  <2>1. /\ txn'[r] = txn[r] /\ txn[r] \in Timescale!Txn /\ InOrder(r)
        /\ txn[r].w \in WatchId /\ txn[r].locked \subseteq Entity
    BY <1>2, <1>4, <1>15, TxnFields DEF TimescaleInv
  <2>2. \A e \in Entity : Settled(r, e) => Settled(r, e)'
    BY <1>1, <1>10, <2>1 DEF Settled
  <2>3. ASSUME txn[r].op # "sub", txn[r].step = "update",
               NEW e \in Timescale!Subscribed(txn[r].w)'
        PROVE  Settled(r, e)'
    <3>1. e \in Entity
      BY <1>12, <2>1, <2>3
    <3>2. CASE e \in Timescale!Subscribed(txn[r].w)
      BY <2>1, <2>2, <2>3, <3>1, <3>2 DEF InOrder
    <3>3. CASE txn[r].w = w /\ e \in txn[s].added
      <4>1. Timescale!Between(w)
        BY <1>2, <2>1, <2>3, <3>3, TxnFields
           DEF Timescale!Between, Timescale!Open, Timescale!At
      <4>2. e \in passed'[w]
        BY <1>7, <3>3, <4>1
      <4>3. QED
        BY <2>1, <3>3, <4>2 DEF Settled, Told
    <3>4. QED
      BY <1>11, <2>1, <2>3, <3>1, <3>2, <3>3
  <2>4. txn[r].locked \subseteq Timescale!Subscribed(txn[r].w)'
    BY <1>11, <2>1 DEF InOrder
  <2>5. QED
    BY <1>1, <2>1, <2>2, <2>3, <2>4 DEF InOrder
<1>16. QED
  BY <1>1, <1>6, <1>8, <1>14, <1>15 DEF TimescaleInv

\* A transaction that committed ends: what it had on its way is told or lost.
LEMMA AnswerEnds ==
  ASSUME TimescaleInv, NEW s \in Task, txn[s] # None, txn' = [txn EXCEPT ![s] = None],
         UNCHANGED <<rows, parents, flag, unflagged>>, Timescale!TypeOK',
         \A w \in WatchId, e \in Entity : shown'[w][e] <= rows[e] /\ (Told(w, e) => Told(w, e)')
  PROVE  TimescaleInv'
<1>1. \A w : Timescale!Subscribed(w)' = Timescale!Subscribed(w) /\ Timescale!Dirty(w)' = Timescale!Dirty(w)
  BY DEF Timescale!Subscribed, Timescale!Dirty
<1>2. \A w \in WatchId : Timescale!Subscribed(w) \subseteq Entity
  BY DEF Timescale!Subscribed
<1>3. \A w \in WatchId : \A e \in Timescale!Subscribed(w)' : NotLost(w, e)'
  BY <1>1, <1>2 DEF TimescaleInv, NotLost
<1>4. ASSUME NEW r \in Task, txn'[r] # None PROVE InOrder(r)'
  <2>1. /\ r # s /\ txn'[r] = txn[r] /\ txn[r] \in Timescale!Txn /\ InOrder(r)
        /\ txn[r].w \in WatchId /\ txn[r].locked \subseteq Entity
    BY <1>4, TxnFields DEF TimescaleInv, Timescale!TypeOK
  <2>2. \A e \in Entity : Settled(r, e) => Settled(r, e)'
    BY <2>1 DEF Settled
  <2>3. QED
    BY <1>1, <1>2, <2>1, <2>2 DEF InOrder
<1>5. QED
  BY <1>3, <1>4 DEF TimescaleInv

LEMMA TimescaleAnswers ==
  ASSUME TimescaleInv, NEW s \in Task, Timescale!Answers(s)
  PROVE  TimescaleInv'
<1>0. PICK w \in WatchId : w = txn[s].w
  BY TxnFields DEF Timescale!Answers, TimescaleInv, Timescale!TypeOK
<1> DEFINE C == Timescale!Current(s)
<1>1. /\ txn[s] # None /\ txn[s].step = "answer" /\ txn' = [txn EXCEPT ![s] = None]
      /\ shown' = [shown EXCEPT ![w] =
           [e \in Entity |-> IF txn[s].rows[e] > shown[w][e] THEN txn[s].rows[e] ELSE shown[w][e]]]
      /\ passed' = [passed EXCEPT ![w] = @ \ C] /\ untold' = [untold EXCEPT ![w] = @ \ C]
      /\ UNCHANGED <<rows, parents, flag, unflagged>>
  BY <1>0 DEF Timescale!Answers
<1>2. /\ Timescale!TypeOK /\ shown \in [WatchId -> [Entity -> Nat]] /\ rows \in [Entity -> Nat]
      /\ passed \in [WatchId -> SUBSET Entity] /\ untold \in [WatchId -> SUBSET Entity]
      /\ txn \in [Task -> {None} \union Timescale!Txn]
      /\ txn[s].rows \in [Entity -> Nat] /\ InOrder(s)
  BY <1>1, TxnFields DEF TimescaleInv, Timescale!TypeOK
<1>3. /\ txn' \in [Task -> {None} \union Timescale!Txn]
      /\ txn'[s] = None /\ \A r \in Task \ {s} : txn'[r] = txn[r]
  BY <1>1, <1>2
<1>4. \A e : e \in C <=> e \in txn[s].told /\ txn[s].rows[e] = rows[e]
  BY DEF Timescale!Current
<1> HIDE DEF C
<1>5. /\ shown' \in [WatchId -> [Entity -> Nat]]
      /\ \A v \in WatchId, e \in Entity :
           shown'[v][e] = IF v = w /\ txn[s].rows[e] > shown[w][e] THEN txn[s].rows[e] ELSE shown[v][e]
  <2>1. PICK f \in [Entity -> Nat] :
          /\ f = [e \in Entity |-> IF txn[s].rows[e] > shown[w][e] THEN txn[s].rows[e] ELSE shown[w][e]]
          /\ shown' = [shown EXCEPT ![w] = f]
    BY <1>1, <1>2
  <2>2. QED
    BY <1>2, <2>1
<1>6. Timescale!TypeOK'
  BY <1>1, <1>2, <1>3, <1>5 DEF Timescale!TypeOK
<1>7. /\ \A v \in WatchId, e \in Entity : shown'[v][e] <= rows[e]
      /\ \A e \in Entity : e \in C => shown'[w][e] = rows[e]
      /\ \A v \in WatchId, e \in Entity : shown[v][e] = rows[e] => shown'[v][e] = rows[e]
  <2>1. \A e \in Entity : /\ txn[s].rows[e] \in Nat /\ rows[e] \in Nat /\ shown[w][e] \in Nat
                          /\ txn[s].rows[e] <= rows[e] /\ shown[w][e] <= rows[e]
    BY <1>2 DEF TimescaleInv, InOrder
  <2>2. ASSUME NEW v \in WatchId, NEW e \in Entity
        PROVE  /\ shown'[v][e] <= rows[e]
               /\ v = w /\ txn[s].rows[e] = rows[e] => shown'[v][e] = rows[e]
               /\ shown[v][e] = rows[e] => shown'[v][e] = rows[e]
    <3>1. shown[v][e] <= rows[e] /\ shown[v][e] \in Nat
      BY <1>2 DEF TimescaleInv
    <3>2. shown'[v][e] = IF v = w /\ txn[s].rows[e] > shown[w][e] THEN txn[s].rows[e] ELSE shown[v][e]
      BY <1>5
    <3>3. QED
      BY <2>1, <3>1, <3>2
  <2>3. QED
    BY <1>4, <2>2
<1>8. ASSUME NEW v \in WatchId, NEW e \in Entity, Told(v, e) PROVE Told(v, e)'
  <2>1. CASE v = w /\ e \in C
    BY <1>1, <1>7, <2>1 DEF Told
  <2>2. CASE ~ (v = w /\ e \in C)
    <3>1. /\ e \in passed[v] => e \in passed'[v]
          /\ e \in untold[v] => e \in untold'[v]
      BY <1>1, <1>2, <2>2
    <3>2. Timescale!Coming(v, e) => Timescale!Coming(v, e)'
      BY <1>0, <1>1, <1>3, <1>4, <2>2 DEF Timescale!Coming, Timescale!Open, Timescale!At, Timescale!Current
    <3>3. QED
      BY <1>1, <1>7, <1>8, <3>1, <3>2 DEF Told
  <2>3. QED
    BY <2>1, <2>2
<1>9. QED
  BY <1>1, <1>6, <1>7, <1>8, AnswerEnds

LEMMA AnswerLost ==
  ASSUME TimescaleInv, NEW s \in Task, Timescale!AnswerIsLost(s)
  PROVE  TimescaleInv'
<1>0. PICK w \in WatchId : w = txn[s].w
  BY TxnFields DEF Timescale!AnswerIsLost, TimescaleInv, Timescale!TypeOK
<1> DEFINE C == Timescale!Current(s)
<1>1. /\ txn[s] # None /\ txn[s].step = "answer" /\ txn' = [txn EXCEPT ![s] = None]
      /\ untold' = IF txn[s].op = "sub" THEN untold ELSE [untold EXCEPT ![w] = @ \union C]
      /\ UNCHANGED <<rows, parents, flag, shown, unflagged, passed>>
  BY <1>0 DEF Timescale!AnswerIsLost
<1>2. /\ Timescale!TypeOK /\ untold \in [WatchId -> SUBSET Entity]
      /\ txn \in [Task -> {None} \union Timescale!Txn] /\ txn[s].told \in SUBSET Entity
  BY <1>1, TxnFields DEF TimescaleInv, Timescale!TypeOK
<1>3. /\ txn' \in [Task -> {None} \union Timescale!Txn]
      /\ txn'[s] = None /\ \A r \in Task \ {s} : txn'[r] = txn[r]
  BY <1>1, <1>2
<1>4. C \in SUBSET Entity /\ \A e : e \in C <=> e \in txn[s].told /\ txn[s].rows[e] = rows[e]
  BY <1>2 DEF Timescale!Current
<1> HIDE DEF C
<1>5. Timescale!TypeOK' /\ \A v \in WatchId : untold[v] \subseteq untold'[v]
  BY <1>1, <1>2, <1>3, <1>4 DEF Timescale!TypeOK
<1>6. ASSUME NEW v \in WatchId, NEW e \in Entity, Told(v, e) PROVE Told(v, e)'
  <2>1. CASE v = w /\ e \in C /\ txn[s].op # "sub"
    BY <1>1, <1>2, <2>1 DEF Told
  <2>2. CASE ~ (v = w /\ e \in C /\ txn[s].op # "sub")
    <3>1. Timescale!Coming(v, e) => Timescale!Coming(v, e)'
      BY <1>0, <1>1, <1>3, <1>4, <2>2 DEF Timescale!Coming, Timescale!Open, Timescale!At, Timescale!Current
    <3>2. QED
      BY <1>1, <1>5, <1>6, <3>1 DEF Told
  <2>3. QED
    BY <2>1, <2>2
<1>7. QED
  BY <1>1, <1>5, <1>6, AnswerEnds DEF TimescaleInv

LEMMA TimescaleNextInv == TimescaleInv /\ [Timescale!Next]_timescaleVars => TimescaleInv'
<1> SUFFICES ASSUME TimescaleInv, [Timescale!Next]_timescaleVars PROVE TimescaleInv'
  OBVIOUS
<1>1. ASSUME NEW e \in Entity, Timescale!Change(e) \/ Timescale!MarkDirty(e) PROVE TimescaleInv'
  BY <1>1, TimescaleChange, TimescaleMarks
<1>2. ASSUME NEW s \in Task, NEW w \in WatchId, NEW es \in SUBSET Entity,
             Timescale!SubBegins(s, w, es)
      PROVE  TimescaleInv'
  <2>1. /\ Timescale!Begin(s, "sub", w, w \notin parents, es, "insert")
        /\ UNCHANGED <<rows, parents, flag, shown, unflagged, passed, untold>>
    BY <1>2 DEF Timescale!SubBegins
  <2>2. (w \notin parents) \in BOOLEAN
    OBVIOUS
  <2>3. QED
    BY <2>1, <2>2, TxnBegins
<1>3. ASSUME NEW s \in Task, NEW w \in WatchId, NEW op \in {"poll", "refresh"},
             Timescale!PollBegins(s, op, w)
      PROVE  TimescaleInv'
  <2>1. /\ Timescale!Begin(s, op, w, FALSE, {}, "select") /\ {} \in SUBSET Entity
        /\ UNCHANGED <<rows, parents, flag, shown, unflagged, passed, untold>>
    BY <1>3 DEF Timescale!PollBegins
  <2>2. QED
    BY <2>1, TxnBegins
<1>4. ASSUME NEW s \in Task, \/ Timescale!SubInserts(s) \/ Timescale!SubOrphaned(s)
                             \/ Timescale!Selects(s) \/ Timescale!PollUpdates(s)
                             \/ Timescale!Commits(s) \/ Timescale!RollsBack(s)
                             \/ Timescale!Answers(s) \/ Timescale!AnswerIsLost(s)
      PROVE  TimescaleInv'
  BY <1>4, TxnInserts, TxnEnds, TxnSelects, TxnUpdates, TimescaleCommits, TimescaleAnswers, AnswerLost
<1>5. ASSUME NEW w \in WatchId, NEW es \in SUBSET Entity, Timescale!Unsub(w, es)
      PROVE  TimescaleInv'
  <2>1. parents' \in SUBSET WatchId
    BY <1>5 DEF Timescale!Unsub, TimescaleInv, Timescale!TypeOK
  <2>2. QED
    BY <1>5, <2>1, RowsGo DEF Timescale!Unsub
<1>6. ASSUME NEW w \in WatchId, Timescale!Close(w) PROVE TimescaleInv'
  <2>1. parents' \in SUBSET WatchId /\ Entity \in SUBSET Entity
    BY <1>6 DEF Timescale!Close, TimescaleInv, Timescale!TypeOK
  <2>2. QED
    BY <1>6, <2>1, RowsGo DEF Timescale!Close, Timescale!FlagAfterClose
<1>7. CASE UNCHANGED timescaleVars
  BY <1>7 DEF timescaleVars, TimescaleInv, Timescale!TypeOK, Timescale!Subscribed,
              Timescale!Dirty, NotLost, Told, InOrder, Settled, Timescale!Coming, Timescale!Open,
              Timescale!At, Timescale!Current
<1>8. QED
  BY <1>1, <1>2, <1>3, <1>4, <1>5, <1>6, <1>7 DEF Timescale!Next

LEMMA TimescaleInvAlways == StoresSpec => []TimescaleInv
<1>1. StoresInit => TimescaleInv
  BY TimescaleInitInv DEF StoresInit
<1>2. TimescaleInv /\ [StoresNext]_allVars => TimescaleInv'
  <2>1. ASSUME [StoresNext]_allVars
        PROVE  [Timescale!Next]_timescaleVars
    BY <2>1 DEF StoresNext, allVars
  <2>2. QED
    BY <2>1, TimescaleNextInv
<1>3. QED
  BY <1>1, <1>2, PTL DEF StoresSpec

\* A notification of a TimescaleDB watch is lost only when the flag is set between
\* the two statements of a poll, or with the answer of one that committed
\* (watch_poll).
THEOREM LostCorrect == StoresSpec => []LostOnlyBetween
<1>1. TimescaleInv => LostOnlyBetween
  <2> SUFFICES ASSUME TimescaleInv, NEW w \in parents, NEW e \in Timescale!Subscribed(w)
               PROVE  \/ shown[w][e] = rows[e] \/ Timescale!Coming(w, e)
                      \/ e \in Timescale!Dirty(w) \union unflagged \union untold[w] \union passed[w]
    BY DEF LostOnlyBetween, Timescale!LostOnlyBetween
  <2>1. w \in WatchId
    BY DEF TimescaleInv, Timescale!TypeOK
  <2>2. QED
    BY <2>1 DEF TimescaleInv, NotLost, Told
<1>2. QED
  BY TimescaleInvAlways, <1>1, PTL

-----------------------------------------------------------------------------
(* The calls that write and read points.                                     *)

WriteCalls == {"hisWrite", "hisWriteBatch", "pointWrite"}
PointRow == [ts : Int, val : Int \union {Text}]
PointCall ==
  [at : {"idle", "check", "body", "run", "respond", "done"},
   op : WriteCalls \union {"hisRead", "pointArray"},
   points : Seq(Point), items : Seq(PointRow), level : Int,
   did : BOOLEAN, granted : BOOLEAN, result : {"none", "ok", "error", "415", "406"}]

\* Who may write holds the role at the check, and was seen to hold it.
Lawful(c) ==
  /\ c.at # "idle" => c.points # <<>>
  /\ c.at # "idle" /\ (~secured \/ role = "operator") => c.granted
  /\ c.at \in {"body", "run"} /\ c.op \in Points!WriteOps => c.granted

\* A change comes from the method, and only Redis changes what it refuses.
Accountable(c) ==
  c.did => /\ c.at \in {"respond", "done"} /\ c.granted /\ c.result # "415"
           /\ c.result = "error" =>
                backend = "redis" /\ \E i \in DOMAIN c.items : c.items[i].ts < 0

CallsInv ==
  /\ backend \in {"memory", "redis", "timescale"} /\ secured \in BOOLEAN
  /\ role \in {"off", "viewer", "operator"}
  /\ call \in [Task -> PointCall]
  /\ \A t \in Task : Lawful(call[t]) /\ Accountable(call[t])

LEMMA CallFields ==
  ASSUME NEW c \in PointCall
  PROVE  /\ c.at \in {"idle", "check", "body", "run", "respond", "done"}
         /\ c.op \in WriteCalls \union {"hisRead", "pointArray"}
         /\ c.points \in Seq(Point) /\ c.items \in Seq(PointRow) /\ c.level \in Int
         /\ c.did \in BOOLEAN /\ c.granted \in BOOLEAN
         /\ c.result \in {"none", "ok", "error", "415", "406"}
BY DEF PointCall

LEMMA CallsInitInv == Points!Init => CallsInv
<1> SUFFICES ASSUME Points!Init PROVE CallsInv
  OBVIOUS
<1>1. Points!Idle \in PointCall
  BY DEF Points!Idle, PointCall, WriteCalls
<1>2. Lawful(Points!Idle) /\ Accountable(Points!Idle)
  BY DEF Points!Idle, Lawful, Accountable
<1>3. \A t \in Task : call[t] = Points!Idle
  BY DEF Points!Init
<1>4. role \in {"off", "viewer", "operator"}
  BY DEF Points!Init, Points!Role
<1>5. QED
  BY <1>1, <1>2, <1>3, <1>4 DEF Points!Init, CallsInv

\* One call changes, and no role does.
LEMMA OneCall ==
  ASSUME CallsInv, NEW t \in Task, NEW c \in PointCall, call' = [call EXCEPT ![t] = c],
         UNCHANGED <<backend, secured, role>>, Lawful(c), Accountable(c)
  PROVE  CallsInv'
<1>1. call' \in [Task -> PointCall]
  BY DEF CallsInv
<1>2. ASSUME NEW u \in Task PROVE Lawful(call[u])' /\ Accountable(call[u])'
  <2>1. CASE u = t
    <3>1. call'[u] = c
      BY <2>1 DEF CallsInv
    <3>2. QED
      BY <3>1 DEF Lawful, Accountable, Points!WriteOps
  <2>2. CASE u # t
    <3>1. call'[u] = call[u]
      BY <2>2 DEF CallsInv
    <3>2. Lawful(call[u]) /\ Accountable(call[u])
      BY DEF CallsInv
    <3>3. QED
      BY <3>1, <3>2 DEF Lawful, Accountable, Points!WriteOps
  <2>3. QED
    BY <2>1, <2>2
<1>3. QED
  BY <1>1, <1>2 DEF CallsInv

LEMMA CallAsks ==
  ASSUME CallsInv, NEW t \in Task, NEW op \in WriteCalls \union {"hisRead", "pointArray"},
         NEW points \in Seq(Point), points # <<>>, NEW items \in Seq(PointRow), NEW level \in Int,
         Points!Ask(t, op, points, items, level)
  PROVE  CallsInv'
<1> DEFINE right == ~secured \/ role = "operator"
<1>1. PICK g : g = right
  OBVIOUS
<1>2. PICK i : i = Points!Idle
  OBVIOUS
<1>3. g \in BOOLEAN /\ (right => g) /\ i \in PointCall /\ i.did = FALSE
  <2>1. g \in BOOLEAN /\ (right => g)
    BY <1>1
  <2>2. Points!Idle \in PointCall /\ Points!Idle.did = FALSE
    BY DEF Points!Idle, PointCall, WriteCalls
  <2>3. QED
    BY <1>2, <2>1, <2>2
<1>4. PICK c : c = [i EXCEPT !.at = "check", !.op = op, !.points = points,
                             !.items = items, !.level = level, !.granted = g]
  OBVIOUS
<1>5. /\ c \in PointCall /\ c.at = "check" /\ c.points = points /\ c.granted = g
      /\ c.did = FALSE
  BY <1>3, <1>4 DEF PointCall
<1>6. call' = [call EXCEPT ![t] = c]
  BY <1>1, <1>2, <1>4 DEF Points!Ask
<1>7. Lawful(c) /\ Accountable(c)
  BY <1>3, <1>5 DEF Lawful, Accountable
<1>8. QED
  BY <1>5, <1>6, <1>7, OneCall DEF Points!Ask

LEMMA RoleChanges ==
  ASSUME CallsInv, NEW r \in {"off", "viewer", "operator"}, Points!ChangeRole(r)
  PROVE  CallsInv'
<1>1. \A t \in Task : call[t] \in PointCall /\ Lawful(call[t]) /\ Accountable(call[t])
  BY DEF CallsInv
<1>2. ASSUME NEW t \in Task
      PROVE  call'[t] \in PointCall /\ Lawful(call[t])' /\ Accountable(call[t])'
  <2>1. call'[t] = [call[t] EXCEPT !.granted = @ \/ r = "operator"]
    BY DEF Points!ChangeRole
  <2>2. PICK c : c = call[t]
    OBVIOUS
  <2>3. PICK g : g = (c.granted \/ r = "operator")
    OBVIOUS
  <2>4. call'[t] = [c EXCEPT !.granted = g] /\ g \in BOOLEAN
    BY <1>1, <2>1, <2>2, <2>3, CallFields
  <2>5. c \in PointCall /\ (c.granted => g) /\ (r = "operator" => g)
    BY <1>1, <2>2, <2>3
  <2>6. call'[t] \in PointCall
    BY <2>4, <2>5 DEF PointCall
  <2>7. /\ call'[t].granted = g /\ call'[t].at = c.at /\ call'[t].points = c.points
        /\ call'[t].op = c.op /\ call'[t].did = c.did /\ call'[t].result = c.result
        /\ call'[t].items = c.items
    BY <2>4, <2>5 DEF PointCall
  <2>8. UNCHANGED <<backend, secured>> /\ secured /\ role' = r
    BY DEF Points!ChangeRole
  <2>9. QED
    BY <1>1, <2>2, <2>5, <2>6, <2>7, <2>8 DEF Lawful, Accountable, Points!WriteOps
<1>3. call' \in [Task -> PointCall]
  <2>1. DOMAIN call' = Task /\ call' = [t \in Task |-> call'[t]]
    BY DEF Points!ChangeRole
  <2>2. QED
    BY <1>2, <2>1
<1>4. QED
  BY <1>2, <1>3 DEF CallsInv, Points!ChangeRole

\* A call that goes on without writing.
LEMMA CallGoes ==
  ASSUME CallsInv, NEW t \in Task,
         NEW at \in {"body", "run", "respond", "done"},
         NEW result \in {"none", "ok", "error", "415", "406"},
         call' = [call EXCEPT ![t] = [call[t] EXCEPT !.at = at, !.result = result]],
         UNCHANGED <<backend, secured, role>>,
         call[t].at # "idle",
         at \in {"body", "run"} /\ call[t].op \in Points!WriteOps => call[t].granted,
         call[t].did => /\ at \in {"respond", "done"} /\ result # "415"
                        /\ result = "error" => call[t].result = "error"
  PROVE  CallsInv'
<1>1. PICK o : o = call[t]
  OBVIOUS
<1>2. PICK c : c = [o EXCEPT !.at = at, !.result = result]
  OBVIOUS
<1>3. o \in PointCall /\ Lawful(o) /\ Accountable(o)
  BY <1>1 DEF CallsInv
<1>4. c \in PointCall /\ c.at = at /\ c.result = result /\ c.op = o.op /\ c.points = o.points
      /\ c.items = o.items /\ c.did = o.did /\ c.granted = o.granted
  BY <1>2, <1>3 DEF PointCall
<1>5. Lawful(c) /\ Accountable(c)
  BY <1>1, <1>3, <1>4 DEF Lawful, Accountable, Points!WriteOps
<1>6. call' = [call EXCEPT ![t] = c]
  BY <1>1, <1>2
<1>7. QED
  BY <1>4, <1>5, <1>6, OneCall

\* The check, the body, a method that only reads, and the answer.
LEMMA CallsGoOn ==
  ASSUME CallsInv, NEW t \in Task,
         \/ Points!Check(t) \/ \E body \in {"grid", "broken", "unknown"} : Points!Body(t, body)
         \/ Points!Read(t) \/ \E acceptable \in BOOLEAN : Points!Respond(t, acceptable)
  PROVE  CallsInv'
<1>1. call \in [Task -> PointCall] /\ call[t] \in PointCall /\ Lawful(call[t]) /\ Accountable(call[t])
  BY DEF CallsInv
<1>2. PICK o : o = call[t]
  OBVIOUS
<1>3. o \in PointCall
  BY <1>1, <1>2
<1> DEFINE Becomes(at, result) == call' = [call EXCEPT ![t] = [call[t] EXCEPT !.at = at, !.result = result]]
<1>4. ASSUME NEW at \in {"body", "run", "respond", "done"}, Points!Goes(t, at)
      PROVE  Becomes(at, o.result)
  <2>1. [o EXCEPT !.at = at] = [o EXCEPT !.at = at, !.result = o.result]
    BY <1>3 DEF PointCall
  <2>2. call' = [call EXCEPT ![t] = [o EXCEPT !.at = at]]
    BY <1>2, <1>4 DEF Points!Goes
  <2>3. QED
    BY <1>2, <2>1, <2>2
<1>5. Points!Fails(t) => Becomes("respond", "error")
  BY DEF Points!Fails
<1> HIDE DEF Becomes
<1>6. ASSUME NEW at \in {"body", "run", "respond", "done"},
             NEW result \in {"none", "ok", "error", "415", "406"}, Becomes(at, result),
             UNCHANGED <<backend, secured, role>>, o.at # "idle",
             at \in {"body", "run"} /\ o.op \in Points!WriteOps => o.granted,
             o.did => at \in {"respond", "done"} /\ result # "415"
                      /\ (result = "error" => o.result = "error")
      PROVE  CallsInv'
  BY <1>2, <1>6, CallGoes DEF Becomes
<1>7. o.result \in {"none", "ok", "error", "415", "406"} /\ o.granted \in BOOLEAN
  BY <1>3 DEF PointCall
<1>8. CASE Points!Check(t)
  <2>1. o.at = "check" /\ ~o.did /\ UNCHANGED <<backend, secured, role>>
    BY <1>1, <1>2, <1>8 DEF Points!Check, Accountable
  <2>2. CASE Points!May(o.op)
    <3>1. o.op \in Points!WriteOps => ~secured \/ role = "operator"
      BY <2>2 DEF Points!May, CallsInv
    <3>2. o.op \in Points!WriteOps => o.granted
      BY <1>1, <1>2, <2>1, <3>1 DEF Lawful
    <3>3. QED
      BY <1>2, <1>4, <1>6, <1>7, <1>8, <2>1, <2>2, <3>2 DEF Points!Check
  <2>3. CASE ~Points!May(o.op)
    BY <1>2, <1>5, <1>6, <1>8, <2>1, <2>3 DEF Points!Check
  <2>4. QED
    BY <2>2, <2>3
<1>9. ASSUME NEW body \in {"grid", "broken", "unknown"}, Points!Body(t, body) PROVE CallsInv'
  <2>1. o.at = "body" /\ ~o.did /\ UNCHANGED <<backend, secured, role>>
    BY <1>1, <1>2, <1>9 DEF Points!Body, Accountable
  <2>2. o.op \in Points!WriteOps => o.granted
    BY <1>1, <1>2, <2>1 DEF Lawful
  <2>3. CASE body = "grid"
    BY <1>4, <1>6, <1>7, <1>9, <2>1, <2>2, <2>3 DEF Points!Body
  <2>4. CASE body = "broken"
    BY <1>5, <1>6, <1>9, <2>1, <2>4 DEF Points!Body
  <2>5. CASE body = "unknown"
    <3>1. Becomes("done", "415")
      BY <1>9, <2>5 DEF Points!Body, Becomes
    <3>2. QED
      BY <1>6, <2>1, <3>1
  <2>6. QED
    BY <2>3, <2>4, <2>5
<1>10. CASE Points!Read(t)
  <2>1. o.at = "run" /\ ~o.did /\ UNCHANGED <<backend, secured, role>>
    BY <1>1, <1>2, <1>10 DEF Points!Read, Accountable
  <2>2. Becomes("respond", "ok")
    BY <1>10 DEF Points!Read, Becomes
  <2>3. QED
    BY <1>6, <2>1, <2>2
<1>11. ASSUME NEW acceptable \in BOOLEAN, Points!Respond(t, acceptable) PROVE CallsInv'
  <2>1. o.at = "respond" /\ UNCHANGED <<backend, secured, role>> /\ (o.did => o.result # "415")
    BY <1>1, <1>2, <1>11 DEF Points!Respond, Accountable
  <2>2. PICK result : result = IF acceptable THEN o.result ELSE "406"
    OBVIOUS
  <2>3. Becomes("done", result)
    BY <1>2, <1>11, <2>2 DEF Points!Respond, Becomes
  <2>4. /\ result \in {"none", "ok", "error", "415", "406"}
        /\ o.did => result # "415" /\ (result = "error" => o.result = "error")
    BY <1>7, <2>1, <2>2
  <2>5. QED
    BY <1>6, <2>1, <2>3, <2>4
<1>12. QED
  BY <1>8, <1>9, <1>10, <1>11

\* A method that has run: the call has its result, and may have changed the store.
LEMMA CallRuns ==
  ASSUME CallsInv, NEW t \in Task, NEW result \in {"ok", "error"}, NEW did \in BOOLEAN,
         call[t].at = "run", call[t].op \in WriteCalls,
         call' = [call EXCEPT ![t] = [call[t] EXCEPT !.at = "respond", !.result = result, !.did = did]],
         UNCHANGED <<backend, secured, role>>,
         did /\ result = "error" =>
           backend = "redis" /\ \E i \in DOMAIN call[t].items : call[t].items[i].ts < 0
  PROVE  CallsInv'
<1>1. PICK o : o = call[t]
  OBVIOUS
<1>2. PICK c : c = [o EXCEPT !.at = "respond", !.result = result, !.did = did]
  OBVIOUS
<1>3. o \in PointCall /\ Lawful(o) /\ o.granted
  BY <1>1 DEF CallsInv, Lawful, Points!WriteOps, WriteCalls
<1>4. c \in PointCall /\ c.at = "respond" /\ c.result = result /\ c.did = did /\ c.op = o.op
      /\ c.points = o.points /\ c.items = o.items /\ c.granted = o.granted
  BY <1>2, <1>3 DEF PointCall
<1>5. Lawful(c) /\ Accountable(c)
  BY <1>1, <1>3, <1>4 DEF Lawful, Accountable
<1>6. call' = [call EXCEPT ![t] = c]
  BY <1>1, <1>2
<1>7. QED
  BY <1>4, <1>5, <1>6, OneCall

\* What a store refuses and still changes was sent to Redis, with a time before 1970.
LEMMA RefusedWrite ==
  ASSUME backend \in {"memory", "redis", "timescale"}, NEW c \in PointCall,
         Points!Refuses(Points!Rows(c)), ~Points!WritesNothing(Points!Rows(c))
  PROVE  backend = "redis" /\ \E i \in DOMAIN c.items : c.items[i].ts < 0
<1>1. backend = "redis"
  BY DEF Points!Refuses, Points!WritesNothing
<1>2. PICK i \in DOMAIN Points!Rows(c) : Points!Millis(Points!Rows(c)[i].ts) < 0
  BY <1>1 DEF Points!Refuses
<1>3. /\ DOMAIN Points!Rows(c) = DOMAIN c.items /\ Points!Rows(c)[i].ts = c.items[i].ts
      /\ c.items[i].ts \in Int
  <2>1. c.items \in Seq(PointRow)
    BY CallFields
  <2>2. \A j \in DOMAIN c.items : c.items[j] \in PointRow
    BY <2>1
  <2>3. QED
    BY <1>2, <2>2 DEF Points!Rows, PointRow
<1>4. c.items[i].ts < 0
  BY <1>2, <1>3 DEF Points!Millis
<1>5. QED
  BY <1>1, <1>2, <1>3, <1>4

LEMMA CallsWrite ==
  ASSUME CallsInv, NEW t \in Task,
         Points!HisWrite(t) \/ \E null \in BOOLEAN : Points!PointWrite(t, null)
  PROVE  CallsInv'
<1>1. PICK c : c = call[t]
  OBVIOUS
<1>2. c \in PointCall /\ Accountable(c)
  BY <1>1 DEF CallsInv
<1>3. CASE Points!HisWrite(t)
  <2>1. PICK after : after = IF Points!WritesNothing(Points!Rows(c)) THEN history[c.points[1]]
                             ELSE Points!HistoryAfter(c.points[1], Points!Rows(c))
    OBVIOUS
  <2>2. PICK result : result = IF Points!Refuses(Points!Rows(c)) THEN "error" ELSE "ok"
    OBVIOUS
  <2>3. PICK did : did = (after # history[c.points[1]])
    OBVIOUS
  <2>4. /\ call' = [call EXCEPT ![t] = [c EXCEPT !.at = "respond", !.result = result, !.did = did]]
        /\ c.at = "run" /\ c.op \in WriteCalls /\ UNCHANGED <<backend, secured, role>>
    BY <1>1, <1>2, <1>3, <2>1, <2>2, <2>3 DEF Points!HisWrite, WriteCalls
  <2>5. did \in BOOLEAN /\ result \in {"ok", "error"}
    BY <2>2, <2>3
  <2>6. ASSUME did, result = "error"
        PROVE  backend = "redis" /\ \E i \in DOMAIN c.items : c.items[i].ts < 0
    <3>1. Points!Refuses(Points!Rows(c)) /\ ~Points!WritesNothing(Points!Rows(c))
      BY <2>1, <2>2, <2>3, <2>6
    <3>2. QED
      BY <1>2, <3>1, RefusedWrite DEF CallsInv
  <2>7. QED
    BY <1>1, <2>4, <2>5, <2>6, CallRuns
<1>4. ASSUME NEW null \in BOOLEAN, Points!PointWrite(t, null) PROVE CallsInv'
  <2>1. c.at = "run" /\ c.op = "pointWrite" /\ c.did = FALSE /\ UNCHANGED <<backend, secured, role>>
    BY <1>1, <1>2, <1>4, CallFields DEF Points!PointWrite, Accountable
  <2>2. CASE Points!IsLevel(c.level)
    <3>1. PICK after : after = IF null THEN priority[c.points[1]] \ {c.level}
                               ELSE priority[c.points[1]] \union {c.level}
      OBVIOUS
    <3>2. PICK did : did = (after # priority[c.points[1]])
      OBVIOUS
    <3>3. call' = [call EXCEPT ![t] = [c EXCEPT !.at = "respond", !.result = "ok", !.did = did]]
      BY <1>1, <1>4, <2>2, <3>1, <3>2 DEF Points!PointWrite
    <3>4. did \in BOOLEAN
      BY <3>2
    <3>5. QED
      BY <1>1, <2>1, <3>3, <3>4, CallRuns DEF WriteCalls
  <2>3. CASE ~Points!IsLevel(c.level)
    <3>1. [c EXCEPT !.at = "respond", !.result = "error"] =
          [c EXCEPT !.at = "respond", !.result = "error", !.did = FALSE]
      BY <1>2, <2>1 DEF PointCall
    <3>2. call' = [call EXCEPT ![t] = [c EXCEPT !.at = "respond", !.result = "error"]]
      BY <1>1, <1>4, <2>3 DEF Points!PointWrite, Points!Fails
    <3>3. QED
      BY <1>1, <2>1, <3>1, <3>2, CallRuns DEF WriteCalls
  <2>4. QED
    BY <2>2, <2>3
<1>5. QED
  BY <1>3, <1>4

LEMMA CallsNextInv ==
  ASSUME CallsInv, [Points!Next]_pointVars
  PROVE  CallsInv'
<1>1. ASSUME NEW p \in Point, NEW t \in Task, NEW items \in Samples,
             \/ Points!Ask(t, "hisWrite", <<p>>, items, 1)
             \/ \E q \in Point : Points!Ask(t, "hisWriteBatch", <<p, q>>, items, 1)
      PROVE  CallsInv'
  <2>1. items \in Seq(PointRow)
    BY StoresAssumption DEF Points!ServiceAssumption, PointRow
  <2>2. CASE Points!Ask(t, "hisWrite", <<p>>, items, 1)
    <3>1. "hisWrite" \in WriteCalls \union {"hisRead", "pointArray"}
      BY DEF WriteCalls
    <3>2. <<p>> \in Seq(Point) /\ <<p>> # <<>> /\ 1 \in Int
      OBVIOUS
    <3>3. QED
      BY <2>1, <2>2, <3>1, <3>2, CallAsks
  <2>3. ASSUME NEW q \in Point, Points!Ask(t, "hisWriteBatch", <<p, q>>, items, 1) PROVE CallsInv'
    <3>1. "hisWriteBatch" \in WriteCalls \union {"hisRead", "pointArray"}
      BY DEF WriteCalls
    <3>2. <<p, q>> \in Seq(Point) /\ <<p, q>> # <<>> /\ 1 \in Int
      OBVIOUS
    <3>3. QED
      BY <2>1, <2>3, <3>1, <3>2, CallAsks
  <2>4. QED
    BY <1>1, <2>2, <2>3
<1>2. ASSUME NEW p \in Point, NEW t \in Task, NEW op \in {"pointWrite", "hisRead", "pointArray"},
             NEW level \in {0, 1, 17, 18}, Points!Ask(t, op, <<p>>, <<>>, level)
      PROVE  CallsInv'
  <2>1. op \in WriteCalls \union {"hisRead", "pointArray"} /\ level \in Int
    BY DEF WriteCalls
  <2>2. <<>> \in Seq(PointRow) /\ <<p>> \in Seq(Point) /\ <<p>> # <<>>
    OBVIOUS
  <2>3. QED
    BY <1>2, <2>1, <2>2, CallAsks
<1>3. ASSUME NEW r \in {"off", "viewer", "operator"}, Points!ChangeRole(r) PROVE CallsInv'
  BY <1>3, RoleChanges
<1>4. ASSUME NEW t \in Task,
             \/ Points!Check(t) \/ Points!Read(t)
             \/ \E body \in {"grid", "broken", "unknown"} : Points!Body(t, body)
             \/ \E acceptable \in BOOLEAN : Points!Respond(t, acceptable)
      PROVE  CallsInv'
  BY <1>4, CallsGoOn
<1>5. ASSUME NEW t \in Task, Points!HisWrite(t) \/ \E null \in BOOLEAN : Points!PointWrite(t, null)
      PROVE  CallsInv'
  BY <1>5, CallsWrite
<1>6. CASE UNCHANGED pointVars
  BY <1>6 DEF pointVars, CallsInv, Lawful, Accountable, Points!WriteOps
<1>7. QED
  BY <1>1, <1>2, <1>3, <1>4, <1>5, <1>6 DEF Points!Next, Points!Role

LEMMA PointSteps == [StoresNext]_allVars => [Points!Next]_pointVars
BY DEF StoresNext, allVars

LEMMA CallsInvAlways == StoresSpec => []CallsInv
<1>1. StoresInit => CallsInv
  BY CallsInitInv DEF StoresInit
<1>2. CallsInv /\ [StoresNext]_allVars => CallsInv'
  BY CallsNextInv, PointSteps
<1>3. QED
  BY <1>1, <1>2, PTL DEF StoresSpec

\* Whoever interleaves: data changes only for a user who was allowed to while the
\* call was under way (_check_op_permission), and an error answer has changed
\* nothing but what Redis took of a write with a time before 1970 (his_write).
THEOREM EffectsCorrect == StoresSpec => []NoSilentEffect
<1>1. CallsInv => NoSilentEffect
  BY DEF CallsInv, Accountable, NoSilentEffect, Points!NoSilentEffect
<1>2. QED
  BY CallsInvAlways, <1>1, PTL

\* The samples of a history and those that were acknowledged, by the order they
\* came in.
SampleRow == [ts : Int, val : Int \union {Text, Absent}, at : Nat]
GivenRow == [ts : Int, val : Int \union {Text}, at : Nat, op : WriteCalls]
After(S, n) == {u \in S : u.at > n}

\* The memory store has all it acknowledged but what MaxHistory samples followed.
MemoryHolds(H, G) ==
  /\ \A r \in H : \E s \in G : s.at = r.at /\ s.ts = r.ts
  /\ \A r, o \in H : r.at = o.at => r = o
  /\ \A s \in G : \/ \E r \in H : r.at = s.at /\ r.ts = s.ts /\ (s.op = "hisWrite" => r.val = s.val)
                  \/ Cardinality(After(G, s.at)) >= MaxHistory

\* The others have one sample of a time, as late as any that was acknowledged.
StoreHolds(H, G) ==
  /\ \A r, o \in H : r.ts = o.ts => r = o
  /\ \A s \in G : s.op = "hisWrite" /\ s.val \in Int =>
       \E r \in H : r.ts = Points!Key(s.ts) /\ r.at >= s.at /\ (r.at = s.at => r.val = s.val)

HistoryInv ==
  /\ serial \in Nat
  /\ history \in [Point -> SUBSET SampleRow] /\ given \in [Point -> SUBSET GivenRow]
  /\ \A p \in Point :
       /\ IsFiniteSet(given[p])
       /\ \A r \in history[p] : r.at <= serial
       /\ \A s \in given[p] : s.at <= serial
       /\ IF backend = "memory" THEN MemoryHolds(history[p], given[p])
          ELSE StoreHolds(history[p], given[p])

LEMMA SameCardinality == \A S : Points!Cardinality(S) = Cardinality(S)
BY DEF Points!Cardinality, Cardinality

LEMMA RowFields ==
  /\ \A r \in SampleRow : r.ts \in Int /\ r.val \in Int \union {Text, Absent} /\ r.at \in Nat
  /\ \A s \in GivenRow : s.ts \in Int /\ s.val \in Int \union {Text} /\ s.at \in Nat /\ s.op \in WriteCalls
BY DEF SampleRow, GivenRow

LEMMA KeyType == \A ts \in Int : Points!Key(ts) \in Int /\ (backend # "redis" => Points!Key(ts) = ts)
<1> SUFFICES ASSUME NEW ts \in Int
             PROVE  Points!Key(ts) \in Int /\ (backend # "redis" => Points!Key(ts) = ts)
  OBVIOUS
<1>1. Points!Millis(ts) \in Int
  BY DEF Points!Millis
<1>2. QED
  BY <1>1 DEF Points!Key

\* A set of positions that is not empty has a last one: take one with a smallest
\* set of later ones.
LEMMA LastPosition ==
  ASSUME NEW n \in Nat, NEW S, S \subseteq 1 .. n, S # {}
  PROVE  \E m \in S : \A i \in S : i <= m
<1> DEFINE Later(i) == {j \in S : i < j}
           Family == {Later(i) : i \in S}
           Smaller == StrictSubsetOrdering(S)
<1>1. IsFiniteSet(S) /\ \A i \in S : i \in Nat
  <2>1. IsFiniteSet(1 .. n) /\ S \in SUBSET (1 .. n)
    BY FS_Interval
  <2>2. IsFiniteSet(S)
    BY ONLY <2>1, FS_Subset
  <2>3. QED
    BY <2>2
<1>2. Family \subseteq FiniteSubsetsOf(S) /\ Family # {}
  <2>1. \A i \in S : Later(i) \in SUBSET S
    OBVIOUS
  <2>2. \A i \in S : Later(i) \in FiniteSubsetsOf(S)
    BY <1>1, <2>1, FS_Subset DEF FiniteSubsetsOf
  <2> HIDE DEF Later
  <2>3. QED
    BY <2>2
<1>3. PICK U \in Family : \A V \in Family : <<V, U>> \notin Smaller
  <2> HIDE DEF Family, Smaller
  <2>1. IsWellFoundedOn(Smaller, FiniteSubsetsOf(S))
    BY FS_StrictSubsetOrderingWellFounded DEF Smaller
  <2>2. QED
    BY <1>2, <2>1, WFMin
<1>4. PICK m \in S : U = Later(m)
  OBVIOUS
<1>5. ASSUME NEW i \in S, m < i PROVE FALSE
  <2>1. i \in Nat /\ m \in Nat /\ i \in Later(m) /\ i \notin Later(i)
    BY <1>1, <1>5
  <2>2. ASSUME NEW j \in Later(i) PROVE j \in Later(m)
    BY <1>1, <1>5, <2>1
  <2>3. <<Later(i), Later(m)>> \in Smaller
    BY <2>1, <2>2 DEF StrictSubsetOrdering
  <2>4. QED
    BY <1>3, <1>4, <2>3
<1>6. \A i \in S : i <= m
  BY <1>1, <1>5
<1>7. QED
  BY <1>6

\* The later rows of a history, in which rows differ in their positions, are no
\* more than the later samples acknowledged, if each row was.
LEMMA NoMoreRows ==
  ASSUME NEW H \in SUBSET SampleRow, NEW G \in SUBSET GivenRow, IsFiniteSet(G), NEW n \in Nat,
         \A r \in H : \E s \in G : s.at = r.at,
         \A r, o \in H : r.at = o.at => r = o
  PROVE  /\ Cardinality(After(H, n)) \in Nat /\ Cardinality(After(G, n)) \in Nat
         /\ Cardinality(After(H, n)) <= Cardinality(After(G, n))
<1>1. IsFiniteSet(After(G, n)) /\ Cardinality(After(G, n)) \in Nat
  BY FS_Subset, FS_CardinalityType DEF After
<1>2. PICK f : f = [r \in After(H, n) |-> CHOOSE s \in G : s.at = r.at]
  OBVIOUS
<1>3. \A r \in After(H, n) : f[r] \in After(G, n) /\ f[r].at = r.at
  BY <1>2 DEF After
<1>4. f \in Injection(After(H, n), After(G, n))
  BY <1>2, <1>3 DEF Injection, IsInjective, After
<1>5. IsFiniteSet(After(H, n)) /\ Cardinality(After(H, n)) <= Cardinality(After(G, n))
  BY <1>1, <1>4, FS_Injection
<1>6. Cardinality(After(H, n)) \in Nat
  BY <1>5, FS_CardinalityType
<1>7. QED
  BY <1>1, <1>5, <1>6

\* The rows that a write brings to the store.
NewRows(batch) ==
  {[ts |-> Points!Key(batch[i].ts), val |-> Points!Stored(batch[i].val), at |-> serial + i] :
     i \in Points!Taken(batch)}

LEMMA BatchFields ==
  ASSUME NEW c \in PointCall
  PROVE  /\ Len(c.items) \in Nat /\ DOMAIN c.items = 1 .. Len(c.items)
         /\ DOMAIN Points!Rows(c) = 1 .. Len(c.items)
         /\ \A i \in 1 .. Len(c.items) :
              /\ c.items[i].ts \in Int /\ c.items[i].val \in Int \union {Text}
              /\ Points!Rows(c)[i].ts = c.items[i].ts
              /\ Points!Rows(c)[i].val \in Int \union {Text, Absent}
              /\ c.op = "hisWrite" => Points!Rows(c)[i].val = c.items[i].val
<1>1. c.items \in Seq(PointRow)
  BY CallFields
<1>2. \A i \in 1 .. Len(c.items) : c.items[i] \in PointRow
  BY <1>1
<1>3. \A i \in 1 .. Len(c.items) : c.items[i].ts \in Int /\ c.items[i].val \in Int \union {Text}
  BY <1>2 DEF PointRow
<1>4. ASSUME NEW i \in 1 .. Len(c.items)
      PROVE  /\ [c.items[i] EXCEPT !.val = Absent].ts = c.items[i].ts
             /\ [c.items[i] EXCEPT !.val = Absent].val = Absent
  BY <1>2 DEF PointRow
<1>5. QED
  BY <1>1, <1>3, <1>4 DEF Points!Rows

LEMMA NewRowsArrive ==
  ASSUME NEW c \in PointCall, serial \in Nat, backend \in {"memory", "redis", "timescale"}
  PROVE  LET N == NewRows(Points!Rows(c)) IN
         /\ N \in SUBSET SampleRow
         /\ \A r \in N : r.at > serial /\ r.at <= serial + Len(c.items)
         /\ \A r, o \in N : r.at = o.at => r = o
         /\ \A r \in N : \E m \in N : m.ts = r.ts /\ \A o \in N : o.ts = r.ts => o.at <= m.at
<1> DEFINE R == Points!Rows(c)
           new(i) == [ts |-> Points!Key(R[i].ts), val |-> Points!Stored(R[i].val), at |-> serial + i]
           N == NewRows(R)
<1>1. Len(c.items) \in Nat /\ Points!Taken(R) \subseteq 1 .. Len(c.items)
  BY BatchFields DEF Points!Taken
<1>2. ASSUME NEW i \in Points!Taken(R)
      PROVE  /\ new(i) \in SampleRow /\ new(i).at = serial + i
             /\ serial + i > serial /\ serial + i <= serial + Len(c.items) /\ i \in Nat
  <2>1. i \in 1 .. Len(c.items) /\ R[i].ts \in Int /\ R[i].val \in Int \union {Text, Absent}
    BY <1>1, BatchFields
  <2>2. Points!Key(R[i].ts) \in Int /\ Points!Stored(R[i].val) \in Int \union {Text, Absent}
    BY <2>1, KeyType DEF Points!Stored
  <2>3. QED
    BY <1>1, <2>1, <2>2 DEF SampleRow
<1>3. N = {new(i) : i \in Points!Taken(R)}
  BY DEF NewRows
<1> HIDE DEF N, new
<1>4. \A r \in N : \E i \in Points!Taken(R) : r = new(i)
  BY <1>3
<1>5. \A r, o \in N : r.at = o.at => r = o
  <2> SUFFICES ASSUME NEW r \in N, NEW o \in N, r.at = o.at PROVE r = o
    OBVIOUS
  <2>1. PICK i \in Points!Taken(R) : r = new(i)
    BY <1>4
  <2>2. PICK j \in Points!Taken(R) : o = new(j)
    BY <1>4
  <2>3. i = j
    BY <1>2, <2>1, <2>2
  <2>4. QED
    BY <2>1, <2>2, <2>3
<1>6. ASSUME NEW r \in N
      PROVE  \E m \in N : m.ts = r.ts /\ \A o \in N : o.ts = r.ts => o.at <= m.at
  <2> DEFINE S == {i \in Points!Taken(R) : new(i).ts = r.ts}
  <2>1. S \subseteq 1 .. Len(c.items) /\ S # {}
    BY <1>1, <1>4
  <2>2. PICK m \in S : \A i \in S : i <= m
    BY <1>1, <2>1, LastPosition
  <2>3. new(m) \in N /\ new(m).ts = r.ts /\ new(m).at = serial + m
    BY <1>2, <1>3
  <2>4. ASSUME NEW o \in N, o.ts = r.ts PROVE o.at <= new(m).at
    <3>1. PICK i \in Points!Taken(R) : o = new(i)
      BY <1>4
    <3>2. i <= m /\ o.at = serial + i /\ i \in Nat /\ m \in Nat
      BY <1>2, <2>2, <2>4, <3>1
    <3>3. QED
      BY <2>3, <3>2
  <2>5. QED
    BY <2>3, <2>4
<1>7. QED
  BY <1>2, <1>4, <1>5, <1>6 DEF N

LEMMA OfferedArrive ==
  ASSUME NEW c \in PointCall, serial \in Nat, c.op \in WriteCalls
  PROVE  LET O == Points!Offered(c) IN
         /\ O \in SUBSET GivenRow /\ IsFiniteSet(O)
         /\ \A s \in O : s.at > serial /\ s.at <= serial + Len(c.items)
<1> DEFINE O == Points!Offered(c)
           off(i) == [ts |-> c.items[i].ts, val |-> c.items[i].val, at |-> serial + i, op |-> c.op]
           I == serial + 1 .. serial + Len(c.items)
<1>1. Len(c.items) \in Nat /\ DOMAIN c.items = 1 .. Len(c.items)
  BY BatchFields
<1>2. ASSUME NEW i \in 1 .. Len(c.items)
      PROVE  off(i) \in GivenRow /\ off(i).at = serial + i /\ i \in Nat
             /\ serial + i > serial /\ serial + i <= serial + Len(c.items)
  BY <1>1, BatchFields DEF GivenRow
<1>3. O = {off(i) : i \in 1 .. Len(c.items)}
  BY <1>1 DEF Points!Offered
<1> HIDE DEF O, off
<1>4. PICK f : f = [s \in O |-> s.at]
  OBVIOUS
<1>5. f \in Injection(O, I)
  <2>1. f \in [O -> I]
    BY <1>1, <1>2, <1>3, <1>4
  <2>2. ASSUME NEW s \in O, NEW u \in O, f[s] = f[u] PROVE s = u
    <3>1. PICK i \in 1 .. Len(c.items) : s = off(i)
      BY <1>3
    <3>2. PICK j \in 1 .. Len(c.items) : u = off(j)
      BY <1>3
    <3>3. i = j
      BY <1>2, <1>4, <2>2, <3>1, <3>2
    <3>4. QED
      BY <3>1, <3>2, <3>3
  <2>3. QED
    BY <2>1, <2>2, <1>4 DEF Injection, IsInjective
<1>6. IsFiniteSet(I)
  BY <1>1, FS_Interval
<1>7. IsFiniteSet(O)
  BY <1>5, <1>6, FS_Injection
<1>8. QED
  BY <1>2, <1>3, <1>7 DEF O

\* A write of the memory store keeps the samples that MaxHistory others have not
\* followed yet.
LEMMA MemoryWrites ==
  ASSUME NEW p \in Point, HistoryInv, backend = "memory", NEW c \in PointCall,
         c.op \in {"hisWrite", "hisWriteBatch"}
  PROVE  MemoryHolds(Points!HistoryAfter(p, Points!Rows(c)), given[p] \union Points!Offered(c))
<1> DEFINE R == Points!Rows(c)
           N == NewRows(R)
           O == Points!Offered(c)
           H == history[p] \union N
           G == given[p] \union O
<1>1. /\ N \in SUBSET SampleRow /\ \A r \in N : r.at > serial
      /\ \A r, o \in N : r.at = o.at => r = o
  BY NewRowsArrive DEF HistoryInv
<1>2. O \in SUBSET GivenRow /\ IsFiniteSet(O) /\ \A s \in O : s.at > serial
  BY OfferedArrive DEF HistoryInv, WriteCalls
<1>3. /\ serial \in Nat /\ history[p] \in SUBSET SampleRow /\ given[p] \in SUBSET GivenRow
      /\ IsFiniteSet(given[p]) /\ MemoryHolds(history[p], given[p])
      /\ \A r \in history[p] : r.at <= serial
      /\ \A s \in given[p] : s.at <= serial
  BY DEF HistoryInv
<1>4. Points!HistoryAfter(p, R) = {r \in H : Cardinality(After(H, r.at)) < MaxHistory}
  BY SameCardinality DEF Points!HistoryAfter, Points!Capped, NewRows, After
\* The new rows are the samples offered.
<1>5. /\ \A r \in N : \E s \in O : s.at = r.at /\ s.ts = r.ts
      /\ \A s \in O : \E r \in N : r.at = s.at /\ r.ts = s.ts /\ (s.op = "hisWrite" => r.val = s.val)
  <2> DEFINE new(i) == [ts |-> Points!Key(R[i].ts), val |-> Points!Stored(R[i].val), at |-> serial + i]
             off(i) == [ts |-> c.items[i].ts, val |-> c.items[i].val, at |-> serial + i, op |-> c.op]
  <2>1. Points!Taken(R) = 1 .. Len(c.items)
    BY BatchFields DEF Points!Taken
  <2>2. N = {new(i) : i \in 1 .. Len(c.items)} /\ O = {off(i) : i \in 1 .. Len(c.items)}
    BY <2>1, BatchFields DEF NewRows, Points!Offered
  <2>3. ASSUME NEW i \in 1 .. Len(c.items)
        PROVE  /\ new(i).at = off(i).at /\ new(i).ts = off(i).ts
               /\ off(i).op = "hisWrite" => new(i).val = off(i).val
    <3>1. /\ R[i].ts = c.items[i].ts /\ c.items[i].ts \in Int
          /\ c.op = "hisWrite" => R[i].val = c.items[i].val
      BY BatchFields
    <3>2. Points!Key(R[i].ts) = c.items[i].ts /\ Points!Stored(R[i].val) = R[i].val
      BY <3>1, KeyType DEF Points!Stored
    <3>3. QED
      BY <3>1, <3>2
  <2> HIDE DEF N, O, R, new, off
  <2>4. QED
    BY <2>2, <2>3
<1> HIDE DEF N, O, R
<1>6. /\ H \in SUBSET SampleRow /\ G \in SUBSET GivenRow /\ IsFiniteSet(G)
      /\ \A r \in H : \E s \in G : s.at = r.at /\ s.ts = r.ts
      /\ \A r, o \in H : r.at = o.at => r = o
  <2>1. IsFiniteSet(G)
    BY <1>2, <1>3, FS_Union
  <2>2. \A r \in H : \E s \in G : s.at = r.at /\ s.ts = r.ts
    BY <1>3, <1>5 DEF MemoryHolds
  <2>3. ASSUME NEW r \in H, NEW o \in H, r.at = o.at PROVE r = o
    <3>1. r \in SampleRow /\ o \in SampleRow /\ r.at \in Nat /\ o.at \in Nat
      BY <1>1, <1>3, RowFields
    <3>2. (r \in N) <=> (o \in N)
      BY <1>1, <1>3, <2>3, <3>1
    <3>3. QED
      BY <1>1, <1>3, <2>3, <3>2 DEF MemoryHolds
  <2>4. QED
    BY <1>1, <1>2, <1>3, <2>1, <2>2, <2>3
\* What a sample had after it stays there.
<1>7. ASSUME NEW n \in Nat
      PROVE  /\ Cardinality(After(G, n)) \in Nat
             /\ Cardinality(After(given[p], n)) <= Cardinality(After(G, n))
             /\ Cardinality(After(H, n)) \in Nat
             /\ Cardinality(After(H, n)) <= Cardinality(After(G, n))
  <2>1. IsFiniteSet(After(G, n)) /\ After(given[p], n) \in SUBSET After(G, n)
    BY <1>6, FS_Subset DEF After
  <2>2. Cardinality(After(given[p], n)) <= Cardinality(After(G, n))
    BY <2>1, FS_Subset
  <2>3. QED
    BY <1>6, <2>2, NoMoreRows
<1> DEFINE K == {r \in H : Cardinality(After(H, r.at)) < MaxHistory}
<1>8. ASSUME NEW s \in G
      PROVE  \/ \E r \in K : r.at = s.at /\ r.ts = s.ts /\ (s.op = "hisWrite" => r.val = s.val)
             \/ Cardinality(After(G, s.at)) >= MaxHistory
  <2>1. s.at \in Nat /\ MaxHistory \in Nat
    BY <1>6, RowFields, StoresAssumption DEF Points!ServiceAssumption
  <2>2. CASE \E r \in H : r.at = s.at /\ r.ts = s.ts /\ (s.op = "hisWrite" => r.val = s.val)
    <3>1. PICK r \in H : r.at = s.at /\ r.ts = s.ts /\ (s.op = "hisWrite" => r.val = s.val)
      BY <2>2
    <3>2. CASE Cardinality(After(H, s.at)) < MaxHistory
      BY <3>1, <3>2
    <3>3. CASE ~(Cardinality(After(H, s.at)) < MaxHistory)
      <4>1. /\ Cardinality(After(G, s.at)) \in Nat /\ Cardinality(After(H, s.at)) \in Nat
            /\ Cardinality(After(H, s.at)) <= Cardinality(After(G, s.at))
        BY <1>7, <2>1
      <4> HIDE DEF G, H
      <4>2. QED
        BY <2>1, <3>3, <4>1
    <3>4. QED
      BY <3>2, <3>3
  <2>3. CASE s \in given[p] /\ Cardinality(After(given[p], s.at)) >= MaxHistory
    <3>1. After(given[p], s.at) \in SUBSET given[p]
      BY DEF After
    <3>2. Cardinality(After(given[p], s.at)) \in Nat
      BY <1>3, <3>1, FS_Subset, FS_CardinalityType
    <3>3. /\ Cardinality(After(G, s.at)) \in Nat
          /\ Cardinality(After(given[p], s.at)) <= Cardinality(After(G, s.at))
      BY <1>7, <2>1
    <3> HIDE DEF G, H
    <3>4. QED
      BY <2>1, <2>3, <3>2, <3>3
  <2>4. QED
    BY <1>3, <1>5, <2>2, <2>3 DEF MemoryHolds
<1>9. MemoryHolds(K, G)
  BY <1>6, <1>8 DEF MemoryHolds
<1>10. QED
  BY <1>4, <1>9 DEF O, R

\* A write of another store replaces the sample of a time only by a later one, and
\* one that is acknowledged has taken its numbers.
LEMMA StoreWrites ==
  ASSUME NEW p \in Point, HistoryInv, backend \in {"redis", "timescale"}, NEW c \in PointCall,
         c.op \in {"hisWrite", "hisWriteBatch"}, NEW O,
         O = {} \/ (O = Points!Offered(c) /\ ~Points!Refuses(Points!Rows(c)))
  PROVE  StoreHolds(Points!HistoryAfter(p, Points!Rows(c)), given[p] \union O)
<1> DEFINE R == Points!Rows(c)
           N == NewRows(R)
           H == history[p]
           K == {r \in H \union N : \A u \in N : u.ts = r.ts => u.at <= r.at}
<1>1. /\ N \in SUBSET SampleRow /\ \A r \in N : r.at > serial
      /\ \A r, o \in N : r.at = o.at => r = o
      /\ \A r \in N : \E m \in N : m.ts = r.ts /\ \A o \in N : o.ts = r.ts => o.at <= m.at
  BY NewRowsArrive DEF HistoryInv
<1>2. /\ serial \in Nat /\ H \in SUBSET SampleRow /\ given[p] \in SUBSET GivenRow
      /\ StoreHolds(H, given[p])
      /\ \A r \in H : r.at <= serial
      /\ \A s \in given[p] : s.at <= serial
  BY DEF HistoryInv
<1>3. Points!HistoryAfter(p, R) = K
  BY DEF Points!HistoryAfter, NewRows
\* A sample offered and not refused is among the new rows.
<1>4. ASSUME NEW s \in O, s.op = "hisWrite", s.val \in Int
      PROVE  \E r \in N : r.ts = Points!Key(s.ts) /\ r.at = s.at /\ r.val = s.val
  <2>1. O = Points!Offered(c) /\ ~Points!Refuses(R)
    OBVIOUS
  <2>2. PICK i \in 1 .. Len(c.items) :
          s = [ts |-> c.items[i].ts, val |-> c.items[i].val, at |-> serial + i, op |-> c.op]
    BY <2>1, BatchFields DEF Points!Offered
  <2>3. R[i].ts = s.ts /\ R[i].val = s.val /\ s.at = serial + i
    BY <1>4, <2>2, BatchFields
  <2>4. i \in Points!Taken(R)
    <3>1. i \in DOMAIN R /\ Points!Numeric(R[i])
      BY <1>4, <2>3, BatchFields DEF Points!Numeric
    <3>2. s.ts \in Int
      BY <2>2, BatchFields
    <3>3. backend = "redis" => Points!Millis(R[i].ts) >= 0
      <4>1. Points!Millis(R[i].ts) \in Int
        BY <2>3, <3>2 DEF Points!Millis
      <4>2. backend = "redis" => ~(Points!Millis(R[i].ts) < 0)
        BY <2>1, <3>1 DEF Points!Refuses
      <4>3. QED
        BY <4>1, <4>2
    <3>4. QED
      BY <3>1, <3>3 DEF Points!Taken
  <2>5. Points!Stored(R[i].val) = s.val
    BY <1>4, <2>3, StoresAssumption DEF Points!Stored, Points!ServiceAssumption
  <2>6. [ts |-> Points!Key(R[i].ts), val |-> Points!Stored(R[i].val), at |-> serial + i] \in N
    BY <2>4 DEF NewRows
  <2>7. QED
    BY <2>3, <2>5, <2>6
<1> HIDE DEF N, R
<1>5. ASSUME NEW r \in K, NEW o \in K, r.ts = o.ts PROVE r = o
  <2>1. r \in SampleRow /\ o \in SampleRow /\ r.at \in Nat /\ o.at \in Nat
    BY <1>1, <1>2, RowFields
  <2>2. CASE r \in N /\ o \in N
    BY <1>1, <1>5, <2>1, <2>2
  <2>3. CASE r \in H /\ o \in H
    BY <1>2, <1>5, <2>3 DEF StoreHolds
  <2>4. CASE (r \in N /\ o \in H) \/ (r \in H /\ o \in N)
    BY <1>1, <1>2, <1>5, <2>1, <2>4
  <2>5. QED
    BY <2>2, <2>3, <2>4
\* A row of a time is followed by the last new row of this time.
<1>6. ASSUME NEW r \in H \union N
      PROVE  \E m \in K : m.ts = r.ts /\ (m = r \/ m.at > r.at)
  <2>1. CASE r \in K
    BY <2>1
  <2>2. CASE r \notin K
    <3>1. PICK u \in N : u.ts = r.ts /\ ~(u.at <= r.at)
      BY <2>2
    <3>2. PICK m \in N : m.ts = u.ts /\ \A o \in N : o.ts = u.ts => o.at <= m.at
      BY <1>1
    <3>3. r.at \in Nat /\ u.at \in Nat /\ m.at \in Nat
      BY <1>1, <1>2, RowFields
    <3>4. m \in K /\ m.ts = r.ts /\ m.at > r.at
      BY <3>1, <3>2, <3>3
    <3>5. QED
      BY <3>4
  <2>3. QED
    BY <2>1, <2>2
<1>7. ASSUME NEW s \in given[p] \union O, s.op = "hisWrite", s.val \in Int
      PROVE  \E m \in K : m.ts = Points!Key(s.ts) /\ m.at >= s.at /\ (m.at = s.at => m.val = s.val)
  <2>1. PICK r \in H \union N :
          r.ts = Points!Key(s.ts) /\ r.at >= s.at /\ (r.at = s.at => r.val = s.val) /\ s.at \in Nat
    <3>1. CASE s \in given[p]
      <4>1. s.at \in Nat
        BY <1>2, <3>1, RowFields
      <4>2. QED
        BY <1>2, <1>7, <3>1, <4>1 DEF StoreHolds
    <3>2. CASE s \in O
      <4>1. PICK r \in N : r.ts = Points!Key(s.ts) /\ r.at = s.at /\ r.val = s.val
        BY <1>4, <1>7, <3>2
      <4>2. r.at \in Nat
        BY <1>1, RowFields
      <4>3. QED
        BY <4>1, <4>2
    <3>3. QED
      BY <3>1, <3>2
  <2>2. PICK m \in K : m.ts = r.ts /\ (m = r \/ m.at > r.at)
    BY <1>6
  <2>3. r.at \in Nat /\ m.at \in Nat
    BY <1>1, <1>2, RowFields
  <2>4. QED
    BY <2>1, <2>2, <2>3
<1>8. StoreHolds(K, given[p] \union O)
  BY <1>5, <1>7 DEF StoreHolds
<1>9. QED
  BY <1>3, <1>8 DEF R

LEMMA HistoryInitInv == Points!Init => HistoryInv
<1> SUFFICES ASSUME Points!Init PROVE HistoryInv
  OBVIOUS
<1>1. \A p \in Point : history[p] = {} /\ given[p] = {}
  BY DEF Points!Init
<1>2. IsFiniteSet({})
  BY FS_EmptySet
<1>3. MemoryHolds({}, {}) /\ StoreHolds({}, {})
  BY DEF MemoryHolds, StoreHolds
<1>4. serial = 0 /\ history \in [Point -> SUBSET SampleRow] /\ given \in [Point -> SUBSET GivenRow]
  BY DEF Points!Init
<1>5. QED
  BY <1>1, <1>2, <1>3, <1>4 DEF HistoryInv

\* What a write leaves of the rows are old or new ones.
LEMMA HistoryWritten ==
  ASSUME NEW p \in Point, HistoryInv, backend \in {"memory", "redis", "timescale"},
         NEW c \in PointCall
  PROVE  /\ Points!HistoryAfter(p, Points!Rows(c)) \in SUBSET SampleRow
         /\ \A r \in Points!HistoryAfter(p, Points!Rows(c)) : r.at <= serial + Len(c.items)
<1> DEFINE N == NewRows(Points!Rows(c))
<1>1. N \in SUBSET SampleRow /\ \A r \in N : r.at <= serial + Len(c.items)
  BY NewRowsArrive DEF HistoryInv
<1>2. /\ serial \in Nat /\ history[p] \in SUBSET SampleRow
      /\ \A r \in history[p] : r.at <= serial
  BY DEF HistoryInv
<1>3. \A r \in history[p] : r.at <= serial + Len(c.items)
  BY <1>2, RowFields, BatchFields
<1>4. Points!HistoryAfter(p, Points!Rows(c)) \subseteq history[p] \union N
  BY DEF Points!HistoryAfter, Points!Capped, NewRows
<1> HIDE DEF N
<1>5. QED
  BY <1>1, <1>2, <1>3, <1>4

LEMMA HistoryIsWritten ==
  ASSUME CallsInv, HistoryInv, NEW t \in Task, Points!HisWrite(t)
  PROVE  HistoryInv'
<1>1. PICK c : c = call[t]
  OBVIOUS
<1>2. PICK p : p = c.points[1]
  OBVIOUS
<1>3. /\ c \in PointCall /\ c.op \in {"hisWrite", "hisWriteBatch"} /\ p \in Point
      /\ backend \in {"memory", "redis", "timescale"} /\ UNCHANGED backend
  <2>1. c \in PointCall /\ c.at = "run" /\ c.points # <<>>
    BY <1>1 DEF Points!HisWrite, CallsInv, Lawful
  <2>2. c.points \in Seq(Point)
    BY <2>1, CallFields
  <2>3. QED
    BY <1>1, <1>2, <2>1, <2>2 DEF Points!HisWrite, CallsInv
<1>4. PICK after : after = IF Points!WritesNothing(Points!Rows(c)) THEN history[p]
                           ELSE Points!HistoryAfter(p, Points!Rows(c))
  OBVIOUS
<1>5. PICK O : O = IF Points!Refuses(Points!Rows(c)) THEN {} ELSE Points!Offered(c)
  OBVIOUS
<1>6. /\ history' = [history EXCEPT ![p] = after] /\ serial' = serial + Len(c.items)
      /\ given' = [given EXCEPT ![p] = given[p] \union O]
  <2>1. given = [given EXCEPT ![p] = given[p] \union {}]
    BY DEF HistoryInv
  <2>2. given' = IF Points!Refuses(Points!Rows(c)) THEN given
                 ELSE [given EXCEPT ![p] = given[p] \union Points!Offered(c)]
    BY <1>1, <1>2 DEF Points!HisWrite
  <2>3. given' = [given EXCEPT ![p] = given[p] \union O]
    BY <1>5, <2>1, <2>2
  <2>4. QED
    BY <1>1, <1>2, <1>4, <2>3 DEF Points!HisWrite
<1>7. /\ serial \in Nat /\ Len(c.items) \in Nat
      /\ history \in [Point -> SUBSET SampleRow] /\ given \in [Point -> SUBSET GivenRow]
      /\ \A q \in Point : /\ IsFiniteSet(given[q])
                          /\ \A r \in history[q] : r.at <= serial /\ r.at \in Nat
                          /\ \A s \in given[q] : s.at <= serial /\ s.at \in Nat
  BY <1>3, BatchFields, RowFields DEF HistoryInv
<1>8. after \in SUBSET SampleRow /\ \A r \in after : r.at <= serial + Len(c.items)
  <2>1. \A r \in history[p] : r.at <= serial + Len(c.items)
    BY <1>3, <1>7
  <2>2. QED
    BY <1>3, <1>4, <1>7, <2>1, HistoryWritten
<1>9. O \in SUBSET GivenRow /\ IsFiniteSet(O) /\ \A s \in O : s.at <= serial + Len(c.items)
  <2>1. IsFiniteSet({})
    BY FS_EmptySet
  <2>2. c.op \in WriteCalls
    BY <1>3 DEF WriteCalls
  <2>3. QED
    BY <1>3, <1>5, <1>7, <2>1, <2>2, OfferedArrive
<1>10. IF backend = "memory" THEN MemoryHolds(after, given[p] \union O)
       ELSE StoreHolds(after, given[p] \union O)
  <2>1. CASE backend = "memory"
    <3>1. ~Points!Refuses(Points!Rows(c)) /\ ~Points!WritesNothing(Points!Rows(c))
      BY <2>1 DEF Points!Refuses, Points!WritesNothing
    <3>2. QED
      BY <1>3, <1>4, <1>5, <2>1, <3>1, MemoryWrites
  <2>2. CASE backend # "memory"
    <3>1. CASE Points!WritesNothing(Points!Rows(c))
      <4>1. O = {} /\ after = history[p]
        BY <1>4, <1>5, <3>1 DEF Points!WritesNothing
      <4>2. QED
        BY <1>3, <2>2, <4>1 DEF HistoryInv
    <3>2. CASE ~Points!WritesNothing(Points!Rows(c))
      <4>1. O = {} \/ (O = Points!Offered(c) /\ ~Points!Refuses(Points!Rows(c)))
        BY <1>5
      <4>2. QED
        BY <1>3, <1>4, <2>2, <3>2, <4>1, StoreWrites
    <3>3. QED
      BY <3>1, <3>2
  <2>3. QED
    BY <2>1, <2>2
<1>11. ASSUME NEW q \in Point
       PROVE  /\ IsFiniteSet(given'[q])
              /\ \A r \in history'[q] : r.at <= serial'
              /\ \A s \in given'[q] : s.at <= serial'
              /\ IF backend = "memory" THEN MemoryHolds(history'[q], given'[q])
                 ELSE StoreHolds(history'[q], given'[q])
  <2>1. CASE q = p
    <3>1. history'[q] = after /\ given'[q] = given[p] \union O
      BY <1>3, <1>6, <1>7, <2>1
    <3>2. IsFiniteSet(given[p] \union O)
      BY <1>3, <1>7, <1>9, FS_Union
    <3>3. \A s \in given[p] : s.at <= serial + Len(c.items)
      BY <1>3, <1>7
    <3>4. QED
      BY <1>6, <1>8, <1>9, <1>10, <3>1, <3>2, <3>3
  <2>2. CASE q # p
    <3>1. history'[q] = history[q] /\ given'[q] = given[q]
      BY <1>6, <1>7, <2>2
    <3>2. \A n \in Nat : n <= serial => n <= serial'
      BY <1>6, <1>7
    <3>3. IF backend = "memory" THEN MemoryHolds(history[q], given[q])
          ELSE StoreHolds(history[q], given[q])
      BY DEF HistoryInv
    <3>4. QED
      BY <1>7, <3>1, <3>2, <3>3
  <2>3. QED
    BY <2>1, <2>2
<1>12. /\ serial' \in Nat /\ history' \in [Point -> SUBSET SampleRow]
       /\ given' \in [Point -> SUBSET GivenRow]
  BY <1>3, <1>6, <1>7, <1>8, <1>9
<1>13. QED
  BY <1>3, <1>11, <1>12 DEF HistoryInv, StoreHolds, MemoryHolds, Points!Key

LEMMA HistoryNextInv ==
  ASSUME CallsInv, HistoryInv, [Points!Next]_pointVars
  PROVE  HistoryInv'
<1>1. ASSUME UNCHANGED <<backend, history, serial, given>> PROVE HistoryInv'
  BY <1>1 DEF HistoryInv, StoreHolds, MemoryHolds, Points!Key
<1>2. ASSUME NEW t \in Task, Points!HisWrite(t) PROVE HistoryInv'
  BY <1>2, HistoryIsWritten
<1>3. CASE UNCHANGED pointVars
  BY <1>1, <1>3 DEF pointVars
<1>4. ASSUME NEW p \in Point, NEW t \in Task, NEW op, NEW points, NEW items, NEW level,
             Points!Ask(t, op, points, items, level)
      PROVE  HistoryInv'
  BY <1>1, <1>4 DEF Points!Ask
<1>5. ASSUME NEW t \in Task, NEW r, NEW b,
             \/ Points!Check(t) \/ Points!Body(t, b) \/ Points!Read(t)
             \/ Points!PointWrite(t, b) \/ Points!Respond(t, b) \/ Points!ChangeRole(r)
      PROVE  HistoryInv'
  BY <1>1, <1>5 DEF Points!Check, Points!Body, Points!Read, Points!PointWrite, Points!Respond,
                    Points!ChangeRole
<1>6. ASSUME NEW r, Points!ChangeRole(r) PROVE HistoryInv'
  BY <1>1, <1>6 DEF Points!ChangeRole
<1>7. QED
  BY <1>2, <1>3, <1>4, <1>5, <1>6 DEF Points!Next

LEMMA HistoryInvAlways == StoresSpec => []HistoryInv
<1>1. StoresInit => HistoryInv
  BY HistoryInitInv DEF StoresInit
<1>2. CallsInv /\ HistoryInv /\ [StoresNext]_allVars
        => HistoryInv'
  BY HistoryNextInv, PointSteps
<1>3. QED
  BY <1>1, <1>2, CallsInvAlways, PTL DEF StoresSpec

\* The number written last for a time is what his_read answers last for it; the
\* memory store forgets it only for _MAX_HISTORY_PER_POINT samples written after it.
THEOREM LastSampleCorrect == StoresSpec => []LastSampleIsRead
<1>1. CallsInv /\ HistoryInv => LastSampleIsRead
  <2> SUFFICES ASSUME CallsInv, HistoryInv, NEW p \in Point, NEW s \in given[p],
                      s.op = "hisWrite", s.val \in Int,
                      \A u \in given[p] : Points!Key(u.ts) = Points!Key(s.ts) => u.at <= s.at
               PROVE  \/ \E row \in history[p] :
                            /\ row.ts = Points!Key(s.ts) /\ row.at >= s.at
                            /\ row.at = s.at => row.val = s.val
                            /\ \A other \in history[p] \ {row} :
                                 other.ts = row.ts => Points!Earlier(other, row)
                      \/ /\ backend = "memory"
                         /\ Points!Cardinality({u \in given[p] : u.at > s.at}) >= MaxHistory
    BY DEF LastSampleIsRead, Points!LastSampleIsRead
  <2>1. history[p] \in SUBSET SampleRow /\ given[p] \in SUBSET GivenRow
    BY DEF HistoryInv
  <2>2. s.at \in Nat /\ s.ts \in Int
    BY <2>1, RowFields
  <2>3. CASE backend = "memory"
    <3>1. MemoryHolds(history[p], given[p]) /\ Points!Key(s.ts) = s.ts
      BY <2>2, <2>3, KeyType DEF HistoryInv
    <3>2. CASE Cardinality(After(given[p], s.at)) >= MaxHistory
      BY <2>3, <3>2, SameCardinality DEF After
    <3>3. ASSUME NEW row \in history[p], row.at = s.at, row.ts = s.ts, row.val = s.val
          PROVE  \A other \in history[p] \ {row} : other.ts = row.ts => Points!Earlier(other, row)
      <4> SUFFICES ASSUME NEW other \in history[p], other # row, other.ts = row.ts
                   PROVE  Points!Earlier(other, row)
        OBVIOUS
      <4>1. PICK u \in given[p] : u.at = other.at /\ u.ts = other.ts
        BY <3>1 DEF MemoryHolds
      <4>2. u.at <= s.at
        BY <3>3, <4>1
      <4>3. other.at # row.at
        BY <3>1 DEF MemoryHolds
      <4>4. other.at \in Nat
        BY <2>1, RowFields
      <4>5. QED
        BY <2>2, <2>3, <3>3, <4>1, <4>2, <4>3, <4>4 DEF Points!Earlier
    <3>4. QED
      <4>1. CASE \E row \in history[p] : row.at = s.at /\ row.ts = s.ts /\ row.val = s.val
        <5>1. PICK row \in history[p] : row.at = s.at /\ row.ts = s.ts /\ row.val = s.val
          BY <4>1
        <5>2. row.at >= s.at
          BY <2>2, <5>1
        <5>3. QED
          BY <3>1, <3>3, <5>1, <5>2
      <4>2. QED
        BY <3>1, <3>2, <4>1 DEF MemoryHolds
  <2>4. CASE backend # "memory"
    <3>1. StoreHolds(history[p], given[p])
      BY <2>4 DEF HistoryInv
    <3>2. PICK row \in history[p] :
            row.ts = Points!Key(s.ts) /\ row.at >= s.at /\ (row.at = s.at => row.val = s.val)
      BY <3>1 DEF StoreHolds
    <3>3. \A other \in history[p] \ {row} : other.ts # row.ts
      BY <3>1 DEF StoreHolds
    <3>4. QED
      BY <3>2, <3>3
  <2>5. QED
    BY <2>3, <2>4
<1>2. QED
  BY CallsInvAlways, HistoryInvAlways, <1>1, PTL

--------------------------------------------------------------------------------
(* The users: for every number of usernames, requests under way, servers that  *)
(* start, and requests.                                                         *)

(* The inductive invariant.                                                   *)

\* A request has its fields, its caller and its target are usernames, and nobody
\* deletes himself.
RequestOK(r) ==
  /\ r = [at |-> r.at, op |-> r.op, caller |-> r.caller, target |-> r.target,
          fields |-> r.fields, to |-> r.to, read |-> r.read]
  /\ r.caller \in Name /\ r.target \in Name
  /\ r.op = "delete" => r.target # r.caller

StartState == [at : {"down", "listing", "listed", "seeding", "up", "failed"},
               left : SUBSET Name, found : BOOLEAN, disturbed : BOOLEAN]

TypeInv ==
  /\ users = [n \in Name |-> users[n]]
  /\ request = [t \in Task |-> request[t]]
  /\ \A t \in Task : RequestOK(request[t])
  /\ start \in [Server -> StartState]

\* A server that found an administrator still has one, or was disturbed.
FoundInv ==
  \A s \in Server : start[s].at # "down" /\ start[s].found => Admins # {} \/ start[s].disturbed

Inv == TypeInv /\ FoundInv

Seeded == [role |-> "admin", enabled |-> TRUE]

------------------------------------------------------------------------------
LEMMA NextCases ==
  ASSUME [Next]_vars
  PROVE  \/ \E t \in Task, caller \in Name, target \in Name : \E op, fields, to :
               Ask(t, op, caller, target, fields, to)
         \/ \E t \in Task : Create(t)
         \/ \E t \in Task : Update(t)
         \/ \E t \in Task : Delete(t)
         \/ \E t \in Task : Set(t)
         \/ \E s \in Server : Begin(s)
         \/ \E s \in Server : Seed(s)
         \/ \E s \in Server : SeedSet(s)
         \/ \E s \in Server, names \in SUBSET Name : List(s, names)
         \/ UNCHANGED vars
<1>1. Next \/ UNCHANGED vars
  OBVIOUS
<1>2. CASE Next
  BY <1>2 DEF Next
<1>3. QED
  BY <1>1, <1>2

LEMMA InitInv == Init => Inv
<1> SUFFICES ASSUME Init PROVE Inv
  OBVIOUS
<1>1. RequestOK(Idle)
  BY UsersAssumption DEF RequestOK, Idle
<1>2. TypeInv
  BY <1>1 DEF Init, TypeInv, StartState, Down
<1>3. FoundInv
  BY DEF Init, FoundInv, Down
<1>4. QED
  BY <1>2, <1>3 DEF Inv

\* What becomes of the users and of the servers that start when a record is set.
LEMMA WrittenInv ==
  ASSUME Inv, NEW n \in Name, NEW u, Written(n, u)
  PROVE  /\ users' = [m \in Name |-> users'[m]] /\ start' \in [Server -> StartState]
         /\ FoundInv'
         /\ users'[n] = u /\ \A m \in Name : m # n => users'[m] = users[m]
<1>1. /\ users' = [m \in Name |-> users'[m]]
      /\ users'[n] = u /\ \A m \in Name : m # n => users'[m] = users[m]
  BY DEF Inv, TypeInv, Written
<1>2. start' = [s \in Server |-> IF IsAdmin(users[n]) /\ ~IsAdmin(u) /\ start[s].at # "down"
                                 THEN [start[s] EXCEPT !.disturbed = TRUE] ELSE start[s]]
  BY DEF Written
<1>3. start' \in [Server -> StartState]
  <2>1. ASSUME NEW s \in Server
        PROVE  start[s] \in StartState /\ [start[s] EXCEPT !.disturbed = TRUE] \in StartState
    BY DEF Inv, TypeInv, StartState
  <2>2. QED
    BY <1>2, <2>1
<1>4. ASSUME NEW s \in Server, start'[s].at # "down", start'[s].found
      PROVE  Admins' # {} \/ start'[s].disturbed
  <2>1. start[s] \in StartState
    BY DEF Inv, TypeInv
  <2>2. start'[s].at = start[s].at /\ start'[s].found = start[s].found
    BY <1>2, <2>1 DEF StartState
  <2>3. Admins # {} \/ start[s].disturbed
    BY <1>4, <2>2 DEF Inv, FoundInv
  <2>4. CASE start[s].disturbed
    BY <1>2, <2>1, <2>4 DEF StartState
  <2>5. CASE \E m \in Name : IsAdmin(users[m])
    <3>1. PICK m \in Name : IsAdmin(users[m])
      BY <2>5
    <3>2. CASE m # n \/ IsAdmin(u)
      <4>1. IsAdmin(users'[m])
        BY <1>1, <3>1, <3>2
      <4>2. QED
        BY <4>1 DEF Admins
    <3>3. CASE m = n /\ ~IsAdmin(u)
      BY <1>2, <1>4, <2>1, <2>2, <3>1, <3>3 DEF StartState
    <3>4. QED
      BY <3>2, <3>3
  <2>6. QED
    BY <2>3, <2>4, <2>5 DEF Admins
<1>5. QED
  BY <1>1, <1>3, <1>4 DEF FoundInv

\* A step that writes nothing.
LEMMA NotWrittenInv ==
  ASSUME Inv, NotWritten
  PROVE  users' = [m \in Name |-> users'[m]] /\ start' \in [Server -> StartState] /\ FoundInv'
BY DEF Inv, TypeInv, FoundInv, Admins, NotWritten

\* The requests after a step of one of them.
LEMMA StepInv ==
  ASSUME Inv, NEW t \in Task, NEW r, RequestOK(r), request' = [request EXCEPT ![t] = r]
  PROVE  /\ request' = [s \in Task |-> request'[s]] /\ request'[t] = r
         /\ \A s \in Task : RequestOK(request'[s])
BY DEF Inv, TypeInv

LEMMA IdleOK == RequestOK(Idle)
BY UsersAssumption DEF RequestOK, Idle

------------------------------------------------------------------------------
(* The routes.                                                                *)

LEMMA AskInv ==
  ASSUME Inv, NEW t \in Task, NEW caller \in Name, NEW target \in Name, NEW op, NEW fields, NEW to,
         Ask(t, op, caller, target, fields, to)
  PROVE  Inv' /\ users' = users /\ start' = start
<1> DEFINE r == [at |-> "checked", op |-> op, caller |-> caller, target |-> target,
                 fields |-> fields, to |-> to, read |-> NoUser]
<1>1. /\ op = "delete" => target # caller
      /\ request' = [request EXCEPT ![t] = r] /\ NotWritten
  BY DEF Ask, MayTarget
<1>2. RequestOK(r)
  BY <1>1 DEF RequestOK
<1>3. QED
  BY <1>1, <1>2, StepInv, NotWrittenInv DEF Inv, TypeInv, NotWritten

\* A request that goes on to its second step.
LEMMA GoesOnOK ==
  ASSUME NEW r, RequestOK(r), NEW at, NEW seen
  PROVE  RequestOK([r EXCEPT !.at = at]) /\ RequestOK([r EXCEPT !.at = at, !.read = seen])
<1>1. ASSUME NEW q, RequestOK(q), NEW x
      PROVE  RequestOK([q EXCEPT !.at = x]) /\ RequestOK([q EXCEPT !.read = x])
  <2>1. PICK a, op, caller, target, fields, to, old :
           q = [at |-> a, op |-> op, caller |-> caller, target |-> target,
                fields |-> fields, to |-> to, read |-> old]
    BY <1>1 DEF RequestOK
  <2>2. /\ caller \in Name /\ target \in Name
        /\ op = "delete" => target # caller
    BY <1>1, <2>1 DEF RequestOK
  <2>3. /\ [q EXCEPT !.at = x] = [at |-> x, op |-> op, caller |-> caller, target |-> target,
                                  fields |-> fields, to |-> to, read |-> old]
        /\ [q EXCEPT !.read = x] = [at |-> a, op |-> op, caller |-> caller, target |-> target,
                                    fields |-> fields, to |-> to, read |-> x]
    BY <2>1
  <2>4. QED
    BY <2>2, <2>3 DEF RequestOK
<1>2. [r EXCEPT !.at = at, !.read = seen] = [[r EXCEPT !.at = at] EXCEPT !.read = seen]
  OBVIOUS
<1>3. RequestOK([[r EXCEPT !.at = at] EXCEPT !.read = seen])
  BY <1>1
<1>4. QED
  BY <1>1, <1>2, <1>3

\* What a step of a request does: it keeps the invariant, and when it writes, it
\* writes its target; it does not bring a user back, unless it creates him or
\* the store is Redis.
Acts(t) ==
  /\ request'[t] # request[t]
  /\ \E u : /\ Written(request[t].target, u)
            /\ users[request[t].target] = NoUser /\ u # NoUser /\ request[t].op = "update" =>
                 store = "redis"

LEMMA CreateInv ==
  ASSUME Inv, NEW t \in Task, Create(t)
  PROVE  Inv' /\ (NotWritten \/ Acts(t))
<1>1. /\ request[t].at = "checked" /\ request[t].op = "create"
      /\ \/ Done(t) /\ NotWritten
         \/ Step(t, "setting") /\ NotWritten
         \/ Done(t) /\ Written(request[t].target, request[t].to)
  BY DEF Create
<1>2. RequestOK(request[t]) /\ request[t].target \in Name
  BY DEF Inv, TypeInv, RequestOK
<1>3. CASE Done(t)
  <2>1. request' = [request EXCEPT ![t] = Idle]
    BY <1>3 DEF Done
  <2>2. request' = [s \in Task |-> request'[s]] /\ request'[t] = Idle /\ \A s \in Task : RequestOK(request'[s])
    BY <2>1, IdleOK, StepInv
  <2>3. CASE NotWritten
    BY <2>2, <2>3, NotWrittenInv DEF Inv, TypeInv
  <2>4. CASE Written(request[t].target, request[t].to)
    <3>1. request'[t] # request[t]
      BY <1>1, <2>2 DEF Idle
    <3>2. Acts(t)
      BY <1>1, <2>4, <3>1 DEF Acts
    <3>3. QED
      BY <1>2, <2>2, <2>4, <3>2, WrittenInv DEF Inv, TypeInv
  <2>5. QED
    BY <1>1, <2>3, <2>4
<1>4. CASE Step(t, "setting") /\ NotWritten
  <2>1. request' = [request EXCEPT ![t] = [request[t] EXCEPT !.at = "setting"]]
    BY <1>4 DEF Step
  <2>2. RequestOK([request[t] EXCEPT !.at = "setting"])
    BY <1>2, GoesOnOK
  <2>3. QED
    BY <1>4, <2>1, <2>2, StepInv, NotWrittenInv DEF Inv, TypeInv
<1>5. QED
  BY <1>1, <1>3, <1>4

LEMMA UpdateInv ==
  ASSUME Inv, NEW t \in Task, Update(t)
  PROVE  Inv' /\ (NotWritten \/ Acts(t))
<1> DEFINE r == request[t]
           old == users[r.target]
           u == Merged(old, r.fields, r.to)
           later == [r EXCEPT !.at = "setting", !.read = old]
<1>1. /\ r.at = "checked" /\ r.op = "update"
      /\ \/ Done(t) /\ NotWritten
         \/ request' = [request EXCEPT ![t] = later] /\ NotWritten
         \/ Done(t) /\ Written(r.target, u) /\ old # NoUser
  <2>1. [request EXCEPT ![t].at = "setting", ![t].read = old] = [request EXCEPT ![t] = later]
    BY DEF Inv, TypeInv
  <2>2. QED
    BY <2>1 DEF Update
<1>2. RequestOK(r) /\ r.target \in Name
  BY DEF Inv, TypeInv, RequestOK
<1> HIDE DEF u
<1>3. CASE Done(t)
  <2>1. request' = [request EXCEPT ![t] = Idle]
    BY <1>3 DEF Done
  <2>2. request' = [s \in Task |-> request'[s]] /\ request'[t] = Idle /\ \A s \in Task : RequestOK(request'[s])
    BY <2>1, IdleOK, StepInv
  <2>3. CASE NotWritten
    BY <2>2, <2>3, NotWrittenInv DEF Inv, TypeInv
  <2>4. CASE Written(r.target, u) /\ old # NoUser
    <3>1. request'[t] # request[t]
      BY <1>1, <2>2 DEF Idle
    <3>2. Acts(t)
      BY <1>1, <2>4, <3>1 DEF Acts
    <3>3. QED
      BY <1>2, <2>2, <2>4, <3>2, WrittenInv DEF Inv, TypeInv
  <2>5. CASE request' = [request EXCEPT ![t] = later] /\ NotWritten
    BY <2>2, <2>5, NotWrittenInv DEF Inv, TypeInv
  <2>6. QED
    BY <1>1, <2>3, <2>4, <2>5
<1>4. CASE request' = [request EXCEPT ![t] = later] /\ NotWritten
  <2>1. RequestOK(later)
    BY <1>2, GoesOnOK
  <2> HIDE DEF later
  <2>2. QED
    BY <1>4, <2>1, StepInv, NotWrittenInv DEF Inv, TypeInv
<1>5. QED
  BY <1>1, <1>3, <1>4

LEMMA DeleteInv ==
  ASSUME Inv, NEW t \in Task, Delete(t)
  PROVE  Inv' /\ (NotWritten \/ Acts(t))
<1>1. /\ request[t].at = "checked" /\ request' = [request EXCEPT ![t] = Idle]
      /\ Written(request[t].target, NoUser)
  BY DEF Delete, Done
<1>2. request[t].target \in Name
  BY DEF Inv, TypeInv, RequestOK
<1>3. request' = [s \in Task |-> request'[s]] /\ request'[t] = Idle /\ \A s \in Task : RequestOK(request'[s])
  BY <1>1, IdleOK, StepInv
<1>4. Acts(t)
  BY <1>1, <1>3 DEF Acts, Idle
<1>5. QED
  BY <1>1, <1>2, <1>3, <1>4, WrittenInv DEF Inv, TypeInv

LEMMA SetInv ==
  ASSUME Inv, NEW t \in Task, Set(t)
  PROVE  Inv' /\ (NotWritten \/ Acts(t))
<1> DEFINE r == request[t]
           u == IF r.op = "create" THEN r.to ELSE Merged(r.read, r.fields, r.to)
<1>1. /\ r.at = "setting" /\ request' = [request EXCEPT ![t] = Idle]
      /\ \/ NotWritten
         \/ Written(r.target, u) /\ (store = "redis" \/ users[r.target] # NoUser)
  BY DEF Set, Done, Writes
<1>2. r.target \in Name
  BY DEF Inv, TypeInv, RequestOK
<1>3. request' = [s \in Task |-> request'[s]] /\ request'[t] = Idle /\ \A s \in Task : RequestOK(request'[s])
  BY <1>1, IdleOK, StepInv
<1> HIDE DEF u
<1>4. CASE NotWritten
  BY <1>3, <1>4, NotWrittenInv DEF Inv, TypeInv
<1>5. CASE Written(r.target, u) /\ (store = "redis" \/ users[r.target] # NoUser)
  <2>1. Acts(t)
    BY <1>1, <1>3, <1>5 DEF Acts, Idle
  <2>2. QED
    BY <1>2, <1>3, <1>5, <2>1, WrittenInv DEF Inv, TypeInv
<1>6. QED
  BY <1>1, <1>4, <1>5

------------------------------------------------------------------------------
(* The start of a server.                                                     *)

LEMMA BeginInv ==
  ASSUME Inv, NEW s \in Server, Begin(s)
  PROVE  Inv' /\ users' = users /\ \A o \in Server : start'[o].at = "up" => start[o].at = "up"
<1> DEFINE new == [at |-> "listing", left |-> Name, found |-> FALSE, disturbed |-> FALSE]
<1>1. start' = [start EXCEPT ![s] = new] /\ UNCHANGED <<users, request>>
  BY DEF Begin
<1>2. new \in StartState /\ new.at = "listing" /\ ~new.found
  BY DEF StartState
<1> HIDE DEF new
<1>3. TypeInv'
  BY <1>1, <1>2 DEF Inv, TypeInv
<1>4. \A o \in Server : o # s => start'[o] = start[o]
  BY <1>1 DEF Inv, TypeInv
<1>5. start'[s] = new
  BY <1>1 DEF Inv, TypeInv
<1>6. FoundInv'
  BY <1>1, <1>2, <1>4, <1>5 DEF Inv, FoundInv, Admins
<1>7. QED
  BY <1>1, <1>2, <1>3, <1>4, <1>5, <1>6 DEF Inv

LEMMA ListInv ==
  ASSUME Inv, NEW s \in Server, NEW names \in SUBSET Name, List(s, names)
  PROVE  Inv' /\ users' = users /\ \A o \in Server : start'[o].at = "up" => start[o].at = "up"
<1> DEFINE seen == \E n \in names : Found(users[n])
           found == start[s].found \/ seen
           at == IF start[s].left = names THEN "listed" ELSE start[s].at
           new == [start[s] EXCEPT !.left = start[s].left \ names, !.found = found, !.at = at]
<1>1. start[s] \in StartState /\ start[s].at = "listing"
  BY DEF Inv, TypeInv, List
<1>3. start' = [start EXCEPT ![s] = new] /\ UNCHANGED <<users, request>>
  <2>1. /\ start' = [start EXCEPT ![s].left = start[s].left \ names, ![s].found = found, ![s].at = at]
        /\ UNCHANGED <<users, request>>
    BY <1>1 DEF List
  <2> HIDE DEF found, at
  <2>2. [start EXCEPT ![s].left = start[s].left \ names, ![s].found = found, ![s].at = at] =
        [start EXCEPT ![s] = new]
    BY DEF Inv, TypeInv
  <2>3. QED
    BY <2>1, <2>2
<1>4. seen => Admins # {}
  BY DEF Found, Admins, IsAdmin
<1>5. /\ new \in StartState /\ new.at # "up" /\ new.disturbed = start[s].disturbed
      /\ new.found => start[s].found \/ Admins # {}
  <2>1. found \in BOOLEAN /\ at \in {"listing", "listed"} /\ start[s].left \ names \in SUBSET Name
    <3>1. start[s].left \ names \in SUBSET Name /\ at \in {"listing", "listed"}
      BY <1>1 DEF StartState
    <3>2. QED
      BY <3>1
  <2>2. found => start[s].found \/ Admins # {}
    BY <1>4
  <2> DEFINE rest == start[s].left \ names
  <2> HIDE DEF found, at, rest
  <2>3. rest \in SUBSET Name
    BY <2>1 DEF rest
  <2>4. /\ [start[s] EXCEPT !.left = rest, !.found = found, !.at = at] \in StartState
        /\ [start[s] EXCEPT !.left = rest, !.found = found, !.at = at].at = at
        /\ [start[s] EXCEPT !.left = rest, !.found = found, !.at = at].found = found
        /\ [start[s] EXCEPT !.left = rest, !.found = found, !.at = at].disturbed = start[s].disturbed
    BY <1>1, <2>1, <2>3 DEF StartState
  <2>5. new = [start[s] EXCEPT !.left = rest, !.found = found, !.at = at]
    BY DEF rest
  <2> HIDE DEF new
  <2>6. QED
    BY <2>1, <2>2, <2>4, <2>5
<1> HIDE DEF new, seen, found, at
<1>6. TypeInv'
  BY <1>3, <1>5 DEF Inv, TypeInv
<1>7. start'[s] = new /\ \A o \in Server : o # s => start'[o] = start[o]
  BY <1>3 DEF Inv, TypeInv
<1>8. Admins' = Admins
  BY <1>3 DEF Admins
<1>9. FoundInv'
  <2>1. ASSUME NEW o \in Server, start'[o].at # "down", start'[o].found
        PROVE  Admins' # {} \/ start'[o].disturbed
    <3>1. CASE o = s
      BY <1>1, <1>5, <1>7, <1>8, <2>1, <3>1 DEF Inv, FoundInv
    <3>2. CASE o # s
      BY <1>7, <1>8, <2>1, <3>2 DEF Inv, FoundInv
    <3>3. QED
      BY <3>1, <3>2
  <2>2. QED
    BY <2>1 DEF FoundInv
<1>10. QED
  BY <1>3, <1>5, <1>6, <1>7, <1>9 DEF Inv

\* A server that gets up found an administrator or makes one.
LEMMA SeedInv ==
  ASSUME Inv, NEW s \in Server, Seed(s) \/ SeedSet(s)
  PROVE  /\ Inv'
         /\ users' = users \/ users' = [users EXCEPT ![Superuser] = Seeded]
         /\ \A o \in Server : start[o].at # "up" /\ start'[o].at = "up" =>
               Admins' # {} \/ start[o].disturbed
         /\ users' # users => \E o \in Server : start[o].at # "up" /\ start'[o].at = "up"
<1>1. start[s] \in StartState /\ start[s].at \in {"listed", "seeding"} /\ request' = request
  BY DEF Inv, TypeInv, Seed, SeedSet
<1>2. PICK at \in {"up", "failed", "seeding"} :
        /\ Goes(s, at)
        /\ users' = users \/ (users' = [users EXCEPT ![Superuser] = Seeded] /\ at = "up")
        /\ at = "up" => start[s].found \/ users' = [users EXCEPT ![Superuser] = Seeded]
  <2>1. CASE Seed(s)
    BY <2>1 DEF Seed, Seeded
  <2>2. CASE SeedSet(s)
    BY <2>2 DEF SeedSet, Seeded
  <2>3. QED
    BY <2>1, <2>2
<1>3. /\ start' \in [Server -> StartState]
      /\ start'[s].at = at /\ start'[s].found = start[s].found
      /\ start'[s].disturbed = start[s].disturbed
      /\ \A o \in Server : o # s => start'[o] = start[o]
  <2>1. start' = [start EXCEPT ![s] = [start[s] EXCEPT !.at = at]]
    BY <1>2 DEF Goes
  <2>2. /\ [start[s] EXCEPT !.at = at] \in StartState
        /\ [start[s] EXCEPT !.at = at].at = at
        /\ [start[s] EXCEPT !.at = at].found = start[s].found
        /\ [start[s] EXCEPT !.at = at].disturbed = start[s].disturbed
    BY <1>1 DEF StartState
  <2>3. QED
    BY <2>1, <2>2 DEF Inv, TypeInv
<1>4. ASSUME users' = [users EXCEPT ![Superuser] = Seeded]
      PROVE  Admins' # {}
  <2>1. users'[Superuser] = Seeded
    BY <1>4, UsersAssumption DEF Inv, TypeInv
  <2>2. QED
    BY <2>1, UsersAssumption DEF Admins, IsAdmin, Seeded
<1>5. users' = users => Admins' = Admins
  BY DEF Admins
<1>6. TypeInv'
  <2>1. users' = [n \in Name |-> users'[n]]
    BY <1>2 DEF Inv, TypeInv
  <2>2. QED
    BY <1>1, <1>3, <2>1 DEF Inv, TypeInv
<1>7. ASSUME NEW o \in Server, start'[o].at # "down", start'[o].found
      PROVE  Admins' # {} \/ start'[o].disturbed
  <2>1. start[o].at # "down" /\ start[o].found /\ start'[o].disturbed = start[o].disturbed
    BY <1>1, <1>3, <1>7
  <2>2. QED
    BY <1>2, <1>4, <1>5, <2>1 DEF Inv, FoundInv
<1>8. ASSUME NEW o \in Server, start[o].at # "up", start'[o].at = "up"
      PROVE  Admins' # {} \/ start[o].disturbed
  <2>1. o = s /\ at = "up"
    BY <1>3, <1>8
  <2>2. QED
    BY <1>1, <1>2, <1>4, <1>5, <2>1 DEF Inv, FoundInv
<1>9. users' # users => start[s].at # "up" /\ start'[s].at = "up"
  BY <1>1, <1>2, <1>3
<1>10. FoundInv'
  BY <1>7 DEF FoundInv
<1>11. QED
  BY <1>2, <1>6, <1>8, <1>9, <1>10 DEF Inv

------------------------------------------------------------------------------
\* What a step does to the users, and what it means when a server gets up.
Quiet == users' = users
Comes == \E o \in Server : start[o].at # "up" /\ start'[o].at = "up"
Seeds == users' = [users EXCEPT ![Superuser] = Seeded] /\ Comes

LEMMA Steps ==
  ASSUME Inv, [Next]_vars
  PROVE  /\ Inv'
         /\ Quiet \/ Seeds \/ \E t \in Task : Acts(t)
         /\ \A o \in Server : start[o].at # "up" /\ start'[o].at = "up" =>
               Admins' # {} \/ start[o].disturbed
<1> DEFINE NoneComes == \A o \in Server : start'[o].at = "up" => start[o].at = "up"
           Good == /\ Inv'
                   /\ Quiet \/ Seeds \/ \E t \in Task : Acts(t)
                   /\ \A o \in Server : start[o].at # "up" /\ start'[o].at = "up" =>
                         Admins' # {} \/ start[o].disturbed
<1>1. ASSUME NEW t \in Task, Inv', NotWritten \/ Acts(t)
      PROVE  Good
  <2>1. CASE NotWritten
    BY <1>1, <2>1 DEF NotWritten, Quiet
  <2>2. CASE Acts(t)
    <3>1. PICK u : Written(request[t].target, u)
      BY <2>2 DEF Acts
    <3>2. ASSUME NEW o \in Server
          PROVE  start'[o].at = start[o].at
      <4>1. start[o] \in StartState
        BY DEF Inv, TypeInv
      <4>2. [start[o] EXCEPT !.disturbed = TRUE].at = start[o].at
        BY <4>1 DEF StartState
      <4>3. start'[o] \in {start[o], [start[o] EXCEPT !.disturbed = TRUE]}
        BY <3>1 DEF Written
      <4>4. QED
        BY <4>2, <4>3
    <3>3. QED
      BY <1>1, <2>2, <3>2
  <2>3. QED
    BY <1>1, <2>1, <2>2
<1>2. ASSUME NEW t \in Task, NEW caller \in Name, NEW target \in Name, NEW op, NEW fields, NEW to,
             Ask(t, op, caller, target, fields, to)
      PROVE  Good
  <2>1. Inv' /\ users' = users /\ start' = start
    BY <1>2, AskInv
  <2>2. QED
    BY <2>1 DEF Quiet
<1>3. ASSUME NEW t \in Task, Create(t) \/ Update(t) \/ Delete(t) \/ Set(t)
      PROVE  Good
  <2>1. Inv' /\ (NotWritten \/ Acts(t))
    BY <1>3, CreateInv, UpdateInv, DeleteInv, SetInv
  <2> HIDE DEF Good
  <2>2. QED
    BY <1>1, <2>1
<1>4. ASSUME NEW s \in Server, Begin(s) \/ \E names \in SUBSET Name : List(s, names)
      PROVE  Good
  <2>1. Inv' /\ users' = users /\ \A o \in Server : start'[o].at = "up" => start[o].at = "up"
    BY <1>4, BeginInv, ListInv
  <2>2. QED
    BY <2>1 DEF Quiet
<1>5. ASSUME NEW s \in Server, Seed(s) \/ SeedSet(s)
      PROVE  Good
  <2>1. /\ Inv'
        /\ users' = users \/ users' = [users EXCEPT ![Superuser] = Seeded]
        /\ \A o \in Server : start[o].at # "up" /\ start'[o].at = "up" =>
               Admins' # {} \/ start[o].disturbed
        /\ users' # users => Comes
    BY <1>5, SeedInv DEF Comes
  <2>2. QED
    BY <2>1 DEF Quiet, Seeds
<1>6. ASSUME UNCHANGED vars
      PROVE  Good
  BY <1>6 DEF vars, Quiet, Inv, TypeInv, FoundInv, Admins
<1> HIDE DEF Good
<1>7. Good
  BY <1>2, <1>3, <1>4, <1>5, <1>6, NextCases
<1>8. QED
  BY <1>7 DEF Good

LEMMA InvHolds == Spec => []Inv
<1>1. Inv /\ [Next]_vars => Inv'
  BY Steps
<1>2. QED
  BY <1>1, InitInv, PTL DEF Spec

------------------------------------------------------------------------------
\* The last administrator goes only by a request on his own record or by one whose
\* caller is an administrator no more (_require_admin, the user routes, the stores).
THEOREM LastAdminCorrect == Spec => LastAdminGoes
<1> DEFINE Cause == \E t \in Task : /\ request'[t] # request[t]
                                    /\ \/ request[t].caller \notin Admins
                                       \/ request[t].op # "delete" /\ request[t].caller = request[t].target
<1>1. Inv /\ [Next]_vars => [Admins # {} /\ Admins' = {} => Cause]_vars
  <2> SUFFICES ASSUME Inv, [Next]_vars, Admins # {}, Admins' = {}
               PROVE  Cause
    OBVIOUS
  <2>1. ~Quiet
    BY DEF Quiet, Admins
  <2>2. ~Seeds
    <3>1. ASSUME Seeds PROVE users'[Superuser] = Seeded
      BY <3>1, UsersAssumption DEF Seeds, Inv, TypeInv
    <3>2. QED
      BY <3>1, UsersAssumption DEF Admins, IsAdmin, Seeded
  <2>3. PICK t \in Task : Acts(t)
    BY <2>1, <2>2, Steps
  <2>4. RequestOK(request[t])
    BY DEF Inv, TypeInv
  <2>5. CASE request[t].caller \in Admins
    <3>1. PICK u : Written(request[t].target, u)
      BY <2>3 DEF Acts
    <3>2. request[t].caller # request[t].target => users'[request[t].caller] = users[request[t].caller]
      BY <2>4, <3>1, WrittenInv DEF RequestOK
    <3>3. request[t].caller = request[t].target
      BY <2>4, <2>5, <3>2 DEF RequestOK, Admins
    <3>4. QED
      BY <2>3, <2>4, <3>3 DEF Acts, RequestOK
  <2>6. CASE request[t].caller \notin Admins
    BY <2>3, <2>6 DEF Acts
  <2>7. QED
    BY <2>5, <2>6
<1>2. QED
  BY <1>1, InvHolds, PTL DEF Spec, LastAdminGoes

\* A user that is not there comes in by a start, by a create_user or, with Redis,
\* by an update that read him before (ensure_superuser and the three stores).
THEOREM DeletedCorrect == Spec => DeletedStaysDeleted
<1> DEFINE Back == \A n \in Name : users[n] = NoUser /\ users'[n] # NoUser =>
                      \/ \E s \in Server : start[s].at # "up" /\ start'[s].at = "up"
                      \/ \E t \in Task : /\ request'[t] # request[t] /\ request[t].target = n
                                         /\ request[t].op = "update" => store = "redis"
<1>1. Inv /\ [Next]_vars => [Back]_vars
  <2> SUFFICES ASSUME Inv, [Next]_vars, NEW n \in Name, users[n] = NoUser, users'[n] # NoUser
               PROVE  \/ Comes
                      \/ \E t \in Task : /\ request'[t] # request[t] /\ request[t].target = n
                                         /\ request[t].op = "update" => store = "redis"
    BY DEF Comes
  <2>1. CASE Quiet
    BY <2>1 DEF Quiet
  <2>2. CASE Seeds
    BY <2>2 DEF Seeds
  <2>3. CASE \E t \in Task : Acts(t)
    <3>1. PICK t \in Task : Acts(t)
      BY <2>3
    <3>2. PICK u : /\ Written(request[t].target, u)
                   /\ users[request[t].target] = NoUser /\ u # NoUser /\ request[t].op = "update" =>
                        store = "redis"
      BY <3>1 DEF Acts
    <3>3. request[t].target \in Name
      BY DEF Inv, TypeInv, RequestOK
    <3>4. request[t].target = n /\ u # NoUser
      BY <3>2, <3>3, WrittenInv
    <3>5. QED
      BY <3>1, <3>2, <3>4 DEF Acts
  <2>4. QED
    BY <2>1, <2>2, <2>3, Steps
<1>2. QED
  BY <1>1, InvHolds, PTL DEF Spec, DeletedStaysDeleted

\* A server that comes up has an administrator, unless a request took one away
\* while it was starting (ensure_superuser).
THEOREM StartCorrect == Spec => StartsWithAdmin
<1>1. Inv /\ [Next]_vars =>
        [\A s \in Server : start[s].at # "up" /\ start'[s].at = "up" =>
            Admins' # {} \/ start[s].disturbed]_vars
  BY Steps
<1>2. QED
  BY <1>1, InvHolds, PTL DEF Spec, StartsWithAdmin

\* The part of the users in the run of the stores is a behaviour of UserStore, in
\* the other parts it stands still: what the run checks of users follows.
THEOREM UsersOfStores ==
  StoresSpec => LastAdminGoes /\ DeletedStaysDeleted /\ StartsWithAdmin
<1>1. StoresInit => Init
  BY DEF StoresInit
<1>2. [StoresNext]_allVars => [Next]_vars
  BY DEF StoresNext, allVars
<1>3. StoresSpec => Spec
  BY <1>1, <1>2, PTL DEF StoresSpec, Spec
<1>4. QED
  BY <1>3, LastAdminCorrect, DeletedCorrect, StartCorrect

-----------------------------------------------------------------------------
(* The reads by filter and the namespace of defs: what FilterRead_proofs and  *)
(* Ontology_proofs prove of them, of the parts of the run.                    *)

\* A read by filter is answered, by the translations to SQL and to RediSearch, the
\* indexes and the caches of the three stores too, as evaluate answers at some time
\* during the read (storage/protocol.py read_by_filter).
THEOREM ReadsCorrect == StoresSpec => []AnswersAsEvaluated
<1>1. StoresInit => Finding!Init
  BY DEF StoresInit
<1>2. [StoresNext]_allVars => [Finding!Next]_Finding!vars
  BY DEF StoresNext, allVars, readVars, Finding!vars
<1>3. StoresSpec => Finding!Spec
  BY <1>1, <1>2, PTL DEF StoresSpec, Finding!Spec
<1>4. Finding!Spec => []Finding!AnswersAsEvaluated
  BY StoresAssumption, Finding!AnswersAsEvaluatedAlways
<1>5. QED
  BY <1>3, <1>4 DEF AnswersAsEvaluated

LEMMA DefsOfStores == StoresSpec => Defs!Spec
<1>1. StoresInit => Defs!Init
  BY DEF StoresInit
<1>2. [StoresNext]_allVars => [Defs!Next]_Defs!vars
  BY DEF StoresNext, allVars, defVars, Defs!vars
<1>3. QED
  BY <1>1, <1>2, PTL DEF StoresSpec, Defs!Spec

\* Reflection and taxonomy agree: an entity fits a def that is known if one of its
\* own is a subtype of it, and nothing else but for the other name of a def.
THEOREM FitsCorrect == StoresSpec => []FitsIsSubtype
<1>1. Defs!Spec => []Defs!FitsIsSubtype
  BY StoresAssumption, Defs!FitsIsSubtypeAlways
<1>2. QED
  BY <1>1, DefsOfStores DEF FitsIsSubtype

\* What compile_namespace returns names no supertype it does not know, and only a
\* def with a prefix that others name without it can be above itself.
THEOREM CompiledCorrect == StoresSpec => []CompiledIsSound
<1>1. Defs!Spec => []Defs!CompiledIsSound
  BY StoresAssumption, Defs!CompiledIsSoundAlways
<1>2. QED
  BY <1>1, DefsOfStores DEF CompiledIsSound
================================================================================
