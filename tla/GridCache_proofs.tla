--------------------------- MODULE GridCache_proofs ---------------------------
(***************************************************************************)
(* Proofs about GridCache for every set of requests, filters, limits and   *)
(* ids, every number of requests at a time and every size of the caches.   *)
(***************************************************************************)
EXTENDS GridCache, SequenceTheorems, TLAPS

\* The actions as one disjunction, for the proofs by cases below.
LEMMA NextCases ==
  ASSUME [Next]_vars
  PROVE  \/ \E t \in Task, path \in Path, q \in Query : Begin(t, path, "read", q)
         \/ \E t \in Task, path \in Path \ {"get"} : Begin(t, path, "mutate", None)
         \/ \E t \in Task : Reads(t)
         \/ \E t \in Task : Mutates(t)
         \/ \E t \in Task : AnswersRead(t)
         \/ \E t \in Task : AnswersMutation(t)
         \/ UNCHANGED vars
BY DEF Next

\* The text of a filter is a sequence of pieces, that of a number or of nothing is one
\* piece.
LEMMA QueryTexts ==
  ASSUME NEW q \in Query
  PROVE  /\ q = [filter |-> q.filter, limit |-> q.limit, id |-> q.id]
         /\ q.limit = [text |-> q.limit.text, number |-> q.limit.number]
         /\ q.filter \in Seq(STRING) /\ q.limit.text \in Seq(STRING)
         /\ q.limit.number \in BOOLEAN
         /\ ~ HasTextLimit(q) => /\ Len(q.limit.text) = 1
                                 /\ q.limit.number <=> q.limit.text # Absent
<1>1. IsQuery(q)
  BY CacheAssumption
<1>2. NoLimit.text = Absent /\ NoLimit.number = FALSE /\ Len(Absent) = 1
  BY DEF NoLimit, Absent
<1>3. ~ HasTextLimit(q) => q.limit = NoLimit \/ q.limit.number
  BY DEF HasTextLimit
<1>4. QED
  BY <1>1, <1>2, <1>3 DEF IsQuery

\* The key of a read.
LEMMA KeyOfQuery ==
  ASSUME NEW q \in Query
  PROVE  CacheKey(q) \in Key
BY DEF Key

\* A text that ends in one piece is parted in one way.
LEMMA LastPiece ==
  ASSUME NEW f \in Seq(STRING), NEW g \in Seq(STRING), NEW x \in Seq(STRING), NEW y \in Seq(STRING),
         Len(x) = 1, Len(y) = 1, f \o x = g \o y
  PROVE  f = g /\ x = y
<1> DEFINE u == f \o x
           v == g \o y
<1>1. /\ Len(f) \in Nat /\ Len(g) \in Nat
      /\ Len(u) = Len(f) + 1 /\ Len(v) = Len(g) + 1
      /\ \A i \in 1 .. Len(f) : u[i] = f[i]
      /\ \A i \in 1 .. Len(g) : v[i] = g[i]
      /\ u[Len(f) + 1] = x[1] /\ v[Len(g) + 1] = y[1]
  <2>1. ASSUME NEW h \in Seq(STRING), NEW z \in Seq(STRING), Len(z) = 1
        PROVE  /\ Len(h \o z) = Len(h) + 1 /\ (h \o z)[Len(h) + 1] = z[1]
               /\ \A i \in 1 .. Len(h) : (h \o z)[i] = h[i]
    <3>1. Len(h) \in Nat /\ Len(h) + 1 \in 1 .. Len(h) + Len(z) /\ (Len(h) + 1) - Len(h) = 1
      BY <2>1, LenProperties
    <3>2. \A i \in 1 .. Len(h) : i \in 1 .. Len(h) + Len(z) /\ i <= Len(h)
      BY <2>1, <3>1
    <3>3. /\ Len(h \o z) = Len(h) + Len(z)
          /\ \A i \in 1 .. Len(h) + Len(z) : (h \o z)[i] = IF i <= Len(h) THEN h[i] ELSE z[i - Len(h)]
      BY ConcatProperties
    <3>4. (h \o z)[Len(h) + 1] = z[1]
      BY <3>1, <3>3
    <3>5. \A i \in 1 .. Len(h) : (h \o z)[i] = h[i]
      BY <3>2, <3>3
    <3>6. QED
      BY <2>1, <3>3, <3>4, <3>5
  <2>2. QED
    BY <2>1, LenProperties
<1>2. u = v
  OBVIOUS
<1> HIDE DEF u, v
<1>3. Len(f) = Len(g)
  BY <1>1, <1>2
<1>4. \A i \in 1 .. Len(f) : f[i] = g[i]
  BY <1>1, <1>2, <1>3
<1>5. x[1] = y[1]
  BY <1>1, <1>2, <1>3
<1>6. f = g
  BY <1>3, <1>4, SeqEqual
<1>7. x = y
  BY <1>5, SeqEqual
<1>8. QED
  BY <1>6, <1>7

\* Two reads of one key that have no text for a limit are by the same filter and limit.
LEMMA KeyNamesQuery ==
  ASSUME NEW p \in Query, NEW q \in Query, CacheKey(p) = CacheKey(q), p.id = q.id,
         ~ HasTextLimit(p), ~ HasTextLimit(q)
  PROVE  p = q
<1>1. p.filter = q.filter /\ p.limit.text = q.limit.text
  <2>1. /\ p.filter \in Seq(STRING) /\ q.filter \in Seq(STRING)
        /\ p.limit.text \in Seq(STRING) /\ q.limit.text \in Seq(STRING)
        /\ Len(p.limit.text) = 1 /\ Len(q.limit.text) = 1
    BY QueryTexts
  <2>2. p.filter \o p.limit.text = q.filter \o q.limit.text
    BY DEF CacheKey
  <2>3. QED
    <3>1. PICK f, g, x, y : f = p.filter /\ g = q.filter /\ x = p.limit.text /\ y = q.limit.text
      OBVIOUS
    <3>2. /\ f \in Seq(STRING) /\ g \in Seq(STRING) /\ x \in Seq(STRING) /\ y \in Seq(STRING)
          /\ Len(x) = 1 /\ Len(y) = 1
      BY <2>1, <3>1
    <3>3. f \o x = g \o y
      BY <2>2, <3>1
    <3>4. f = g /\ x = y
      BY <3>2, <3>3, LastPiece, Zenon
    <3>5. QED
      BY <3>1, <3>4
<1>2. p.limit.number = q.limit.number
  BY <1>1, QueryTexts
<1>3. p.limit = q.limit
  BY <1>1, <1>2, QueryTexts
<1>4. QED
  BY <1>1, <1>3, QueryTexts

-----------------------------------------------------------------------------
(* What a request holds on its way.  A mutation comes in without a query and *)
(* never over GET, which is why what it is owed is cleared; a request that   *)
(* answers has a result, and that of a read is about its own query.          *)

RequestOK(r) ==
  /\ r.op = "read" => r.query \in Query
  /\ r.op = "mutate" => r.path # "get"
  /\ r.step = "respond" => r.result # None
  /\ r.op = "read" /\ r.result \notin {None, Failure} => r.result.query = r.query

RequestsOK == \A t \in Task : task[t] # None => RequestOK(task[t])

\* Begin with a query makes a request of which all this holds.
LEMMA BegunRequest ==
  ASSUME TypeOK, NEW t \in Task, NEW path \in Path, NEW op \in {"read", "mutate"},
         NEW q \in Query \union {None}, Begin(t, path, op, q),
         op = "read" => q \in Query, op = "mutate" => path # "get"
  PROVE  \E r \in Request :
           /\ task' = [task EXCEPT ![t] = r]
           /\ RequestOK(r)
           /\ r.result \in {None, Failure}
           /\ r.floor = IF r.path \in Caches THEN floor[r.path] ELSE 0
<1>1. PICK allowed \in BOOLEAN :
        task' = [task EXCEPT ![t] =
          [path |-> path, op |-> op, query |-> q,
           step |-> IF allowed THEN "run" ELSE "respond",
           result |-> IF allowed THEN None ELSE Failure,
           floor |-> IF path \in Caches THEN floor[path] ELSE 0]]
  BY DEF Begin
<1> DEFINE r == [path |-> path, op |-> op, query |-> q,
                 step |-> IF allowed THEN "run" ELSE "respond",
                 result |-> IF allowed THEN None ELSE Failure,
                 floor |-> IF path \in Caches THEN floor[path] ELSE 0]
<1>2. path \in Paths /\ None # Failure
  BY CacheAssumption
<1>3. (IF path \in Caches THEN floor[path] ELSE 0) \in Nat
  BY DEF TypeOK
<1>4. r \in Request
  BY <1>2, <1>3 DEF Request
<1>5. RequestOK(r)
  BY <1>2 DEF RequestOK
<1>6. QED
  BY <1>1, <1>4, <1>5

\* Computed gives a request its result and changes nothing else of it.
LEMMA ComputedRequest ==
  ASSUME TypeOK, NEW t \in Task, task[t] # None, RequestOK(task[t]),
         NEW result \in Answer \union {Failure}, Computed(t, result),
         task[t].op = "read" /\ result # Failure => result.query = task[t].query
  PROVE  \E r \in Request :
           /\ task' = [task EXCEPT ![t] = r]
           /\ RequestOK(r)
           /\ r.result = result /\ r.step = "respond" /\ r.op = task[t].op
           /\ r.path = task[t].path /\ r.query = task[t].query /\ r.floor = task[t].floor
<1>1. task[t] \in Request
  BY DEF TypeOK
<1> DEFINE r == [task[t] EXCEPT !.result = result, !.step = "respond"]
<1>2. /\ r \in Request
      /\ r.result = result /\ r.step = "respond" /\ r.op = task[t].op
      /\ r.path = task[t].path /\ r.query = task[t].query /\ r.floor = task[t].floor
  BY <1>1 DEF Request
<1>3. result # None
  BY CacheAssumption
<1>4. RequestOK(r)
  BY <1>2, <1>3 DEF RequestOK
<1>5. QED
  BY <1>2, <1>4 DEF Computed

\* What Reads and Mutates compute.
LEMMA ReadResult ==
  ASSUME TypeOK, RequestsOK, NEW t \in Task, Reads(t)
  PROVE  /\ task[t] # None /\ task[t].op = "read" /\ RequestOK(task[t])
         /\ \E result \in Answer \union {Failure} :
              /\ Computed(t, result)
              /\ result # Failure => result.query = task[t].query /\ result.version = version
<1>1. task[t] # None /\ task[t].op = "read" /\ RequestOK(task[t])
  BY DEF Reads, Running, RequestsOK
<1>2. [query |-> task[t].query, version |-> version] \in Answer
  BY <1>1 DEF TypeOK, RequestOK, Answer
<1>3. QED
  BY <1>1, <1>2 DEF Reads, Found

LEMMA MutateResult ==
  ASSUME TypeOK, RequestsOK, NEW t \in Task, Mutates(t)
  PROVE  /\ task[t] # None /\ task[t].op = "mutate" /\ RequestOK(task[t])
         /\ version' \in Nat /\ version' >= version
         /\ \E result \in Answer \union {Failure} :
              /\ Computed(t, result)
              /\ result # Failure => result.version = version'
<1>1. task[t] # None /\ task[t].op = "mutate" /\ RequestOK(task[t])
  BY DEF Mutates, Running, RequestsOK
<1>2. version' \in Nat /\ version' >= version
  BY DEF Mutates, TypeOK
<1>3. task[t].query \in Query \union {None}
  BY <1>1 DEF TypeOK, Request
<1>4. [query |-> task[t].query, version |-> version'] \in Answer
  BY <1>2, <1>3 DEF Answer
<1>5. QED
  BY <1>1, <1>2, <1>4 DEF Mutates

\* A mutation is owed no more than it clears, and what it is owed is an answer.
LEMMA OwedIsCleared ==
  ASSUME TypeOK, RequestsOK, NEW t \in Task, AnswersMutation(t)
  PROVE  /\ Owed(t) \subseteq Clears(t) /\ Clears(t) \subseteq Caches
         /\ Owed(t) # {} => task[t].result \in Answer
<1>1. task[t] # None /\ task[t].step = "respond" /\ task[t].op = "mutate"
  BY DEF AnswersMutation, Responding
<1>2. task[t].path \in {"http", "ws", "binary"} /\ task[t].result \in Answer \union {Failure}
  BY <1>1 DEF TypeOK, Request, Paths, RequestsOK, RequestOK
<1>3. QED
  BY <1>2 DEF Owed, Clears, Caches

LEMMA FloorRises ==
  ASSUME TypeOK, RequestsOK, NEW t \in Task, AnswersMutation(t)
  PROVE  /\ floor' \in [Caches -> Nat]
         /\ \A c \in Caches :
              /\ floor'[c] >= floor[c]
              /\ c \notin Clears(t) => floor'[c] = floor[c]
              /\ floor'[c] = floor[c] \/ (task[t].result \in Answer /\ floor'[c] = task[t].result.version)
<1>1. floor' = FloorAfter(t)
  BY DEF AnswersMutation
<1>2. ASSUME NEW c \in Caches
      PROVE  /\ FloorAfter(t)[c] \in Nat /\ FloorAfter(t)[c] >= floor[c]
             /\ c \notin Clears(t) => FloorAfter(t)[c] = floor[c]
             /\ FloorAfter(t)[c] = floor[c]
                  \/ (task[t].result \in Answer /\ FloorAfter(t)[c] = task[t].result.version)
  <2>1. floor[c] \in Nat
    BY DEF TypeOK
  <2>2. CASE c \in Owed(t)
    <3>1. task[t].result.version \in Nat /\ task[t].result \in Answer
      BY <2>2, OwedIsCleared DEF Answer
    <3>2. c \in Clears(t)
      BY <2>2, OwedIsCleared
    <3>3. QED
      BY <2>1, <2>2, <3>1, <3>2 DEF FloorAfter
  <2>3. CASE c \notin Owed(t)
    BY <2>1, <2>3 DEF FloorAfter
  <2>4. QED
    BY <2>2, <2>3
<1>3. FloorAfter(t) = [c \in Caches |-> FloorAfter(t)[c]]
  BY DEF FloorAfter
<1>4. QED
  BY <1>1, <1>2, <1>3

-----------------------------------------------------------------------------
(* Types                                                                     *)

\* The variables keep their types, and requests are as RequestOK says (Init and
\* every action).
THEOREM TypeCorrect == Spec => [](TypeOK /\ RequestsOK)
<1>1. Init => TypeOK /\ RequestsOK
  BY DEF Init, TypeOK, RequestsOK, Empty
<1>2. TypeOK /\ RequestsOK /\ [Next]_vars => (TypeOK /\ RequestsOK)'
  <2> SUFFICES ASSUME TypeOK, RequestsOK, [Next]_vars
               PROVE  (TypeOK /\ RequestsOK)'
    OBVIOUS
  <2>1. ASSUME NEW t \in Task, NEW r \in Request \union {None},
               task' = [task EXCEPT ![t] = r], r # None => RequestOK(r)
        PROVE  task' \in [Task -> Request \union {None}] /\ RequestsOK'
    BY <2>1 DEF TypeOK, RequestsOK
  <2>2. ASSUME NEW t \in Task, NEW path \in Path, NEW q \in Query, Begin(t, path, "read", q)
        PROVE  (TypeOK /\ RequestsOK)'
    <3>1. PICK r \in Request : task' = [task EXCEPT ![t] = r] /\ RequestOK(r)
      BY <2>2, BegunRequest
    <3>2. QED
      BY <2>1, <2>2, <3>1 DEF Begin, TypeOK
  <2>3. ASSUME NEW t \in Task, NEW path \in Path \ {"get"}, Begin(t, path, "mutate", None)
        PROVE  (TypeOK /\ RequestsOK)'
    <3>1. PICK r \in Request : task' = [task EXCEPT ![t] = r] /\ RequestOK(r)
      BY <2>3, BegunRequest
    <3>2. QED
      BY <2>1, <2>3, <3>1 DEF Begin, TypeOK
  <2>4. ASSUME NEW t \in Task, Reads(t)
        PROVE  (TypeOK /\ RequestsOK)'
    <3>1. PICK result \in Answer \union {Failure} :
            Computed(t, result) /\ (result # Failure => result.query = task[t].query)
      BY <2>4, ReadResult
    <3>2. PICK r \in Request : task' = [task EXCEPT ![t] = r] /\ RequestOK(r)
      BY <2>4, <3>1, ReadResult, ComputedRequest
    <3>3. QED
      BY <2>1, <2>4, <3>2 DEF Reads, TypeOK
  <2>5. ASSUME NEW t \in Task, Mutates(t)
        PROVE  (TypeOK /\ RequestsOK)'
    <3>1. PICK result \in Answer \union {Failure} : Computed(t, result)
      BY <2>5, MutateResult
    <3>2. PICK r \in Request : task' = [task EXCEPT ![t] = r] /\ RequestOK(r)
      BY <2>5, <3>1, MutateResult, ComputedRequest
    <3>3. QED
      BY <2>1, <2>5, <3>2, MutateResult DEF Mutates, TypeOK
  <2>6. ASSUME NEW t \in Task, AnswersRead(t)
        PROVE  (TypeOK /\ RequestsOK)'
    <3>1. task[t] \in Request /\ task[t].op = "read"
      BY <2>6 DEF AnswersRead, Responding, TypeOK
    <3>2. CacheKey(task[t].query) \in Key
      BY <2>6, KeyOfQuery DEF AnswersRead, Responding, RequestsOK, RequestOK
    <3>3. cache' \in [Caches -> [Key -> Answer \union {None, Failure}]]
      <4>1. CASE cache' = cache
        BY <4>1 DEF TypeOK
      <4>2. CASE cache' # cache
        <5>1. /\ UsesCache(t)
              /\ cache' = [cache EXCEPT ![task[t].path][CacheKey(task[t].query)] = task[t].result]
          BY <2>6, <4>2 DEF AnswersRead, Entry
        <5>2. task[t].path \in Caches /\ task[t].result \in Answer \union {None, Failure}
          BY <3>1, <5>1 DEF UsesCache, Caches, Request
        <5>3. QED
          BY <3>2, <5>1, <5>2 DEF TypeOK
      <4>3. QED
        BY <4>1, <4>2
    <3>4. QED
      BY <2>1, <2>6, <3>3 DEF AnswersRead, TypeOK
  <2>7. ASSUME NEW t \in Task, AnswersMutation(t)
        PROVE  (TypeOK /\ RequestsOK)'
    <3>1. cache' \in [Caches -> [Key -> Answer \union {None, Failure}]]
      BY <2>7 DEF AnswersMutation, TypeOK, Empty
    <3>2. raced' \in [Caches -> SUBSET Key]
      <4>1. ASSUME NEW c \in Caches
            PROVE  Outdated(c, floor'[c]) \subseteq Key
        BY KeyOfQuery DEF Outdated, Responding, RequestsOK, RequestOK
      <4>2. QED
        BY <2>7, <4>1 DEF AnswersMutation, TypeOK
    <3>3. QED
      BY <2>1, <2>7, <3>1, <3>2, FloorRises DEF AnswersMutation, TypeOK
  <2>8. CASE UNCHANGED vars
    BY <2>8 DEF vars, TypeOK, RequestsOK
  <2>9. QED
    BY <2>2, <2>3, <2>4, <2>5, <2>6, <2>7, <2>8, NextCases
<1>3. QED
  BY <1>1, <1>2, PTL DEF Spec

-----------------------------------------------------------------------------
(* Answers are own                                                           *)

\* What is cached under a key is the answer to a query with that key, and the
\* HTTP cache holds no failure.
EntriesOwn ==
  /\ \A c \in Caches, k \in Key :
       cache[c][k] \notin {None, Failure} =>
         cache[c][k].query \in Query /\ CacheKey(cache[c][k].query) = k
  /\ \A k \in Key : cache["http"][k] # Failure

\* Everybody gets the answer to his own question, and over HTTP his own failure
\* (the cache key, UsesCache and the permission check of the servers).
THEOREM OwnCorrect == Spec => []AnswersAreOwn
<1> DEFINE Inv == TypeOK /\ RequestsOK /\ EntriesOwn
<1>1. Init => EntriesOwn
  BY CacheAssumption DEF Init, EntriesOwn, Empty, Caches
<1>2. TypeOK /\ RequestsOK /\ EntriesOwn /\ [Next]_vars => EntriesOwn'
  <2> SUFFICES ASSUME TypeOK, RequestsOK, EntriesOwn, [Next]_vars
               PROVE  EntriesOwn'
    OBVIOUS
  <2>1. CASE UNCHANGED cache
    BY <2>1 DEF EntriesOwn
  <2>2. ASSUME NEW t \in Task, AnswersRead(t), cache' # cache
        PROVE  EntriesOwn'
    <3> DEFINE p == task[t].path
               k == CacheKey(task[t].query)
    <3>1. task[t] # None /\ task[t].op = "read" /\ task[t].step = "respond"
      BY <2>2 DEF AnswersRead, Responding
    <3>2. UsesCache(t) /\ cache' = [cache EXCEPT ![p][k] = task[t].result]
      BY <2>2 DEF AnswersRead, Entry
    <3>3. p \in Caches /\ (p = "http" => task[t].result # Failure)
      BY <3>2 DEF UsesCache, Caches
    <3>4. task[t].query \in Query /\ k \in Key
      BY <3>1, KeyOfQuery DEF RequestsOK, RequestOK
    <3>5. task[t].result \notin {None, Failure} => task[t].result.query = task[t].query
      BY <3>1 DEF RequestsOK, RequestOK
    <3>6. ASSUME NEW c \in Caches, NEW j \in Key
          PROVE  cache'[c][j] = IF c = p /\ j = k THEN task[t].result ELSE cache[c][j]
      BY <3>2, <3>3, <3>4 DEF TypeOK
    <3>7. ASSUME NEW c \in Caches, NEW j \in Key, cache'[c][j] \notin {None, Failure}
          PROVE  cache'[c][j].query \in Query /\ CacheKey(cache'[c][j].query) = j
      BY <3>4, <3>5, <3>6, <3>7 DEF EntriesOwn
    <3>8. ASSUME NEW j \in Key
          PROVE  cache'["http"][j] # Failure
      BY <3>3, <3>6 DEF EntriesOwn, Caches
    <3>9. QED
      BY <3>7, <3>8 DEF EntriesOwn
  <2>3. ASSUME NEW t \in Task, AnswersMutation(t)
        PROVE  EntriesOwn'
    <3>1. \A c \in Caches : cache'[c] = Empty \/ cache'[c] = cache[c]
      BY <2>3 DEF AnswersMutation
    <3>2. \A j \in Key : Empty[j] = None
      BY DEF Empty
    <3>3. "http" \in Caches /\ None # Failure
      BY CacheAssumption DEF Caches
    <3>4. QED
      BY <3>1, <3>2, <3>3 DEF EntriesOwn
  <2>4. QED
    BY <2>1, <2>2, <2>3, NextCases DEF Begin, Reads, Mutates, vars
<1>3. Inv => AnswersAreOwn
  <2> SUFFICES ASSUME Inv, NEW t \in Task, Responding(t, "read")
               PROVE  /\ task[t].query.id = None /\ Served(t) # Failure =>
                           \/ Served(t).query = task[t].query
                           \/ Served(t).query.id # None
                           \/ HasTextLimit(task[t].query) \/ HasTextLimit(Served(t).query)
                      /\ task[t].path # "ws" => (Served(t) = Failure <=> task[t].result = Failure)
    BY DEF AnswersAreOwn
  <2>1. /\ task[t].query \in Query /\ CacheKey(task[t].query) \in Key
        /\ task[t].result # None
        /\ task[t].result # Failure => task[t].result.query = task[t].query
    BY KeyOfQuery DEF Responding, RequestsOK, RequestOK
  <2>2. CASE Served(t) = task[t].result
    BY <2>1, <2>2
  <2>3. CASE UsesCache(t) /\ Cached(t) # None /\ Served(t) = Cached(t)
    <3>1. task[t].path \in Caches
      BY <2>3 DEF UsesCache, Caches
    <3>2. task[t].path # "ws" => Cached(t) # Failure /\ task[t].result # Failure
      BY <2>1, <2>3, <3>1 DEF UsesCache, Cached, EntriesOwn
    <3>3. ASSUME task[t].query.id = None, Cached(t) # Failure, Cached(t).query.id = None,
                 ~ HasTextLimit(task[t].query), ~ HasTextLimit(Cached(t).query)
          PROVE  Cached(t).query = task[t].query
      <4>1. Cached(t).query \in Query /\ CacheKey(Cached(t).query) = CacheKey(task[t].query)
        BY <2>1, <2>3, <3>1, <3>3 DEF Cached, EntriesOwn
      <4>2. QED
        BY <2>1, <3>3, <4>1, KeyNamesQuery
    <3>4. QED
      BY <2>3, <3>2, <3>3
  <2>4. QED
    BY <2>2, <2>3 DEF Served
<1>4. QED
  BY <1>1, <1>2, <1>3, TypeCorrect, PTL DEF Spec

-----------------------------------------------------------------------------
(* Answers are fresh                                                         *)

\* Data and floors only grow, so that what is compared with a floor keeps its
\* place: no request has a floor above that of its cache, no cache one above the
\* data, and no result is of a later version than the data.
FloorsBehind ==
  /\ \A c \in Caches : floor[c] <= version
  /\ \A t \in Task : task[t] # None =>
       /\ task[t].floor <= IF task[t].path \in Caches THEN floor[task[t].path] ELSE 0
       /\ task[t].result \in Answer => task[t].result.version <= version

Fresh(c, q, answer) == answer.version >= floor[c] \/ CacheKey(q) \in raced[c]

\* A read that is going to answer over a cache, and every entry of a cache, is as
\* new as the floor or was overtaken by the mutation that set it.
TasksFresh ==
  \A t \in Task :
    Responding(t, "read") /\ task[t].path \in Caches /\ task[t].result \in Answer =>
      Fresh(task[t].path, task[t].query, task[t].result)

EntriesFresh ==
  \A c \in Caches, k \in Key :
    cache[c][k] \in Answer => cache[c][k].version >= floor[c] \/ k \in raced[c]

FreshInv == FloorsBehind /\ TasksFresh /\ EntriesFresh

LEMMA FreshInductive ==
  TypeOK /\ RequestsOK /\ FreshInv /\ [Next]_vars => FreshInv'
<1> SUFFICES ASSUME TypeOK, RequestsOK, FreshInv, [Next]_vars
             PROVE  FreshInv'
  OBVIOUS
<1>1. version \in Nat /\ \A c \in Caches : floor[c] \in Nat
  BY DEF TypeOK
<1>2. ASSUME NEW t \in Task, NEW path \in Path, NEW op \in {"read", "mutate"},
             NEW q \in Query \union {None}, Begin(t, path, op, q),
             op = "read" => q \in Query, op = "mutate" => path # "get"
      PROVE  FreshInv'
  <2>1. PICK r \in Request :
          /\ task' = [task EXCEPT ![t] = r]
          /\ RequestOK(r)
          /\ r.result \in {None, Failure}
          /\ r.floor = IF r.path \in Caches THEN floor[r.path] ELSE 0
    BY <1>2, BegunRequest
  <2>2. UNCHANGED <<version, cache, floor, raced>>
    BY <1>2 DEF Begin
  <2>3. r.result \notin Answer
    BY <2>1, CacheAssumption
  <2>4. r.floor <= IF r.path \in Caches THEN floor[r.path] ELSE 0
    BY <1>1, <2>1
  <2>5. FloorsBehind'
    BY <2>1, <2>2, <2>3, <2>4 DEF FreshInv, FloorsBehind, TypeOK
  <2>6. TasksFresh'
    BY <2>1, <2>2, <2>3 DEF FreshInv, TasksFresh, Fresh, Responding, TypeOK
  <2>7. QED
    BY <2>2, <2>5, <2>6 DEF FreshInv, EntriesFresh
<1>3. ASSUME NEW t \in Task, Reads(t)
      PROVE  FreshInv'
  <2>1. PICK result \in Answer \union {Failure} :
          Computed(t, result) /\ (result # Failure => result.query = task[t].query /\ result.version = version)
    BY <1>3, ReadResult
  <2>2. PICK r \in Request :
          /\ task' = [task EXCEPT ![t] = r]
          /\ r.result = result /\ r.path = task[t].path /\ r.floor = task[t].floor
    BY <1>3, <2>1, ReadResult, ComputedRequest
  <2>3. UNCHANGED <<version, cache, floor, raced>> /\ task[t] # None
    BY <1>3, ReadResult DEF Reads
  <2>4. r.result \in Answer => r.result.version = version
    BY <2>1, <2>2, CacheAssumption
  <2>5. FloorsBehind'
    BY <1>1, <2>2, <2>3, <2>4 DEF FreshInv, FloorsBehind, TypeOK
  <2>6. TasksFresh'
    <3>1. ASSUME NEW u \in Task, Responding(u, "read")', task'[u].path \in Caches,
                 task'[u].result \in Answer
          PROVE  Fresh(task[u].path, task[u].query, task[u].result)'
      <4>1. CASE u = t
        <5>1. task'[u] = r
          BY <2>2, <4>1 DEF TypeOK
        <5>2. r.result.version >= floor[r.path]
          BY <1>1, <2>4, <3>1, <5>1 DEF FreshInv, FloorsBehind
        <5>3. QED
          BY <2>3, <5>1, <5>2 DEF Fresh
      <4>2. CASE u # t
        <5>1. task'[u] = task[u]
          BY <2>2, <4>2 DEF TypeOK
        <5>2. QED
          BY <2>3, <3>1, <5>1 DEF FreshInv, TasksFresh, Fresh, Responding
      <4>3. QED
        BY <4>1, <4>2
    <3>2. QED
      BY <3>1 DEF TasksFresh
  <2>7. QED
    BY <2>3, <2>5, <2>6 DEF FreshInv, EntriesFresh
<1>4. ASSUME NEW t \in Task, Mutates(t)
      PROVE  FreshInv'
  <2>1. PICK result \in Answer \union {Failure} :
          Computed(t, result) /\ (result # Failure => result.version = version')
    BY <1>4, MutateResult
  <2>2. PICK r \in Request :
          /\ task' = [task EXCEPT ![t] = r]
          /\ r.result = result /\ r.op = "mutate" /\ r.path = task[t].path /\ r.floor = task[t].floor
    BY <1>4, <2>1, MutateResult, ComputedRequest
  <2>3. /\ UNCHANGED <<cache, floor, raced>> /\ task[t] # None
        /\ version' \in Nat /\ version' >= version
    BY <1>4, MutateResult DEF Mutates
  <2>4. r.result \in Answer => r.result.version = version'
    BY <2>1, <2>2, CacheAssumption
  <2>5. \A a \in Answer : a.version \in Nat
    BY DEF Answer
  <2>6. FloorsBehind'
    <3>1. \A c \in Caches : floor'[c] <= version'
      BY <1>1, <2>3 DEF FreshInv, FloorsBehind
    <3>2. ASSUME NEW u \in Task, task'[u] # None
          PROVE  /\ task'[u].floor <= IF task'[u].path \in Caches THEN floor'[task'[u].path] ELSE 0
                 /\ task'[u].result \in Answer => task'[u].result.version <= version'
      <4>1. CASE u = t
        BY <2>2, <2>3, <2>4, <4>1 DEF FreshInv, FloorsBehind, TypeOK
      <4>2. CASE u # t
        <5>1. task'[u] = task[u]
          BY <2>2, <4>2 DEF TypeOK
        <5>2. QED
          BY <1>1, <2>3, <2>5, <3>2, <5>1 DEF FreshInv, FloorsBehind
      <4>3. QED
        BY <4>1, <4>2
    <3>3. QED
      BY <3>1, <3>2 DEF FloorsBehind
  <2>7. TasksFresh'
    BY <2>2, <2>3 DEF FreshInv, TasksFresh, Fresh, Responding, TypeOK
  <2>8. QED
    BY <2>3, <2>6, <2>7 DEF FreshInv, EntriesFresh
<1>5. ASSUME NEW t \in Task, AnswersRead(t)
      PROVE  FreshInv'
  <2>1. /\ task[t] # None /\ Responding(t, "read")
        /\ task' = [task EXCEPT ![t] = None] /\ UNCHANGED <<version, floor, raced>>
    BY <1>5 DEF AnswersRead, Responding
  <2>2. FloorsBehind' /\ TasksFresh'
    BY <2>1 DEF FreshInv, FloorsBehind, TasksFresh, Fresh, Responding, TypeOK
  <2>3. EntriesFresh'
    <3>1. CASE cache' = cache
      BY <2>1, <3>1 DEF FreshInv, EntriesFresh
    <3>2. CASE cache' # cache
      <4> DEFINE p == task[t].path
                 k == CacheKey(task[t].query)
      <4>1. UsesCache(t) /\ cache' = [cache EXCEPT ![p][k] = task[t].result]
        BY <1>5, <3>2 DEF AnswersRead, Entry
      <4>2. p \in Caches
        BY <4>1 DEF UsesCache, Caches
      <4>3. k \in Key
        BY <2>1, KeyOfQuery DEF Responding, RequestsOK, RequestOK
      <4>4. task[t].result \in Answer =>
              task[t].result.version >= floor[p] \/ k \in raced[p]
        BY <2>1, <4>2 DEF FreshInv, TasksFresh, Fresh
      <4>5. ASSUME NEW c \in Caches, NEW j \in Key
            PROVE  cache'[c][j] = IF c = p /\ j = k THEN task[t].result ELSE cache[c][j]
        BY <4>1, <4>2, <4>3 DEF TypeOK
      <4>6. QED
        BY <2>1, <4>4, <4>5 DEF FreshInv, EntriesFresh
    <3>3. QED
      BY <3>1, <3>2
  <2>4. QED
    BY <2>2, <2>3 DEF FreshInv
<1>6. ASSUME NEW t \in Task, AnswersMutation(t)
      PROVE  FreshInv'
  <2>1. /\ task[t] # None /\ version' = version
        /\ task' = [task EXCEPT ![t] = None]
        /\ cache' = [c \in Caches |-> IF c \in Clears(t) THEN Empty ELSE cache[c]]
        /\ raced' = [c \in Caches |-> IF c \in Clears(t) THEN Outdated(c, floor'[c]) ELSE raced[c]]
    BY <1>6 DEF AnswersMutation, Responding
  <2>2. /\ floor' \in [Caches -> Nat]
        /\ \A c \in Caches :
             /\ floor'[c] >= floor[c]
             /\ c \notin Clears(t) => floor'[c] = floor[c]
             /\ floor'[c] = floor[c] \/ (task[t].result \in Answer /\ floor'[c] = task[t].result.version)
    BY <1>6, FloorRises
  <2>3. FloorsBehind'
    <3>1. \A c \in Caches : floor'[c] <= version'
      BY <1>1, <2>1, <2>2 DEF FreshInv, FloorsBehind
    <3>2. ASSUME NEW u \in Task, task'[u] # None
          PROVE  /\ task'[u].floor <= IF task'[u].path \in Caches THEN floor'[task'[u].path] ELSE 0
                 /\ task'[u].result \in Answer => task'[u].result.version <= version'
      <4>1. task'[u] = task[u] /\ task[u].floor \in Nat
        BY <2>1, <3>2 DEF TypeOK, Request
      <4>2. QED
        BY <1>1, <2>1, <2>2, <3>2, <4>1 DEF FreshInv, FloorsBehind
    <3>3. QED
      BY <3>1, <3>2 DEF FloorsBehind
  <2>4. TasksFresh'
    <3>1. ASSUME NEW u \in Task, Responding(u, "read")', task'[u].path \in Caches,
                 task'[u].result \in Answer
          PROVE  Fresh(task[u].path, task[u].query, task[u].result)'
      <4>1. task'[u] = task[u] /\ Responding(u, "read")
        BY <2>1, <3>1 DEF Responding, TypeOK
      <4> DEFINE c == task[u].path
      <4>2. CASE c \in Clears(t)
        <5>1. raced'[c] = Outdated(c, floor'[c])
          BY <2>1, <3>1, <4>1, <4>2
        <5>2. task[u].result # Failure /\ task[u].result.version \in Nat /\ floor'[c] \in Nat
          BY <2>2, <3>1, <4>1, CacheAssumption DEF Answer
        <5>3. task[u].result.version < floor'[c] => CacheKey(task[u].query) \in Outdated(c, floor'[c])
          BY <4>1, <5>2 DEF Outdated
        <5>4. QED
          BY <4>1, <5>1, <5>2, <5>3 DEF Fresh
      <4>3. CASE c \notin Clears(t)
        <5>1. raced'[c] = raced[c] /\ floor'[c] = floor[c]
          BY <2>1, <2>2, <3>1, <4>1, <4>3
        <5>2. QED
          BY <3>1, <4>1, <5>1 DEF FreshInv, TasksFresh, Fresh
      <4>4. QED
        BY <4>2, <4>3
    <3>2. QED
      BY <3>1 DEF TasksFresh
  <2>5. EntriesFresh'
    <3>1. ASSUME NEW c \in Caches, NEW j \in Key, cache'[c][j] \in Answer
          PROVE  cache'[c][j].version >= floor'[c] \/ j \in raced'[c]
      <4>1. CASE c \in Clears(t)
        BY <2>1, <3>1, <4>1, CacheAssumption DEF Empty
      <4>2. CASE c \notin Clears(t)
        <5>1. cache'[c] = cache[c] /\ raced'[c] = raced[c] /\ floor'[c] = floor[c]
          BY <2>1, <2>2, <4>2
        <5>2. QED
          BY <3>1, <5>1 DEF FreshInv, EntriesFresh
      <4>3. QED
        BY <4>1, <4>2
    <3>2. QED
      BY <3>1 DEF EntriesFresh
  <2>6. QED
    BY <2>3, <2>4, <2>5 DEF FreshInv
<1>7. CASE UNCHANGED vars
  BY <1>7 DEF vars, FreshInv, FloorsBehind, TasksFresh, EntriesFresh, Fresh, Responding
<1>8. QED
  BY <1>2, <1>3, <1>4, <1>5, <1>6, <1>7, NextCases

\* An answer is no older than the mutations acknowledged before its request, unless
\* its key was overtaken (the look-up after the storage has answered, and the
\* clearing of the caches).
THEOREM FreshCorrect == Spec => []FreshUnlessRaced
<1>1. Init => FreshInv
  BY CacheAssumption DEF Init, FreshInv, FloorsBehind, TasksFresh, EntriesFresh, Responding, Empty
<1>2. TypeOK /\ RequestsOK /\ FreshInv => FreshUnlessRaced
  <2> SUFFICES ASSUME TypeOK, RequestsOK, FreshInv, NEW t \in Task,
                      Responding(t, "read"), Served(t) # Failure
               PROVE  \/ Served(t).version >= task[t].floor
                      \/ CacheKey(task[t].query) \in raced[task[t].path]
    BY DEF FreshUnlessRaced
  <2>1. /\ task[t] # None /\ task[t] \in Request /\ CacheKey(task[t].query) \in Key
        /\ task[t].result # None
    BY KeyOfQuery DEF Responding, RequestsOK, RequestOK, TypeOK
  <2>2. task[t].floor \in Nat
    BY <2>1 DEF Request
  <2>3. Served(t) \in Answer
    <3>1. UsesCache(t) => task[t].path \in Caches
      BY DEF UsesCache, Caches
    <3>2. UsesCache(t) => Cached(t) \in Answer \union {None, Failure}
      BY <2>1, <3>1 DEF Cached, TypeOK
    <3>3. QED
      BY <2>1, <3>2 DEF Served, Request
  <2>4. Served(t).version \in Nat
    BY <2>3 DEF Answer
  <2>5. CASE task[t].path \notin Caches
    BY <2>1, <2>2, <2>4, <2>5 DEF FreshInv, FloorsBehind
  <2>6. CASE task[t].path \in Caches
    <3> DEFINE c == task[t].path
    <3>1. floor[c] \in Nat /\ task[t].floor <= floor[c]
      BY <2>1, <2>6 DEF TypeOK, FreshInv, FloorsBehind
    <3>2. Served(t).version >= floor[c] \/ CacheKey(task[t].query) \in raced[c]
      BY <2>1, <2>3, <2>6 DEF Served, Cached, FreshInv, TasksFresh, EntriesFresh, Fresh
    <3>3. QED
      BY <2>2, <2>4, <3>1, <3>2
  <2>7. QED
    BY <2>5, <2>6
<1>3. QED
  BY <1>1, <1>2, FreshInductive, TypeCorrect, PTL DEF Spec

=============================================================================
