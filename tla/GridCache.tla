------------------------------ MODULE GridCache ------------------------------
(***************************************************************************)
(* The caches of encoded read answers of src/hs_py/fastapi_server.py       *)
(* (app.state._response_cache, app.state._ws_grid_cache) and of            *)
(* src/hs_py/ws_server.py (WebSocketServer._ws_grid_cache). Requests are   *)
(* tasks on one event loop; a task waits for the user store and for the    *)
(* storage, and looks its cache up when the storage has answered.          *)
(*                                                                         *)
(* The data is told apart by its version, which an op of _MUTATION_OPS     *)
(* raises; an answer by the request and the version it was computed from.  *)
(***************************************************************************)
EXTENDS Integers, Sequences, FiniteSets

CONSTANTS
  Path,      \* how requests come in, see Paths
  Query,     \* the first rows of the reads, see IsQuery
  Task,      \* requests served at the same time
  None, Failure,
  MaxCache   \* _MAX_CACHE_SIZE

\* "http" is POST on FastAPI, "get" its GET with query parameters, "ws" a JSON
\* message, single or in a batch, on either server, and "binary" a binary frame
\* of WebSocketServer.
Paths == {"http", "get", "ws", "binary"}
Caches == {"http", "ws"}

\* The first row of a read has a filter and perhaps a limit, or an id, or all of
\* them.  The text of a filter or limit is a sequence of the pieces between its
\* colons, and "" for one that is missing; that of a number is one piece.
Absent == <<"">>
NoLimit == [text |-> Absent, number |-> FALSE]
IsQuery(q) ==
  /\ q = [filter |-> q.filter, limit |-> q.limit, id |-> q.id]
  /\ q.limit = [text |-> q.limit.text, number |-> q.limit.number]
  /\ q.filter \in Seq(STRING) /\ q.limit.text \in Seq(STRING) /\ q.limit.number \in BOOLEAN
  /\ q.limit.number => Len(q.limit.text) = 1 /\ q.limit.text # Absent

Answer == [query : Query \union {None}, version : Nat]  \* None for an op that is no read

Request == [path : Paths, op : {"read", "mutate"}, query : Query \union {None},
            step : {"run", "respond"}, result : Answer \union {None, Failure}, floor : Nat]

ASSUME CacheAssumption ==
  /\ Path \subseteq Paths /\ MaxCache \in Nat \ {0}
  /\ None \notin Request /\ None \notin Answer /\ None # Failure /\ Failure \notin Answer
  /\ None \notin Query /\ \A q \in Query : IsQuery(q)

VARIABLES
  version,  \* of the data
  cache,    \* the caches, by key
  task,     \* requests being served
  floor,    \* newest version acknowledged by a request that clears the cache
  raced     \* keys of reads that were older than that and still under way then

vars == <<version, cache, task, floor, raced>>

\* f"read:{filter}:{limit}", with "" for what the row has not: the text of an id
\* is no part of it, and that of a number is that of the same text.
KeyWithoutLimit(q) == q.filter  \* mutant
CacheKey(q) == q.filter \o q.limit.text
Key == {CacheKey(q) : q \in Query}

\* ops.read takes a limit that is a text for none.
HasTextLimit(q) == q.limit # NoLimit /\ ~q.limit.number

TypeOK ==
  /\ version \in Nat
  /\ cache \in [Caches -> [Key -> Answer \union {None, Failure}]]
  /\ task \in [Task -> Request \union {None}]
  /\ floor \in [Caches -> Nat]
  /\ raced \in [Caches -> SUBSET Key]

Empty == [k \in Key |-> None]

Init ==
  /\ version = 0
  /\ cache = [c \in Caches |-> Empty]
  /\ task = [t \in Task |-> None]
  /\ floor = [c \in Caches |-> 0]
  /\ raced = [c \in Caches |-> {}]

-----------------------------------------------------------------------------
(* A request up to the answer of the storage                               *)

\* The user store was asked: a request that is refused has failed.
Begin(t, path, op, q) ==
  /\ task[t] = None
  /\ \E allowed \in BOOLEAN :
       task' = [task EXCEPT ![t] =
         [path |-> path, op |-> op, query |-> q,
          step |-> IF allowed THEN "run" ELSE "respond",
          result |-> IF allowed THEN None ELSE Failure,
          floor |-> IF path \in Caches THEN floor[path] ELSE 0]]
  /\ UNCHANGED <<version, cache, floor, raced>>

Running(t, op) == task[t] # None /\ task[t].step = "run" /\ task[t].op = op

Computed(t, result) == task' = [task EXCEPT ![t].result = result, ![t].step = "respond"]

\* ops.read looks for ids first; an empty filter does not parse, and anything may fail.
Found(q) == IF q.id = None /\ q.filter = Absent THEN {} ELSE {[query |-> q, version |-> version]}
Reads(t) ==
  /\ Running(t, "read")
  /\ \E result \in Found(task[t].query) \union {Failure} : Computed(t, result)
  /\ UNCHANGED <<version, cache, floor, raced>>

\* hisWrite, pointWrite or invokeAction; it may fail before or after the data changed.
Mutates(t) ==
  /\ Running(t, "mutate")
  /\ \/ /\ version' = version + 1
        /\ \E result \in {[query |-> task[t].query, version |-> version'], Failure} : Computed(t, result)
     \/ /\ Computed(t, Failure)
        /\ UNCHANGED version
  /\ UNCHANGED <<cache, floor, raced>>

-----------------------------------------------------------------------------
(* The answer                                                              *)

Responding(t, op) == task[t] # None /\ task[t].step = "respond" /\ task[t].op = op

\* On HTTP a failure is an exception that passes the cache by; a WebSocket
\* makes it an error grid and goes on.
UsesCache(t) ==
  \/ task[t].path = "ws"
  \/ task[t].path = "http" /\ task[t].result # Failure

Cached(t) == cache[task[t].path][CacheKey(task[t].query)]

Served(t) == IF UsesCache(t) /\ Cached(t) # None THEN Cached(t) ELSE task[t].result

Entries(c) == {k \in Key : cache[c][k] # None}

HasRoom(c) == Cardinality(Entries(c)) < MaxCache

\* _cached_grid_response and _cached_grid_bytes, for a read.
Entry(t) == task[t].result

AnswersRead(t) ==
  /\ Responding(t, "read")
  /\ cache' = IF UsesCache(t) /\ Cached(t) = None /\ HasRoom(task[t].path)
              THEN [cache EXCEPT ![task[t].path][CacheKey(task[t].query)] = Entry(t)]
              ELSE cache
  /\ task' = [task EXCEPT ![t] = None]
  /\ UNCHANGED <<version, floor, raced>>

\* A mutation over HTTP clears both caches, unless it failed; one over a
\* WebSocket clears that cache only, whether it failed or not; one in a binary
\* frame clears none.
ClearsOwn(t) == {task[t].path} \intersect Caches  \* mutant
Clears(t) ==
  CASE task[t].path = "http" -> IF task[t].result = Failure THEN {} ELSE Caches
    [] task[t].path = "ws" -> {"ws"}
    [] OTHER -> {}

\* The caches that an acknowledged mutation is expected to have cleared.
Owed(t) ==
  IF task[t].result = Failure \/ task[t].path = "binary" THEN {}
  ELSE IF task[t].path = "ws" THEN {"ws"} ELSE Caches

FloorAfter(t) ==
  [c \in Caches |->
     IF c \in Owed(t) /\ task[t].result.version > floor[c]
     THEN task[t].result.version ELSE floor[c]]

\* Reads of c under way that were computed before the version f.
Outdated(c, f) ==
  {CacheKey(task[u].query) : u \in {v \in Task :
     Responding(v, "read") /\ task[v].path = c /\ task[v].result # Failure /\ task[v].result.version < f}}

AnswersMutation(t) ==
  /\ Responding(t, "mutate")
  /\ cache' = [c \in Caches |-> IF c \in Clears(t) THEN Empty ELSE cache[c]]
  /\ floor' = FloorAfter(t)
  /\ raced' = [c \in Caches |-> IF c \in Clears(t) THEN Outdated(c, floor'[c]) ELSE raced[c]]
  /\ task' = [task EXCEPT ![t] = None]
  /\ UNCHANGED version

Next ==
  \E t \in Task :
    \/ \E path \in Path, q \in Query : Begin(t, path, "read", q)
    \/ \E path \in Path \ {"get"} : Begin(t, path, "mutate", None)
    \/ Reads(t)
    \/ Mutates(t)
    \/ AnswersRead(t)
    \/ AnswersMutation(t)

Spec == Init /\ [][Next]_vars

-----------------------------------------------------------------------------
(* Properties                                                              *)

\* A read is answered with data no older than every mutation that was
\* acknowledged, on a path that clears its cache, before it came in, unless a
\* read of the same key was overtaken by the last such mutation and put back
\* what it had computed before it ("The cache ... is cleared on entity
\* mutations", fastapi_server.py:440, and _cached_grid_bytes).
FreshUnlessRaced ==
  \A t \in Task :
    Responding(t, "read") /\ Served(t) # Failure =>
      \/ Served(t).version >= task[t].floor
      \/ CacheKey(task[t].query) \in raced[task[t].path]

\* Nobody is answered with what belongs to another, whatever was asked before: who
\* asks with a filter and a limit gets the rows of that filter and that limit, unless
\* one of the two asked with a text for a limit, whose key may be that of a number
\* it is not, or the answer was that of a read by id; and over HTTP nobody gets the
\* failure of another, nor who was refused the data of another
\* (_check_op_permission, _cached_grid_response).
AnswersAreOwn ==
  \A t \in Task :
    Responding(t, "read") =>
      LET asked == task[t].query IN
      /\ asked.id = None /\ Served(t) # Failure =>
           \/ Served(t).query = asked
           \/ Served(t).query.id # None
           \/ HasTextLimit(asked) \/ HasTextLimit(Served(t).query)
      /\ task[t].path # "ws" => (Served(t) = Failure <=> task[t].result = Failure)

\* "Read entities by id or filter" (src/hs_py/ops.py:121): a read by id is
\* answered with that entity.
IdReadsAreOwn ==
  \A t \in Task :
    Responding(t, "read") /\ task[t].query.id # None /\ Served(t) # Failure =>
      Served(t).query = task[t].query

=============================================================================
