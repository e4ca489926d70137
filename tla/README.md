# Verification of hs-py in TLA+

hs-py is a Python implementation of Project Haystack: a client and two servers
(HTTP and WebSocket), three storage adapters, an ontology, a filter language
and the wire encodings. Each process is one asyncio event loop, so two pieces
of code interleave only at an `await`; several processes may share one Redis or
PostgreSQL. The modules here model the parts whose behaviour depends on order
(watches, deltas, handshakes, caches, users, calls, connections, chunked
transfer) and the pure parts that several pieces of code must agree on (filters
against what the stores make of them, the encodings against each other, the
index, taxonomy and reflection of an ontology). Paths below are relative to
`src/src/hs_py/` unless they begin with `tests/` or `docs/`.

Contents: 1 inventory, 2 how the parts interact, 3 hard behaviours, 4 the modules,
5 modules and code, 6 runs and bounds, 7 fairness, 8 proofs, 9 where code and
documentation differ, 10 what is not modelled.

## 1 Inventory

| Component | State | Operations | What makes it correct |
|---|---|---|---|
| `watch.py` WatchState, WatchAccumulator, apply_filter | entities by id, on either side | compute_delta, update, filter; apply_delta | the accumulator is exactly what the server saw; it converges |
| `storage/protocol.py` StorageAdapter | — | the methods every adapter offers | watches: a poll tells every pending change and clears exactly those |
| `storage/memory.py` | entities, tag index, column cache, watches, histories, priority arrays, users | load, read, nav, watch, history, point, user methods; none awaits | no change missed, index and cache agree with the entities, history and priority array keep their limits |
| `storage/redis.py` | the same as keys of Redis, and a process-local read cache | one or more commands per method, pipelines are MULTI/EXEC | the same with interleaved requests and failing commands |
| `storage/timescale.py` | the same as tables, and a process-local read cache | one or more statements per method, watch methods in a READ COMMITTED transaction | the same with concurrent transactions |
| `_scram_core.py`, middleware in `fastapi_server.py`, `auth_types.py` | handshake and token tables | HELLO, client-first, client-final, bearer check | limits, one token per handshake and in time, nobody is refused or dropped without need |
| Answer caches of `fastapi_server.py` and `ws_server.py` | encoded answers by key | look-up, fill, clear | an answer belongs to its question and is as new as the last acknowledged mutation |
| `fastapi_server.py` routes and permissions | — (users in the store) | one route per op, user routes, WebSocket endpoint | an op runs only for a role that may run it |
| `user.py`, `bootstrap.py` | user records | create, update, delete, ensure_superuser | no lost update; an administrator remains |
| `ws_server.py` WebSocketServer | connections, their count, cache | start, stop, message loop, batches, push_watch | count and limit agree, stop ends, each request is answered once |
| `ws_codec.py` | chunk buffers by key | encode and decode frames, feed, cleanup | a payload is one transfer, nothing is left over |
| `ws.py` | protocol machine, read buffer, heartbeat task | handshake, send, recv, close | each message once and in order |
| `ws_client.py` WebSocketClient | pending calls by id, receive task | call, batch, close, authentication, capabilities | each call gets its own answer or an error, none stays pending |
| `ws_client.py` ReconnectingWebSocketClient | loop task, inner client, delay, callback | start, stop, on_watch_push, connect loop | one receiver, callback kept, stop ends all, connects again |
| `ws_client.py` ChannelClient, WebSocketPool | channels, connections | call by channel, pick a connection | an answer goes to its channel |
| `client.py`, `auth.py` | token, session | login, call, re-authentication on 401 | one re-authentication serves concurrent calls |
| `ops.py` | — | grids to storage calls | error and permission paths |
| `filter/` | — (pure) | lexer, parser, evaluation | agrees with the meaning of the tree |
| `ontology/` | name index, taxonomy, caches of supertypes | load, lookup, fit, inheritance, normalize, reflect | index and caches agree with the defs; cycles are found |
| `encoding/`, `kinds.py`, `grid.py`, `convert.py`, `content_negotiation.py` | — (pure) | values to text and back | round trip |
| `redis_ops.py`, `tls.py`, `metrics.py`, `errors.py`, `__main__.py` | — | wiring | — |

`PROJECT.json` lists the same parts as components with their status, and the
hazards line by line.

## 2 How the parts interact

- A server (FastAPI or WebSocketServer) turns a request into a call of
  `HaystackOps`, which calls the storage adapter and answers a grid. Between the
  request and the answer it awaits the user store (permission) and the storage;
  the answer cache is looked at *after* the storage has answered.
- The embedding program loads entities and then tells the adapter
  (`mark_dirty`, or the dirty set or column of the data base; nothing in
  `storage/` does it by itself). A holder of a watch polls, or the embedding
  program computes deltas with WatchState and pushes them with `push_watch`.
- The client merges what it is told with WatchAccumulator, the same class for
  deltas and for the whole rows of `watchPoll`.
- SCRAM needs the user store once, at HELLO. Everything afterwards works with
  the credentials read then.
- On a binary WebSocket the tasks that push and the loop that answers send
  chunks in turns; the client's receive loop puts them together and hands
  payloads to pending calls and to the watch callback.
- ReconnectingWebSocketClient owns one WebSocketClient at a time and a task
  that replaces it; the user's calls come from other tasks.

## 3 Hard behaviours

- Orders of several actors: change, mark, subscribe, drop and poll; push while
  entities change; two requests on one watch; a read overtaken by a mutation;
  HELLO calls that wait together; a stop that meets any await of the connect
  loop; chunks of two transfers with one key.
- Partial failure: a Redis command fails after the dirty set was deleted, or is sent
  again since its answer was late; a transaction rolls back, or is committed and its
  answer is lost; `on_connect` raises after the connection is up; a
  mutation changes data and then fails.
- Time: handshakes, tokens and chunk buffers that expire while in use, late and
  repeated messages.
- Limits: handshake and token tables, answer caches, the back-off delay.
- Staleness: a token, a password, a role or a cached answer that was right when
  it was read and is used after an await; caches that are never emptied.
- Liveness: a marked change reaches a holder that polls, a stream of deltas
  converges, stop returns, a client that is not stopped gets connected, a
  transfer arrives.

## 4 The modules

| Module | Of | Checked in | Proofs |
|---|---|---|---|
| WatchContract | abstract promise of a watch, implemented by InMemoryAdapter | memory_watches | refinement |
| InMemoryAdapter, WatchPollClient | adapter; adapter composed with a holder and its accumulator | memory_watches | safety |
| WatchRows, WatchDelta | delta operators; server, wire and client of a watch | pushes | safety |
| ReconnectingClient | connect loop | pushes | safety |
| ChunkTransfer | chunked payloads | pushes (liveness), connections (safety) | safety |
| ScramServer | handshakes and tokens | servers | safety |
| RedisWatch | watches over a shared Redis | servers | safety |
| TimescaleWatch | watches over a shared PostgreSQL | stores, timescale_lost | safety |
| UserStore | user routes, user records, start of servers | stores | safety |
| GridCache | answer caches and permissions | answers, grid_cache_ids | safety |
| Filters, FilterRead | evaluation of filters; reads by filter on three stores | stores, filter_answers | safety |
| Service | calls that read and write points, from role check to answer | stores, batch_write | safety |
| Encodings, Interchange | JSON v4 and v3, Zinc, Trio; a grid on its way through them | answers | |
| Ontology | names, supertypes, reflection, compilation | stores | safety |
| WsCalls | calls and batches on one connection | connections | safety |
| WsServer | connections, login, capabilities, pushes, stop | connections, stop_waits | safety |
| HttpClientAuth | login, shared token and retry of the HTTP client | connections, reauthentication | safety |

WatchPollClient composes the adapter with a client; WatchDelta is server, wire
and client in one; InMemoryAdapter is shown to implement WatchContract, the
abstract specification (RedisWatch and TimescaleWatch implement it only up to
their lost notifications, which they state instead). The modules MCPushes,
MCServers, MCStores, MCAnswers and MCConnections check several parts in one run: a
behaviour picks one part at the start, and the others stay as they are. That is
sound because the parts have no state in common, and it checks exactly what one
run per part would; the module EXTENDS one part and takes the others with
INSTANCE. MCFilters, MCGrids and MCDefs hold the stores, filters, grids and libs
that are checked. `..._proofs` modules hold the theorems: about one component, or
about all components of a composed module, under its specification. MCStores takes
FilterRead and Ontology from their proof modules, so that MCStores_proofs can cite
what is proved there of the very instances that the run checks.

## 5 Modules and code

`PROJECT.json` maps each definition to its lines. Definitions marked `mutant`
are wrong variants of the definition below them; no specification uses them.
They show for each property what change of the code would break it.

**WatchContract** — what `watch_sub`, `watch_unsub`, `watch_poll` promise:
a watch is a set of subscribed entities and a set of pending changes; a poll
answers the pending entities that exist, or all of the watch on request, and
then nothing is pending; closing leaves nothing. A subscription may count its
new entities as pending already (TimescaleDB does, the others do not).

**InMemoryAdapter** — `storage/memory.py`. No method awaits, so each is one
action: `LoadEntity` (load_entities, entity by entity), `ReadColNames`,
`NewWatch`/`ExtendWatch` (watch_sub), `WatchUnsub`/`WatchClose`, `WatchPoll`,
`MarkDirty`. An entity dict is the set of its tags: replacing it is told apart
by the tags, which is all the index, the columns and a filter `Has` look at.
`view` (what the holder was last told) and `unmarked` (loaded, mark_dirty still
to come) belong to the embedding program. A watch id that is unknown changes
nothing in the code (`watch_poll` answers no rows, `watch_unsub` returns), and the
model has no step for it. Watch ids are drawn at random; the model takes any id
that is not in use, so also one used before, which is the harder case.

**WatchPollClient** — the adapter, and a holder that merges every answer into a
`WatchAccumulator` as the guide does. `NoTagMissing` says that nothing a settled
entity has is missing there. The converse is false and no property: whole rows
never name a tag with REMOVE, so the accumulator keeps a tag the entity has
lost (section 9).

**WatchRows, WatchDelta** — `watch.py`. WatchRows has `compute_delta`, `update`,
`apply_delta` and `apply_filter` as operators on functions from entities to
rows. WatchDelta is one watch: `Push` (filter, compute_delta and the beginning
of the send), `FinishPush` (the send is over, `update`), `Receive`, `Change`,
`Reconnect` (both ends start afresh). Entities change between Push and
FinishPush; the wire is in order and loses nothing until it breaks.

**ScramServer** — `_scram_core.py`. HELLO is two actions, since it awaits the
user store (`HelloReads`; then `HelloAdmitted` or `HelloRefused`); the other
requests are one step each: `ClientFirst`, `ClientFinal`, `WrongFinal`,
`ScramGarbled`, `ScramExpired`, `BearerExpired`. Every request about a token of
the table may arrive at any time and any number of times, so that loss, delay
and repetition need no network. A random string is the number of its draw: two
are never equal. The arithmetic of SCRAM is whether the proof was made from the
nonce and the password of the handshake.

**RedisWatch** — `storage/redis.py`. A request is a task that sends its commands
one by one: EXISTS; HSET and SADD; MULTI; the load of the rows; the answer. Any
command may fail, the holder may stop waiting while the server goes on, and two
requests interleave anywhere. The client sends a command again that is not
answered in time, or whose connection breaks (`create_redis_client`, 263-276: three
more tries; the model takes any number): a command that went unanswered
(`Unanswered`) is in `late` and may run at any later time, once, more often or never
(`RunsLate`), while its request sends it again or ends. So a MULTI of watch_poll may
have taken the dirty set before the one that is answered. An entity is the number
of its version. The embedding program puts ids into dirty sets. `lost` and `raced`
are histories: what was taken from a dirty set, or added, by a command or a poll
whose answer did not arrive, until a later answer tells it; and watches closed while
an SADD to them was to come.

**TimescaleWatch** — `storage/timescale.py`. `watch_sub` and `watch_poll` are
transactions of two or three statements, `watch_unsub` is a single one. What
PostgreSQL does at READ COMMITTED is modelled as far as these statements meet
it: a statement sees what is committed when it begins; writers of one row wait
for each other; a new row needs its parent and holds it; a deleted parent takes
its rows along. `passed` is the history of flags that were set while a poll had
read and not yet cleared them. COMMIT (`Commits`) and the answer (`Answers`) are two
steps: the reply to COMMIT, the request or the holder may be lost between them
(`AnswerIsLost`), and then the flags are cleared with nobody told, which the
history `untold` records. What fails before COMMIT ran is undone (`RollsBack`).

**UserStore** — the user routes of `fastapi_server.py` (743-877), the user
methods of the three stores, `ensure_superuser` of `bootstrap.py`. A request
asks the store who its caller is (`Ask`) and acts later (`Create`, `Update`,
`Delete`); Redis and TimescaleDB write in a second step (`Set`), Redis whatever
is there by then. A starting server lists the users (`List`, on Redis key by
key), then decides (`Seed`) and, on Redis, writes (`SeedSet`). `disturbed` is a
history: an administrator went away while the server was starting. Which field
of a record is updated matters only for the role and the enabled flag; an update
of none of the two stands for the names and the password.

**FilterRead, Filters** — `filter/eval.py` and `filter/ast.py`, and
`read_by_filter` of the three stores. `Filters` says what a tree means
(`Matches`: paths through Refs, units, mixed kinds). `FilterRead` says how it is
answered: by the tag index or evaluation (`ReadMemory`), by SQL over the JSON of
the tags (`Query` with `SqlAnswers`: what a cast of the wrong text does, and that
PostgreSQL chooses the order of the operands), by a RediSearch query
(`FtAnswers`), or by listing and evaluating (`List`, `Fetch`, `Scan`). `ReadCached`
and `Keep` are the read caches, whose key is the text of the translation. `past`
is every content the store has had, so that an answer can be compared with those
since its question. A tree is the sequence of its nodes in post-order, each with
the positions of its operands, and a value of it is a function over these
positions (`NodeAt`, `FromLeaves`): the code recurs over the tree, and this form
can be reasoned about. `MaxScan` and `MaxFt` are the caps: TimescaleDB scans any 50,000
rows for a filter
it does not translate, Redis any 50,000 ids if no tag narrows, and a search gives
10,000 documents at most; `Cut` names the answers such a cap may have cut. A number
has a form, which is how `str()` writes it: as an int, with a point or with an
exponent. `Parameter` is that text; PostgreSQL writes the number of a JSONB document
without an exponent (`JsonText`), so that the SQL of `==` asks whether the two are
written alike (`Alike`), while `evaluate` compares the numbers. Two texts are ordered
as `TextOrder` says. No text among the values reads as a number.

**Service** — a call from its role check to its answer: `Check`, `Body` (415, or a
body that is no grid), `HisWrite`, `PointWrite` or `Read`, and `Respond` (406),
over `fastapi_server.py`, `ops.py` and the point and history methods of the
stores; `ChangeRole` comes between any two. The stores differ in what they take
of a row (`Taken`, `Stored`), in what fails (`Refuses`, `WritesNothing`), in what
is cut (`Capped`) and in the order of the answer. A batch names its second point
in a tag that hisWrite does not read.

**Encodings, Interchange** — `encoding/json.py`, `zinc.py`, `trio.py`,
`scanner.py`, `content_negotiation.py`. A value is its kind and what the codecs
tell apart (class of a number, lead of a text, zone of a datetime, depth); each
codec is an encoder to terms of its own and a decoder from them, with its
dispatch, escapes and limits. `Hop` is one encoding and one decoding of a grid,
`OtherTraffic` another grid that fills the process-wide cache of datetimes.
`GridKept` says for each format, without the codecs, what survives. A zone is known by its
city, which is what is written. `DATETIME_RE`
reads names of an upper-case letter and letters, digits, `_` and `/`: of `GMT+5` and
`GMT-5` it takes `GMT` and leaves the rest to what comes next, of `localtime`
nothing, of `Port-au-Prince` a name that is no zone, which is a KeyError
(`UnknownZones`, `ZoneTaken`, `Cut`; in a list or dict the rest is one more part or
refuses the whole, `LeftInList`, `WithLeft`). `MaxDecodeDepth` stands for 64 of JSON
and Zinc, `MaxTrioDepth` for the 32 of records within records. A grid within a list
or dict has lines of its own, which parse_trio refuses as tag lines
(`RefusedInTrio`). The stamps of a grid are at its values, one to a line of Trio.

**Ontology** — `ontology/namespace.py`, `normalize.py`, `reflect.py`,
`taxonomy.py`: `AddLib`, `Compile` and `Ask` (which fills the cache of all
supertypes). The walk through the supertypes is its levels, of which there are no
more than names (`Ups`, `Visited`). The prefix of a symbol is a
sequence of parts, since `is_conjunct` finds a dash in it as well. Cycles, conjuncts with
and without prefix, defs that replace others
and supertypes that are not there are among the libs of MCDefs.

**WsCalls** — `_call`, `batch`, the receive loop and `close` of `WebSocketClient`.
A task enters its futures and sends (`Start`, `SendDone`, `SendFails`), waits
(`Resume`, `Timeout`, `Cancel`) and calls again (`CallAgain`); the server takes
messages in turn or as they get done and cuts long batches (`Serve`); the receive
loop hands answers over (`Deliver`) until the connection or a message ends it
(`ReceiverEnds`). `WireIds` are the ids a binary frame can name (16 bits), while
`nextId` counts on. Requests and answers carry the task that made them, which
the real messages do not: it is what `RightAnswer` compares. A channel of
`WebSocketPool` is a task here, without batches and frames.

**WsServer** — `WebSocketServer` and the login side of the client: `Connect`,
`Accept`, `LoginStep`, `Capabilities`, `HandlerEnds`, `Finally`, `Closed` are the
handler of one connection, `ClientLogin`, `ClientCaps`, `ClientReads`,
`ClientLeaves` its client, `Stop`, `StopWaited`, `StopDone`, `Restart` the
server. A connection is tracked before its client has logged in, so `Push`
reaches clients in the middle of the handshake. `wait_closed` returns when the
transports are gone (`TransportClosed`), so handlers may have their `finally` still
before them when stop sets the count to 0: `forgotten` is their number, by which the
count is too low from then on, and a server that starts again lets in as many too
many. A handler also ends by the ten seconds and the errors of the WebSocket
handshake (`HandlerEnds`). What is answered once the login
is done is GridCache's and Service's.

**HttpClientAuth** — `Client` of `client.py` with `authenticate` of `auth.py`:
`Begin` (with the token there is, or a login), `Hello`, `Scram`, `Send` (the retry
after a 401 is the same action with `sent` = 0), `LoginLost`, `Close` and `Reopen`.
The server may forget tokens (`Expire`) and handshakes (`Forget`), get a new password
(`NewPassword`) and open no handshake for a while (`Refuse`, `Admit`: the user is
unknown or disabled, or the table is full, `_scram_core.py:130-137`). Its 401 to such
a HELLO still names SCRAM and no handshake, so the client goes on and fails at
client-first; an answer of any other status fails at HELLO (`auth.py:82-101`). Both
are AuthErrors. A client that was closed after a login has no password left for
the next one. `happened` is the history of these.

**GridCache** — both caches of the FastAPI application and that of
WebSocketServer. A request waits for the permission check (`Begin`), then for
the storage (`Reads`, `Mutates`, each of which may fail, a mutation also after
it changed data), then looks its cache up and answers (`AnswersRead`,
`AnswersMutation`). Paths: POST, GET (no cache), a JSON message, a binary
message (no cache). `Clears` is what the code clears, `Owed` what an
acknowledged mutation is expected to clear; they differ as the properties say. A
read has a filter, a limit and an id, each perhaps missing. `CacheKey` is the text the
code puts together, as the sequence of its pieces between colons: the limit enters it
as it came, so the number 10 and the text "10" have one key, while `ops.read` takes a
text for no limit; an id is no part of it; a colon in a filter does not part it
from the limit.
Formats are left out: each format has its keys to itself.

**ReconnectingClient** — `ReconnectingWebSocketClient`. `pc` is the await at
which the task of `_connect_loop` stands; a cancellation by `stop` can reach it
at each of them and has another effect in each (`CancelledInTry`,
`CancelledReceiver`, `CancelledOutside`). An inner client is whether its
receive loop runs. `raised` are connections on which `on_connect` raised: the
code drops such a client without closing it, and the properties name this.

**ChunkTransfer** — `encode_chunked_frames` and `ChunkAssembler` of
`ws_codec.py`, the sends in `push_watch` and `_handle_binary_message`
(`ws_server.py`) and the receive loop of `ws_client.py`. Every push has the key
`(0, "watchPoll")`, every answer one of its own. `tainted` is the history of the
keys on which two transfers were under way together or a buffer expired.

## 6 Runs and bounds

Six runs hold, six show a divergence. Sizes are distinct states.

| Run | Bounds | States | Shows |
|---|---|---|---|
| memory_watches | 1 watch, 2 entities, 1 tag | 19,850 | the adapter implements the contract; no change is missed; the index misses nothing; a polling holder is told; its accumulator lacks nothing |
| pushes | deltas: 2 entities, 2 tags, 2 values, 2 deltas on the wire, 3 changes; client: 3 inner clients, 2 callbacks, delays 1 to 6; chunks: 1 push and 1 answer of 2 or 3 chunks, 2 keys, 1 frame on the wire, 3 transfers | 129,954 | the accumulator is the grid of the delta merged last, and converges; one receiver, stop ends all and returns, connects again; a transfer that met no other arrives |
| servers | handshakes: 2 waiting HELLOs, tables of 2, time to 2, 9 draws; Redis watches: 1 watch, 2 entities, 2 requests, 2 changes or 1 and an unanswered command | 1,650,697 | limits, one token per handshake and in time, losses and refusals only when the tables are full; a change is missed only with a lost answer, a leftover only after a race with an SADD |
| stores | watches of TimescaleDB: 1 watch, 2 entities, 2 transactions, 2 changes or untold entities; users: 2 names, 2 requests, 2 servers; points: 2 points, 2 calls, a history of 1; reads: 2 readers, 1 load, 20 filters, limits, room for 1, caps of 2; ontology: 6 libs, 3 loads | 1,403,691 | a notification is lost only between the two statements or with the answer of a committed poll; deleted users stay deleted, the last administrator goes only as stated, a server starts with one; no change without leave or behind an error; the sample written last is read; the stores answer as evaluate does where the property says; reflection agrees with the taxonomy |
| answers | caches: 4 paths, 2 requests, room for 1, 2 versions, reads by filter, id and limits that are numbers or texts; grids: every kind at every place, 3 hops | 3,065,989 | answers are of the same question and as fresh as stated; formats keep what they can and lose at once |
| connections | calls: 2 tasks, 3 ids of which 2 fit a frame, batches of 2 cut to 1; server: 2 clients, room for 1, 1 push; chunks: 2 pushing tasks and the loop, 3 transfers; HTTP: 2 tasks, 2 calls each, 3 tokens | 3,116,829 | each grid answers its own call, futures are settled once, entries have owners; places are counted, but for those a stop forgot; a login fails only by refusal or a push; payloads mix only where transfers met; a request runs once; an AuthError has a cause |
| timescale_lost, grid_cache_ids, batch_write, reauthentication, filter_answers, stop_waits | small | — | the six divergences of section 9 |

Why these bounds are enough to meet the interesting cases:

- One watch: watches share only the entities, and no action of one touches the
  sets of another (the proofs hold for any number). Two entities: one that
  changes and one that must not be disturbed.
- Deltas: three changes let an entity be created, changed and deleted, or
  lose a tag and get it back, while two deltas are under way.
- servers: nine draws are three handshakes from HELLO to token with
  room for two; a time-out and a lifetime of 1 leave room for an event
  before, at and after the limit. One user and one password suffice since a
  handshake carries its own credentials, and the stored ones may change or
  vanish; the proofs hold for any. Of the Redis watch, two changes, or one change and one
  command that goes unanswered: a poll that ran unanswered and is
  sent again, with a change before it, is within the bound, and so is a close or an
  SADD that runs after the next request.
- stores: two changes give a version before, between and after two requests; two
  requests are the least that overlap, and the races named in the properties
  need no third. Two usernames are an administrator and another, either of whom
  acts on either; two servers are the least that seed at once. Entities, servers
  and points share their two names, so that one symmetry serves the three parts. Point
  writes: two
  rows of one millisecond, rows out of order, one before 1970 and one of a kind a
  history cannot hold, with levels 0, 1, 17 and 18 around the valid ones; a
  history of one sample is cut by the second. Filters: a leaf of every kind, paths,
  And in Or, Or in And, comparisons of equal shape with different values; stores in
  which a tag is absent, of another kind, with and without a unit, and behind a Ref;
  room for one answer, so that a full cache is met; three entities after a load with
  caps of two; areas written 1, 1.0 and with an exponent, and a text that is less than
  another. The proofs hold for any number
  of each, for every filter and every set of libs.
- answers: room for one answer, as above; two versions are one
  stale and one fresh answer. Grids: each format follows each other, and itself
  twice; a depth limit of 4 stands for 64 with lists of 2 to 5 levels around it, one of 1
  for the 32 of Trio with records in records. The rows of reads share a filter, a
  limit as a number and as a text, and an id with and without a filter.
- connections: a third id wraps beyond the two that fit a frame; a batch of two
  cut to one leaves one unanswered. Two clients and room for one meet the limit; one
  push finds either of them at every place.
  Three transfers let two meet and a third come after them on the same key; two
  and three chunks give mixtures of different totals; a wire of one frame is the
  longest blocking. Ages count up to the limit only. Three tokens allow a login,
  an expiry and the logins of two tasks after it.
- The reconnecting client: with three names two clients may have been left
  behind while a third is in use; the delay reaches its limit in three attempts
  (1, 2, 4, 6).

The bounds are constants, named in the `.cfg` files and commented where they are
declared (`MaxQueue`, `MaxChanges`, `MaxTime`, `MaxFresh`, `MaxVersion`, `MaxWire`,
`MaxTransfers`, `MaxRequests`, `MaxLoads`, `MaxReloads`, `MaxCalls`, `MaxHops`, `MaxLibs`,
`MaxIds`,
`MaxSize`, `MaxPushes`, `MaxTokens`, `MaxLate`; `MaxChanges` counts unanswered commands and
untold entities as well). `OnConnectRaises` needs a name left over for
the next client, a bound noted there. Symmetry is used only in runs without
liveness (servers, stores, answers, connections, batch_write). The deadlock test is on in
memory_watches and servers; it is off where a bounded number of
requests, transfers, hops or ids comes to its end (pushes, stores, answers,
connections and four of the small runs).

## 7 Fairness

Safety runs assume none. The others assume what the event loop and the
documented use give:

- memory_watches (`PFairSpec`): an entity that was loaded is marked some day,
  which is what the embedding program has `mark_dirty` for, and a holder that
  keeps its watch polls it. Weak fairness is enough: a poll of an open watch
  stays possible. Nothing is assumed of loads, subscriptions and closes.
- pushes, deltas: the server pushes, its send ends, the wire delivers (weak
  fairness), and the connection breaks only finitely often; without the last no
  protocol that starts afresh can converge. Changes are finite by the bound,
  which is the meaning of "when the entities stop changing".
- pushes, client (`ReconnectingClient!Fairness`): every await of the loop and of
  stop ends (weak fairness per await; callbacks come back), and a connection
  attempt succeeds when attempts are made again and again (strong fairness, since
  the loop leaves and enters that await). A refused attempt, a drop, Start and
  Stop need not happen and may happen as often as they like.
- pushes, chunks (`ChunkTransfer!Fairness`): the receive loop reads what is there
  (weak), and each sender gets a place on the wire that others keep filling
  (strong: the event loop wakes the tasks that wait for the transport in turn).
  Time need not pass and no transfer need begin.
- stop_waits (`WsServer!FairSpec`): the server's own tasks get on; clients need
  not do anything. The counterexample is a client that just stays.

## 8 Proofs

Eight modules of theorems, about 11,200 obligations, checked by tlapm with Z3, Zenon
and LS4. They hold for every value of the constants that satisfies the assumptions
named in the modules. Those say that markers differ from data (`None`, `Absent`,
`REMOVE` are values of their own, as Python's singletons are), that limits are
natural numbers and table limits positive, that the filter stage is one of two,
that the rows of a write have times and are sequences, that a filter is a sequence
of nodes whose operands come before them, that the tags of a store have values of
the kinds of Filters, that the first row of a read is as `IsQuery` says, that libs are
sequences of defs, and that the tag of a marker
has no lib prefix.

Where a run checks several components at once, the theorems are about the
specification of that run (`ServersSpec`, `StoresSpec`, `ConnectionsSpec`, `PushesSpec`) and
state the very definitions it checks; each of them begins with the step from the
composed next-state relation to that of the component (or a stutter). TLC
checked the inductive invariants of MCServers, MCStores and MCConnections on the
instances of the runs before they were proved. Every safety property and action property of the
passing runs is proved, but for the two of Interchange.

Trees and chains of supertypes have no induction here. Where a proof needs one, the
data is indexed by numbers (the nodes of a filter, the levels of a walk) and the
induction is a least counterexample: a set of numbers for which the claim fails, if
it is not empty, has a least element, whose predecessors satisfy the claim.

**MCPushes_proofs.** Deltas. `DeltaRoundTrip`: for all grids, merging
`ComputeDelta(cache, current)` into `cache` gives `current`, and the delta is
empty only if they are equal (from `RowRoundTrip`, the same for a row, by cases
on what the two rows are). `SnapshotCorrect`: with the filter applied to the
current grid, `Spec => []AccumulatorIsSnapshot`. The property is not inductive:
it says nothing of the deltas on the wire. `Chain` does: delta i leads from the
grid promised by its predecessor (the accumulator for the first) to the grid it
promises, and the last promised grid is the one the next delta will be computed
from (`Base`: the grid of the push under way, or the cache). Push lengthens the
chain at its end by `DeltaRoundTrip`, or adds nothing when the delta is empty and
the grids are equal; Receive removes its first link; FinishPush moves `Base`
from `pushing` to `cache` by `UpdateIsCopy`.

The client that reconnects. `LoopInv` ties the wait of the connect loop to its
client: while it has one, `_inner` is that client and nothing else receives;
between connections nothing receives but what a raising on_connect left behind.
`StopInv` says how far stop is: until the loop is over, a cancellation is pending
or the loop closes its client, and `_inner` outlives the loop only while stop is
there to close it. `ReceiverCorrect` and `StopCorrect` follow.

**WatchPollClient_proofs.** The adapter. `NoChangeMissedCorrect` needs
`DirtyCorrect` (a dirty entity is subscribed, a closed watch is empty) and
`UnknownIsUnseen` (nobody was told of an entity that does not exist): without
the latter a poll that leaves an unknown entity out would clear its mark with a
view that differs. `IndexAndColumnsCorrect` goes through `IndexHoldsTags`, the
same statement over the stored dicts. `ImplementsContract` proves
`Spec => ContractSpec` under the mapping known <- the stored entities,
open <- watches, subs <- ids, pending <- dirty: each action of the adapter is an
action of WatchContract or a stutter. LoadEntity maps to Store, also when the
entity was there, ReadColNames to a stutter, NewWatch and ExtendWatch to
Subscribe with nothing pending.

Its holders. What a holder does with its answers is a stutter of the
adapter (`ClientKeepsAdapter`: `PSpec => Spec`), so every theorem about the adapter
holds with holders. `TagsCorrect`: a settled entity is in the accumulator with
every tag it has; with the types of the accumulator this is inductive, by
`RowsAreMerged` for the rows of an answer and, for what an answer leaves out, by
what the adapter says of settled entities.

**MCServers_proofs.** Handshakes. `BoundsCorrect` needs that both tables are finite
(`TablesFinite`), since cardinalities say nothing otherwise; `RoomIsMade` shows
that evicting one live token leaves room. `OneTokenCorrect` uses
`HandshakesDistinct`: a handshake of the table, under whatever rotated key,
goes back to a HELLO that no other handshake and no issued token goes back to,
and its clock is that of the HELLO; the same theorem states
`TokenInTime`. `LossCorrect` uses `TokensAreIssued` (each
token of the table was issued, with the same clock, and younger draws have no
older clock): then the oldest entry by clock is the oldest by draw, and the
others, MaxTokens - 1 of them, map one to one to later issues (`EnoughLater`).
`SparesCorrect` and `RefusalCorrect` are action properties and follow from the
guards, the boundary of the purge and the finiteness of the table.

The Redis watch. A change that was told to nobody is in the dirty
set, unmarked or lost, or on its way in an answer; `Known` says this for every
watch, with the answers under way. Only a request that has loaded, or is about
to and cannot fail unseen, counts as such, for a poll that fails after it
removed the marks, or runs unanswered, is what `lost` records. Versions are in order,
and one request of a watch is awaited at a time (`VersionsInOrder`, `OneAwaited`);
without them an older answer could overtake a newer. A command that runs late
touches the sets of one watch and no request (`LateInv`): what it takes out of a dirty
set or adds to an id set is lost from then on. `Racing`: who adds to a watch, or may
yet by an unanswered SADD, found it or was raced by a close.

**GridCache_proofs.** `OwnCorrect`: what a request holds on its way is about its
own question, and the entry of a key was stored by a question with that key;
`KeyNamesQuery` says that two reads with one key and no text for a limit are by the
same filter and limit, since the piece behind the last colon is then the limit
(`LastPiece`); reads by id and limits that are texts share keys with others (section
9), and the property excepts them. `FreshCorrect`: an entry is at least as new
as the mutations its cache owes, unless a read that began before one of them
stored it; a read that is under way knows the same of its version.

**MCConnections_proofs.** Calls. The invariant: a message names an id that was handed out and
the task that has it (`MessagesInv`), a future that was answered has left `_pending`
(`FuturesInv`), the grids a task holds are those of its ids in order (`CallInv`), and
the ids of two tasks are disjoint and below `_next_id`. Ids are never used again,
so a late answer finds no entry or its own; `RightAnswer`, `EntryHasOwner` and
`SettledOnce` follow for every number of tasks and ids, every size of a batch, every
cut and every number of ids a frame can carry. `CallsOfConnections` states
the three of the run.
The server. `PlacesAreCounted` says nothing of who
gives a place back; `Counting` does: `count` is the number of connections in
`Taken`, those between being admitted and the end of `Finally`, less the
`forgotten` ones, and it is `count` that is held below the limit. `InStep` pairs
where the handler stands with where its client and the wire stand, as long as
nothing has been pushed to it: there are few such pairs, and in none of them
can the client read anything but the reply it waits for. So a login that fails
was ended by the server or met a push (`LoginCorrect`).
Chunks. `PayloadCorrect` rests on what the assembler has under a key that no
second transfer has met (`OneTransfer`): all chunks are of one transfer
(`Alike`), what was read and what is still to be read are that transfer, each
chunk once (`Covered`, `Once`), and the chunks are fewer than the total
(`Incomplete`). That counting chunks is enough to know that all are there is
`CountedByIdx`: chunks that differ in their index are as many as their indices.
The HTTP client. `RequestsRunOnce`: a request that was run is not sent again,
since the retry comes only after a 401, which is given before anything runs
(`RunsAtTheEnd`). `AuthErrorsHaveCauses`: as long as nothing has happened
(`NothingLost`), the server opens handshakes, a task that logs in has the password and
its handshake, a request under way has a token that lets in, and the next one finds
such a token or the password, also after a close that came before any login
(`TokenOrPassword`).

**MCStores_proofs.** The TimescaleDB watch: `NotLost` for every watch, and
`InOrder`: what a transaction has selected or locked is settled, that is told
with its answer or flagged behind it, so that the only gaps are the one between
the statements (`passed`) and the one between COMMIT and the answer (`untold`).
Points. `EffectsCorrect`: a call past the check with an operation that writes is
`granted`, a call that has changed something has run, and only the refusal of
Redis writes something (`Lawful`, `Accountable`, `RefusedWrite`). It is the check's
list of operations (`WriteOps`) that it depends on, for all three paths.
`LastSampleCorrect` needs what the property leaves open, what becomes of
samples that are not the last of their time: the memory store has every sample
that fewer than MaxHistory others followed (`MemoryHolds`; `NoMoreRows` compares
the two counts by an injection), the others have one sample of a time, at least
as late as any acknowledged (`StoreHolds`). Of the rows of one write with the
same time one is the last (`LastPosition`).

Users. Besides the shape of requests the invariant needs only that
nobody deletes himself and that a server which found an administrator still has
one or was disturbed (`FoundInv`). The three action properties follow by
classifying every step that writes a record: that of a request (`Acts`) or that of a
start (`Seeds`); `UsersOfStores` states them of the run.
`ReadsCorrect`, `FitsCorrect` and `CompiledCorrect`: the parts of the run that read
and that load defs are behaviours of FilterRead and Ontology, so that what the next
two modules prove holds of the run.

**FilterRead_proofs.** Three theorems say that what a store is asked is what the
filter means. `SqlRowIsMatch`: the SQL of a filter gives TRUE exactly for the rows
that match, and never an error, in whatever order PostgreSQL evaluates the operands,
if its comparisons are of texts or of bare numbers that are written alike where they
are equal: for each node of the filter the
possible outcomes are the one that evaluation gives. `FtIsMatch`: the RediSearch query
finds the matching entities, in either dialect, if no Or is an operand of an And and
no text is compared with a Ref. `MatchHasTags`: who matches has every tag by which
the adapters narrow. `ReadInvariant` (`ReadInv`): a read under way and an answer in
the cache are answers to their filter from a content the store had since the question,
the candidates of a Redis read leave out nobody that matched when they were listed,
unless no tag narrows and the cap cut them (`CandidatesAt`), and contents only grow.
`AnswersAsEvaluatedAlways` follows by stage and adapter.

**Ontology_proofs.** `OntologyInvariant`: every name stands for a def of that name, and
a cached set of supertypes is the one a walk through the index of now would find;
AddLib empties the cache, which is what keeps this true. `ReachesIsAbove`: the walk, which
visits a symbol once, finds exactly what is in every set closed under supertypes; a
level that adds nothing ends it, and more levels than names would need more names than
there are. From it `FitsIsSubtypeAlways` (reflection asks the cache, the taxonomy walks) and
`CompiledIsSoundAlways` (a cycle in the property's sense is one that the search finds).

Only model-checked: all liveness (ChangeReachesHolder, Converges, StopReturns,
Reconnects, Arrives), which needs ENABLED; and Encodings with Interchange
(KeepsWhatItCan, LossIsAtOnce), whose codecs recur over values within values, where
induction is out of the prover's reach.

## 9 Where code and documentation differ

Each of the first six is a run whose trace shows it.

1. timescale_lost: the docstring at `storage/timescale.py:747` promises no lost
   notifications; at READ COMMITTED the UPDATE clears flags its SELECT did not
   see. The run stores shows that a notification gets lost in no other way but with
   the answer of a poll whose COMMIT ran (`untold`), which no transaction prevents.
2. grid_cache_ids: the ids of a read are not in its cache key, which is that of the
   filter and limit beside them, most often of none (`fastapi_server.py:457` and 279,
   `ws_server.py:253`), so the second one is answered with the entity of the first.
3. reauthentication: `docs/guide/client-guide.rst:114` says that a 401 leads to a
   login and a retry; the password was cleared after the first login
   (`client.py:532`), so a token that expires ends in an AuthError.
4. batch_write: `client.py:305` writes several points in one call; the server reads
   the tag `id` only and gives every row to that point (`ops.py:198`). The call is
   acknowledged.
5. filter_answers: `storage/timescale.py:373` answers the entities that match; the
   cache key of 393 is the SQL clause without its values, so `dis == "B"` is
   answered with what was found for `dis == "A"`.
6. stop_waits: the docstring at `ws_server.py:180` says that stop closes all
   connections; it first waits for them to end (183).

Met while modelling, allowed for in the models and not runs of their own.

Watches:

- `storage/memory.py:87-114` adds to the tag index and never takes out: after an
  entity is loaded again without a tag, the fast path of `read_by_filter` (157)
  returns it for that tag, and the general path does not (`IndexMissesNothing`
  states the direction that holds).
- `docs/guide/watch-guide.rst:107` applies the filter to the delta. `apply_filter`
  keeps matching rows only, a `_removed` row has none of the tags, so the removal
  never arrives. `tests/test_watch.py:292` filters the current entities, the order
  the run and the proof are about (`FilterStage` names the other).
- The whole rows of `watchPoll` carry no REMOVE, so an accumulator fed with them
  as in `docs/guide/watch-guide.rst:243-263` keeps tags an entity has lost.
- `watch_sub` of Redis that overtook its existence check before a close leaves
  an id set nobody can remove (`LeftoverOnlyByRace`), and the answer of a poll
  that fails after its MULTI is lost (`lost`). The retries of the Redis client
  (`storage/redis.py:263-276`) send MULTIs again that may have run: the answer of a
  poll that was cleared by its own first try is empty and no error. An SADD sent again
  may add to a watch that was closed in between.
- The lease and the filter of `watchSub` are not looked at, and the client's
  `watch_sub` does not hand the id of a new watch to its caller.

Answers:

- A mutation over WebSocket clears that cache only (`fastapi_server.py:262-271`);
  the docstring at 438-440 says that the HTTP cache is cleared on entity
  mutations. `Owed` asks of a cache only what the path of the mutation clears,
  and nothing of a mutation that failed or came in a binary frame.
- The key of a read has its limit as text: 10 and `"10"` share one, while `ops.read`
  (`ops.py:134-139`) takes a text for no limit, so one of the two is answered with the
  other's rows.
- An error grid is cached over WebSocket like an answer (`ws_server.py:237`).
- Neither database adapter empties its read cache when entities are loaded.
- TimescaleDB compares with the text of the JSON of a tag: a Ref or a number with
  a unit is an object there, never equal, always unequal, and an order on it ends
  the query. Filters it does not translate are evaluated without following Refs.
- Redis writes an Or inside an And without parentheses of its own, which dialect
  2 of RediSearch, external to this code, binds otherwise (`Dialect`); a text
  matches a Ref with that id; the target of a path is looked up only among the
  entities that passed the narrowing by tags, and the ids are listed before the
  entities are fetched.
- SQL compares numbers as texts in `==` and `!=`: `str(2.0)` is "2.0" and the JSONB of
  2 is "2", equal to `evaluate` and not to the query (`storage/timescale.py:222`).
- A search of Redis answers 10,000 entities at most, scans look at 50,000
  (`storage/redis.py:417`, 488, `storage/timescale.py:406`), without a limit and
  without a word.
- A limit of 0 answers one row wherever a loop in Python counts.
- A call that is answered 406 has run (`fastapi_server.py:430`).
- `his_read` over GET loses its range, memory and Redis ignore ranges, and a read
  of several histories answers the first point only.
- `libs` and `defs` ignore their limit over JSON v4; Trio answers lose the error in
  the metadata of a grid; JSON v3 answers are labelled as JSON v4, so that every
  value v3 writes into a string is read as that string ("v3 as json").
- JSON v3 writes column metadata beside the name: a tag `name` replaces it. Zinc
  reads neither a unit after an infinity nor one that starts like an exponent,
  and takes the lines of a nested grid for rows. Neither Zinc nor Trio can read every
  zone they write (`encoding/scanner.py:66-70`): `GMT+5`, `Port-au-Prince`; parse_trio
  raises on a grid within a list or dict, and on records nested deeper than 32. The cache
  of encoded datetimes
  answers with the zone an instant was first written in (`encoding/json.py:350`).

Users and logins:

- A user who is disabled after HELLO still gets a token, and keeps it for its
  lifetime: `enabled` is read at HELLO only (`auth_types.py:129`).
- `update_user` of Redis brings a user back who was deleted meanwhile; that of
  TimescaleDB reports success for him. Two administrators can remove each other.
- A client closed after a login and opened again has no password
  (`client.py:532`, 104-113). A HELLO that is refused is noticed only at
  client-first, since its 401 names SCRAM like a challenge.
- What fails in the first login of the HTTP client comes out as an error of
  aiohttp, in the second as a NetworkError.
- The connection pool of the client logs in with `{"type": "auth", "token": ...}`, while
  the server
  looks for `authToken`.

Connections:

- `stop` sets the connection count to 0 with handlers still to come to their
  `finally` (`ws_server.py:183-189`): the count falls below 0, and a server started
  again takes that many clients more than its limit (`forgotten`).
- `on_connect` that raises leaves its client open and receiving (`raised`).
- Chunks of two pushes under way at once mix, and leave a rest for later ones
  (`tainted`). The server sends chunks as it was configured to, whatever was
  negotiated.
- A push before the login is done makes the login of the client fail
  (`LoginMeetsPush`).
- A batch that is cut, and calls that are cancelled, leave entries in `_pending`
  (`LeftBehind`); after 65536 ids a binary call fails where it packs its frame.

Ontology:

- `docs/guide/ontology-guide.rst:150` says that the first lib wins; a def whose own
  symbol is the same replaces the first (`namespace.py:63`), only its other name
  is left to it.
- A conjunct with a prefix is split into a first part with it and the others
  without (`namespace.py:90`), so that reflection does not find it by its parts.
- A cycle among defs with a prefix that name each other without it is not found
  (`normalize.py:135`), as `CompiledIsSound` allows; `all_supertypes` may list an
  ancestor twice.

## 10 What is not modelled

- `ws.py`: hands bytes to the protocol machine of the `websockets` library and
  events back; its behaviour is that library's. Heartbeats are a time-out of it.
- Lexer and parser of filters, RDF and Trio loading of defs, CSV, parsing of
  Accept and authentication headers, the arithmetic of SCRAM, the bits of a frame:
  conversions of text or numbers without state, covered by examples in `tests/`.
- The operations without a state of their own: nav, the listings of ops, formats,
  libs and defs, `invoke_action`, about, and the effective and marker tags of the
  ontology.
- The pool: how it picks and replaces a connection. A channel is a task of
  WsCalls; channels of one connection share its ids.
- External: Redis, PostgreSQL, RediSearch, FastAPI and uvicorn. RedisWatch takes
  MULTI/EXEC as atomic and a command that was not answered as one that may run at any
  later time, TimescaleWatch takes the row locks and foreign keys of
  READ COMMITTED as PostgreSQL documents them, FilterRead takes the dialect of
  RediSearch as a constant.
- No behaviour of its own: `redis_ops.py` (wrapper), `metrics.py` (observers),
  `errors.py`, `tls.py` (contexts), `__main__.py` (start-up), the immutable
  values of `kinds.py` and `grid.py`, `convert.py`.
- Abstracted everywhere: text, formats, log lines, and what a value is beyond
  being different from another.
- Restarts: a process recovers nothing from a log. To its clients the restart of a
  server is `Forget` and `Expire` (HttpClientAuth), `ReceiverEnds` (WsCalls) and
  `Drops` (ReconnectingClient); the tables it starts with are those of Init.
