------------------------------- MODULE FilterRead ------------------------------
(* read_by_filter of the three stores: what a filter means to evaluate, and    *)
(* how the TimescaleDB adapter has it answered by SQL over the JSON of the     *)
(* tags, the Redis adapter by RediSearch or by its tag sets, and the memory    *)
(* adapter by its tag index.  A read of a database waits for each answer, and  *)
(* both database adapters keep the answers of the filters they translate.      *)
EXTENDS Filters, FiniteSetsExt

CONSTANTS Entity,           \* Ref.val of the entities
          Stores,           \* the stores a server may have loaded first: id -> tags
          Batches,          \* what may be loaded later: id -> tags
          Queries,          \* records of a filter and a limit
          Reader,           \* requests, each reads once
          NoLimit, Failure,
          MaxCache,         \* _read_cache_max
          MaxScan,          \* _MAX_FALLBACK_ROWS, _MAX_FALLBACK_SCAN
          MaxFt,            \* _MAX_FT_RESULTS
          MaxLoads,         \* a bound: loads in a behaviour
          Dialect           \* of the RediSearch query language

IsStore(db) ==
    /\ DOMAIN db \subseteq Entity /\ db = [e \in DOMAIN db |-> db[e]]
    /\ \A e \in DOMAIN db : \A tag \in DOMAIN db[e] : db[e][tag] \in Value

ReadAssumption ==
    /\ \A db \in Stores \cup Batches : IsStore(db)
    /\ \A q \in Queries : /\ q = [filter |-> q.filter, limit |-> q.limit]
                          /\ IsFilter(q.filter) /\ q.limit \in Nat \cup {NoLimit}
    /\ NoLimit \notin Nat /\ \A ids \in SUBSET Entity : ids # Failure
    /\ IsFiniteSet(Entity) /\ {MaxCache, MaxScan, MaxFt, MaxLoads} \subseteq Nat /\ Dialect \in {1, 2}

VARIABLES adapter,          \* "memory", "redis" or "timescale"
          past,             \* the contents of the store so far, the present last
          cache,            \* _read_cache: key -> answer, filter, time of its query
          read              \* reader -> its read

vars == <<adapter, past, cache, read>>

------------------------------------------------------------------------------
(* Evaluation in Python                                                       *)

\* The loops over entities test the limit after they have taken a row.
LoopLimit(limit) == IF limit = 0 THEN 1 ELSE limit
AtMost(limit, ids) ==
    IF limit = NoLimit \/ Cardinality(ids) <= limit THEN {ids} ELSE kSubset(limit, ids)
Evaluated(f, db, known) == {e \in DOMAIN db : Matches(f, db[e], known)}

------------------------------------------------------------------------------
(* TimescaleDB: SQL over the text of the JSON of a tag                        *)

Plain(val) == val[1] = "str" \/ (val[1] = "num" /\ val[3] = "")

\* encode_val of JSON v4 and ->>: what is not a text or a bare number is an object.
\* A JSONB number is written out.  No text of a sample reads as a number.
JsonText(val) ==
    CASE val[1] = "str" -> <<"str", val[2]>>
      [] val[1] = "num" /\ val[3] = "" -> <<IF val[4] = "exponent" THEN "int" ELSE val[4], val[2]>>
      [] OTHER -> <<"object", val>>

\* _encode_cmp_val: str() of the number, without its unit, or the text of a Ref.
Parameter(val) == IF val[1] = "num" THEN <<val[4], val[2]>> ELSE <<"str", val[2]>>

\* _ast_to_sql # None
Translates(f) ==
    \A leaf \in Leaves(f) :
        Simple(leaf) /\ (leaf.kind = "cmp" => leaf.op \in {"==", "!="} \/ leaf.val[1] = "num")

YesNo(b) == {IF b THEN "yes" ELSE "no"}

\* A comparison with NULL is no match; a cast of another text ends the query.
SqlComparison(leaf, dict) ==
    LET tag == Head(leaf.path) IN
    IF tag \notin DOMAIN dict THEN {"no"}
    ELSE IF leaf.op \in {"==", "!="}
    THEN YesNo((JsonText(dict[tag]) = Parameter(leaf.val)) <=> (leaf.op = "=="))
    ELSE IF dict[tag][1] = "num" /\ Plain(dict[tag])
    THEN YesNo(Ordered(dict[tag][2], leaf.op, leaf.val[2]))
    ELSE {"fails"}

\* The order in which PostgreSQL evaluates two operands is open: one that
\* decides the result may hide that the other fails.
SqlJoin(deciding, l, r) ==
    IF deciding \in {l, r} THEN {l, r} \cap {deciding, "fails"}
    ELSE IF "fails" \in {l, r} THEN {"fails"}
    ELSE {l}

Outcome == {"yes", "no", "fails"}
SqlJoins(kind, ls, rs) ==
    {o \in Outcome : \E l \in ls, r \in rs : o \in SqlJoin(IF kind = "and" THEN "no" ELSE "yes", l, r)}

SqlLeaf(leaf, dict) ==
    CASE leaf.kind = "has" -> YesNo(Head(leaf.path) \in DOMAIN dict)
      [] leaf.kind = "missing" -> YesNo(Head(leaf.path) \notin DOMAIN dict)
      [] OTHER -> SqlComparison(leaf, dict)

\* What the clause may give for a row.
SqlRow(f, dict) ==
    LET leaf(n) == SqlLeaf(n, dict) IN FromLeaves(f, leaf, SqlJoins)

\* The answers a query may get: LIMIT takes any rows, and may spare the one that fails.
SqlAnswers(f, limit, db) ==
    LET may(outcome) == {e \in DOMAIN db : outcome \in SqlRow(f, db[e])}
        doomed == {e \in DOMAIN db : SqlRow(f, db[e]) = {"fails"}}
        spared == limit # NoLimit /\ Cardinality(may("yes")) >= limit IN
    (IF may("fails") # {} THEN {Failure} ELSE {})
    \cup (IF doomed = {} \/ spared THEN AtMost(limit, may("yes")) ELSE {})

------------------------------------------------------------------------------
(* Redis: a RediSearch query, or the tag sets and evaluate                    *)

RefFields == {"siteRef", "equipRef"}

\* _build_ft_query # None
Indexable(f) ==
    \A leaf \in Leaves(f) :
        /\ Simple(leaf)
        /\ leaf.kind = "cmp" =>
             leaf.op = "==" /\ Head(leaf.path) \in RefFields /\ leaf.val[1] \in {"ref", "str"}

SomeOf(truths) == \E i \in DOMAIN truths : truths[i]

\* "(l r)": since dialect 2, the default of redis-py 6, a juxtaposition binds
\* tighter than the bar of an "(a)|(b)" next to it.
Juxtaposed(ls, rs) ==
    IF Dialect = 1 THEN <<SomeOf(ls) /\ SomeOf(rs)>>
    ELSE SubSeq(ls, 1, Len(ls) - 1) \o <<ls[Len(ls)] /\ Head(rs)>> \o Tail(rs)

FtLeaf(leaf, dict) ==
    LET tag == Head(leaf.path) IN
    \/ leaf.kind = "has" /\ tag \in DOMAIN dict
    \/ leaf.kind = "missing" /\ tag \notin DOMAIN dict
    \/ leaf.kind = "cmp" /\ tag \in DOMAIN dict /\ dict[tag][1] = "ref" /\ dict[tag][2] = leaf.val[2]

\* The truth of the alternatives of a query that stand outside of parentheses.
FtAlternatives(f, dict) ==
    LET leaf(n) == <<FtLeaf(n, dict)>>
        join(kind, l, r) == IF kind = "and" THEN <<SomeOf(Juxtaposed(l, r))>>
                            ELSE <<SomeOf(l), SomeOf(r)>> IN
    FromLeaves(f, leaf, join)

FtLimit(limit) == IF limit = NoLimit \/ limit > MaxFt THEN MaxFt ELSE limit
FtAnswers(f, limit, db) ==
    AtMost(FtLimit(limit), {e \in DOMAIN db : SomeOf(FtAlternatives(f, db[e]))})

\* _extract_has_tags
LeafTags(leaf) == IF leaf.kind = "has" /\ Simple(leaf) THEN {Head(leaf.path)} ELSE {}
TagsOfEither(f) ==                     \* mutant: the tags of an Or narrow, too
    LET join(kind, l, r) == l \cup r IN FromLeaves(f, LeafTags, join)
HasTags(f) ==
    LET join(kind, l, r) == IF kind = "and" THEN l \cup r ELSE {} IN FromLeaves(f, LeafTags, join)

\* The tag sets of Redis and the tag index of the memory adapter only ever gain.
Tagged(tag) == {e \in Entity : \E i \in DOMAIN past :
                    e \in DOMAIN past[i] /\ tag \in DOMAIN past[i][e]}

------------------------------------------------------------------------------
(* The reads                                                                  *)

Idle == [stage |-> "idle"]
Now == Len(past)
Present == past[Now]

Init ==
    /\ adapter \in {"memory", "redis", "timescale"}
    /\ past \in {<<s>> : s \in Stores}
    /\ cache = <<>>
    /\ read = [t \in Reader |-> Idle]

Loaded(batch, db) ==
    [e \in DOMAIN batch \cup DOMAIN db |-> IF e \in DOMAIN batch THEN batch[e] ELSE db[e]]

\* load_entities: one transaction, one MULTI, or no await at all.  No cached
\* answer is dropped.
Load(batch) ==
    /\ Now <= MaxLoads
    /\ past' = Append(past, Loaded(batch, Present))
    /\ UNCHANGED <<adapter, cache, read>>

\* A read of a query that began, or was first answered, at the time since.
Step(t, stage, q, since, rows) ==
    read' = [read EXCEPT ![t] = [stage |-> stage, query |-> q, asked |-> q.filter,
                                 since |-> since, until |-> Now, rows |-> rows]]
Done(t, rows) == read' = [read EXCEPT ![t].stage = "done", ![t].until = Now, ![t].rows = rows]

IsLoneTag(f) == Root(f).kind = "has" /\ Simple(Root(f))

ReadMemory(t, q) ==
    LET found == IF IsLoneTag(q.filter) THEN Tagged(Head(Root(q.filter).path)) \cap DOMAIN Present
                 ELSE Evaluated(q.filter, Present, Present) IN
    /\ adapter = "memory"
    /\ \E rows \in AtMost(LoopLimit(q.limit), found) : Step(t, "done", q, Now, rows)
    /\ UNCHANGED cache

\* The text the cache knows a filter by: an SQL clause names its parameters by
\* their number, a RediSearch query holds the values.
QueryText(f) ==
    LET literal(val) == IF adapter = "redis" THEN val[2] ELSE "$" IN
    [i \in DOMAIN f |-> IF f[i].kind = "cmp" THEN [f[i] EXCEPT !.val = literal(@)] ELSE f[i]]
Key(q) == <<QueryText(q.filter), q.limit>>
Cacheable(f) == IF adapter = "redis" THEN Indexable(f) ELSE Translates(f)

ReadCached(t, q) ==
    /\ adapter # "memory" /\ Cacheable(q.filter) /\ Key(q) \in DOMAIN cache
    /\ LET entry == cache[Key(q)] IN
       read' = [read EXCEPT ![t] = [stage |-> "done", query |-> q, asked |-> entry.asked,
                                    since |-> entry.since, until |-> Now, rows |-> entry.rows]]
    /\ UNCHANGED cache

Ask(t, q) ==
    /\ adapter # "memory" /\ ~(Cacheable(q.filter) /\ Key(q) \in DOMAIN cache)
    /\ Step(t, IF Cacheable(q.filter) THEN "querying" ELSE "listing", q, Now, {})
    /\ UNCHANGED cache

\* The database answers a translated filter; a query that fails ends the read.
Query(t) ==
    LET q == read[t].query
        answers == IF adapter = "redis" THEN FtAnswers(q.filter, q.limit, Present)
                   ELSE SqlAnswers(q.filter, q.limit, Present) IN
    /\ read[t].stage = "querying"
    /\ \E rows \in answers :
          IF rows = Failure THEN Done(t, Failure)
          ELSE read' = [read EXCEPT ![t].stage = "queried", ![t].rows = rows]
    /\ UNCHANGED cache

\* The answer has come: it is kept if there is room.
Keep(t) ==
    LET r == read[t]
        answer == [rows |-> r.rows, asked |-> r.asked, since |-> r.since]
        kept == [k \in DOMAIN cache \cup {Key(r.query)} |->
                    IF k = Key(r.query) THEN answer ELSE cache[k]] IN
    /\ r.stage = "queried"
    /\ Done(t, r.rows)
    /\ cache' = IF Cardinality(DOMAIN cache) < MaxCache THEN kept ELSE cache

\* The filters that are not translated: TimescaleDB sends any MaxScan entities, and
\* there is no resolver; Redis first lists the ids that have the tags, or MaxScan
\* ids if there are none to look for, then sends these.
Scan(t) ==
    LET q == read[t].query IN
    /\ adapter = "timescale" /\ read[t].stage = "listing"
    /\ \E sent \in AtMost(MaxScan, DOMAIN Present) :
          LET rows == Evaluated(q.filter, [e \in sent |-> Present[e]], <<>>) IN
          \E kept \in AtMost(LoopLimit(q.limit), rows) : Done(t, kept)
    /\ UNCHANGED cache

Candidates(f) ==
    IF HasTags(f) = {} THEN AtMost(MaxScan, DOMAIN Present)
    ELSE {{e \in DOMAIN Present : \A tag \in HasTags(f) : e \in Tagged(tag)}}
List(t) ==
    /\ adapter = "redis" /\ read[t].stage = "listing"
    /\ \E listed \in Candidates(read[t].query.filter) :
          read' = [read EXCEPT ![t].stage = "fetching", ![t].rows = listed]
    /\ UNCHANGED cache

Fetch(t) ==
    LET q == read[t].query
        known == [e \in read[t].rows |-> Present[e]] IN
    /\ read[t].stage = "fetching"
    /\ \E rows \in AtMost(LoopLimit(q.limit), Evaluated(q.filter, known, known)) : Done(t, rows)
    /\ UNCHANGED cache

Begin(t) == read[t] = Idle /\ \E q \in Queries : ReadMemory(t, q) \/ ReadCached(t, q) \/ Ask(t, q)
Goes(t) == Begin(t) \/ Query(t) \/ Keep(t) \/ Scan(t) \/ List(t) \/ Fetch(t)

Next ==
    \/ \E batch \in Batches : Load(batch)
    \/ \E t \in Reader : Goes(t) /\ UNCHANGED <<adapter, past>>

Spec == Init /\ [][Next]_vars

------------------------------------------------------------------------------
\* The contents of the store an answer may speak of: since its query began.  The
\* memory adapter answers a lone tag for what has ever had it.
Times(r) ==
    IF adapter = "memory" /\ IsLoneTag(r.query.filter)
    THEN {past[i] : i \in 1..r.until} ELSE {past[i] : i \in r.since..r.until}

\* A comparison means the same to SQL where both sides are texts, or bare numbers
\* that are written alike if they are equal.
Alike(dict, leaf) ==
    LET tag == Head(leaf.path)
        val == dict[tag] IN
    /\ Plain(leaf.val)
    /\ tag \in DOMAIN dict =>
         /\ Plain(val) /\ val[1] = leaf.val[1]
         /\ val[1] = "num" /\ val[2] = leaf.val[2] /\ leaf.op \in {"==", "!="} =>
              JsonText(val) = Parameter(leaf.val)

\* The answers a cap may have cut: a search that gave as many as it may, and a scan
\* of a store that had more than are sent.
Cut(r) ==
    LET f == r.query.filter IN
    IF adapter = "redis" /\ Indexable(f) THEN Cardinality(r.rows) = MaxFt
    ELSE /\ adapter # "memory" /\ ~Cacheable(f)
         /\ adapter = "redis" => HasTags(f) = {}
         /\ \E db \in Times(r) : Cardinality(DOMAIN db) > MaxScan

\* The reads whose answer is that of evaluate.  TimescaleDB: the answer is not
\* that of another comparison of the same shape, and every comparison is plain.
\* Redis: no Or is inside an And, no text is compared with a Ref; a path is
\* followed when every id was listed and nothing was loaded meanwhile.
Exact(r) ==
    LET f == r.query.filter IN
    /\ adapter = "timescale" /\ Translates(f) =>
         /\ r.asked = f
         /\ \A db \in Times(r), leaf \in Comparisons(f) : \A e \in DOMAIN db : Alike(db[e], leaf)
    /\ adapter = "redis" =>
         IF Indexable(f)
         THEN /\ \A n \in Joins(f) : n.kind = "and" => f[n.left].kind # "or" /\ f[n.right].kind # "or"
              /\ \A leaf \in Comparisons(f) : leaf.val[1] = "ref"
         ELSE \/ \A leaf \in Leaves(f) : Simple(leaf)
              \/ HasTags(f) = {} /\ r.since = r.until /\ ~Cut(r)

Means(r, e, db) == e \in DOMAIN db /\ Matches(r.query.filter, db[e], IF adapter = "timescale" THEN <<>> ELSE db)

\* protocol.py:39, "Return entities matching a filter AST.": the translations,
\* the indexes and the caches answer as evaluate does.  An entity is answered only
\* if it matched at some time since the answer was asked for, is left out without
\* a limit only if it did not match at some time or a cap cut the answer, and a
\* limit is kept.
AnswersAsEvaluated ==
    \A t \in Reader : read[t].stage = "done" /\ Exact(read[t]) =>
        LET r == read[t] IN
        /\ r.rows # Failure
        /\ \A e \in r.rows : \E db \in Times(r) : Means(r, e, db)
        /\ r.query.limit = NoLimit /\ ~Cut(r) =>
             \A e \in Entity \ r.rows : \E db \in Times(r) : ~Means(r, e, db)
        /\ r.query.limit # NoLimit => Cardinality(r.rows) <= LoopLimit(r.query.limit)

\* timescale.py:373, "Return entities matching the filter AST": what a comparison
\* of a text finds has at some time had that text.
FindsOwnText ==
    \A t \in Reader : read[t].stage = "done" /\ adapter = "timescale" =>
        LET r == read[t]
            f == r.query.filter IN
        Root(f).kind = "cmp" /\ Root(f).op = "==" /\ Root(f).val[1] = "str" =>
            \A e \in r.rows : \E i \in DOMAIN past :
                e \in DOMAIN past[i] /\ Matches(f, past[i][e], past[i])
==============================================================================
