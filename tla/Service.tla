-------------------------------- MODULE Service --------------------------------
(* What a call to write or read points does on its way through a server: the  *)
(* check of the user's role, the decoding of the body, the method of           *)
(* HaystackOps, the storage adapter and the answer, over HTTP or a WebSocket.  *)
(* Calls meet at every await, and an administrator changes the role meanwhile. *)
EXTENDS Integers, FiniteSets, SequencesExt

CONSTANTS Point,
          Task,              \* calls under way at the same time
          WriteBodies,       \* the rows a write may carry: [ts: half milliseconds since
                             \* 1970, val: a number or Text]
          Text,              \* what a history cannot hold: a string, for one
          Absent,            \* a row without the column val
          MaxHistory,        \* _MAX_HISTORY_PER_POINT
          MaxCalls           \* a bound: calls in a behaviour

ServiceAssumption ==
    /\ WriteBodies \subseteq Seq([ts : Int, val : Int \cup {Text}])
    /\ Text \notin Int /\ Absent \notin Int
    /\ MaxHistory \in Nat \ {0} /\ MaxCalls \in Nat

VARIABLES store,             \* the adapter: "memory", "redis" or "timescale"
          secured,           \* the server has a user store
          role,              \* of the user who calls; "off" when disabled or deleted
          history,           \* point -> its samples; "at" is the order they came in
          priority,          \* point -> the levels that are set
          call,              \* task -> its call
          calls,             \* number of calls so far
          serial,            \* number of samples offered so far
          given              \* point -> the samples that were acknowledged

vars == <<store, secured, role, history, priority, call, calls, serial, given>>

\* An administrator may here what an operator may.
Role == {"off", "viewer", "operator"}

\* hisWriteBatch is a hisWrite, pointArray a pointWrite without a level.
WithoutPointWrite == {"hisWrite", "hisWriteBatch"} \* mutant: an operation is forgotten
WriteOps == {"hisWrite", "hisWriteBatch", "pointWrite", "pointArray"}

\* items: the rows of a write; did: the store has changed; granted: the user was
\* allowed to since the call came in.
Idle == [at |-> "idle", op |-> "hisRead", points |-> <<>>, items |-> <<>>,
         level |-> 1, did |-> FALSE, granted |-> FALSE, result |-> "none"]

Init ==
    /\ store \in {"memory", "redis", "timescale"}
    /\ secured \in BOOLEAN
    /\ role \in IF secured THEN Role ELSE {"off"}
    /\ history = [p \in Point |-> {}] /\ priority = [p \in Point |-> {}]
    /\ call = [t \in Task |-> Idle]
    /\ calls = 0 /\ serial = 0
    /\ given = [p \in Point |-> {}]

------------------------------------------------------------------------------
(* The samples of a history.                                                  *)

\* int(ts.timestamp() * 1000) cuts towards zero.
Millis(ts) == IF ts < 0 THEN -((-ts) \div 2) ELSE ts \div 2
Key(ts) == IF store = "redis" THEN 2 * Millis(ts) ELSE ts

\* TimescaleDB keeps a number, and takes 0 for a row without one.
Stored(val) == IF store = "timescale" /\ val = Absent THEN 0 ELSE val

\* Rows that reach the store: Redis skips what is no number, and its TS.ADD
\* refuses a time before 1970.
Numeric(item) == item.val \in Int
Taken(items) ==
    {i \in DOMAIN items : store = "redis" => Numeric(items[i]) /\ Millis(items[i].ts) >= 0}

\* The statements of the write fail, or some of them.
Refuses(items) ==
    \E i \in DOMAIN items : CASE store = "timescale" -> items[i].val = Text
                              [] store = "redis" -> Numeric(items[i]) /\ Millis(items[i].ts) < 0
                              [] OTHER -> FALSE
\* float() fails before the first statement; the commands of a pipeline do not
\* wait for each other.
WritesNothing(items) == store = "timescale" /\ Refuses(items)

\* The list of the memory store is cut at its old end.
CutsNewest(samples) ==                 \* mutant: the new end is cut
    {s \in samples : Cardinality({u \in samples : u.at < s.at}) < MaxHistory}
Capped(samples) ==
    {s \in samples : Cardinality({u \in samples : u.at > s.at}) < MaxHistory}

HistoryAfter(p, items) ==
    LET new == {[ts |-> Key(items[i].ts), val |-> Stored(items[i].val), at |-> serial + i] :
                   i \in Taken(items)} IN
    IF store = "memory" THEN Capped(history[p] \cup new)
    ELSE {s \in history[p] \cup new : \A u \in new : u.ts = s.ts => u.at <= s.at}

\* his_read: in the order of writing or of time.
Earlier(s, u) == IF store = "memory" THEN s.at < u.at ELSE s.ts < u.ts
HisRead(p) == SetToSortSeq(history[p], Earlier)

------------------------------------------------------------------------------
(* A call.                                                                    *)

Goes(t, at) == call' = [call EXCEPT ![t].at = at]
Fails(t) == call' = [call EXCEPT ![t].at = "respond", ![t].result = "error"]

\* The request comes in.  A batch names its second point in a second tag.
Ask(t, op, points, items, level) ==
    /\ call[t].at \in {"idle", "done"} /\ calls < MaxCalls
    /\ calls' = calls + 1
    /\ call' = [call EXCEPT ![t] = [Idle EXCEPT !.at = "check", !.op = op,
                                               !.points = points, !.items = items, !.level = level,
                                               !.granted = ~secured \/ role = "operator"]]
    /\ UNCHANGED <<store, secured, role, history, priority, serial, given>>

ChangeRole(r) ==
    /\ secured /\ r # role
    /\ role' = r
    /\ call' = [t \in Task |-> [call[t] EXCEPT !.granted = @ \/ r = "operator"]]
    /\ UNCHANGED <<store, secured, history, priority, calls, serial, given>>

\* The same check in all paths: without a user store everybody may.
May(op) == secured => role # "off" /\ (op \in WriteOps => role # "viewer")

Check(t) ==
    /\ call[t].at = "check"
    /\ IF May(call[t].op) THEN Goes(t, "body") ELSE Fails(t)
    /\ UNCHANGED <<store, secured, role, history, priority, calls, serial, given>>

\* The body may not be a grid; over HTTP its format may not be known (415).
Body(t, body) ==
    /\ call[t].at = "body"
    /\ CASE body = "grid" -> Goes(t, "run")
         [] body = "broken" -> Fails(t)
         [] body = "unknown" -> call' = [call EXCEPT ![t].at = "done", ![t].result = "415"]
    /\ UNCHANGED <<store, secured, role, history, priority, calls, serial, given>>

\* hisWrite takes the point from the tag "id"; the columns of a batch are not
\* the column "val".
Rows(c) == IF c.op = "hisWrite" THEN c.items
           ELSE [i \in DOMAIN c.items |-> [c.items[i] EXCEPT !.val = Absent]]

Offered(c) == {[ts |-> c.items[i].ts, val |-> c.items[i].val, at |-> serial + i, op |-> c.op] :
                  i \in DOMAIN c.items}

HisWrite(t) ==
    LET c == call[t]  p == c.points[1]
        after == IF WritesNothing(Rows(c)) THEN history[p] ELSE HistoryAfter(p, Rows(c))
        result == IF Refuses(Rows(c)) THEN "error" ELSE "ok" IN
    /\ c.at = "run" /\ c.op \in {"hisWrite", "hisWriteBatch"}
    /\ history' = [history EXCEPT ![p] = after]
    /\ given' = IF result = "error" THEN given ELSE [given EXCEPT ![p] = @ \cup Offered(c)]
    /\ serial' = serial + Len(c.items)
    /\ call' = [call EXCEPT ![t].at = "respond", ![t].result = result, ![t].did = after # history[p]]
    /\ UNCHANGED <<store, secured, role, priority, calls>>

IsLevel(level) == level \in 1 .. 17

\* A null value gives the level up.
PointWrite(t, null) ==
    LET c == call[t]  p == c.points[1]
        after == IF null THEN priority[p] \ {c.level} ELSE priority[p] \cup {c.level} IN
    /\ c.at = "run" /\ c.op = "pointWrite"
    /\ IF IsLevel(c.level)
       THEN /\ priority' = [priority EXCEPT ![p] = after]
            /\ call' = [call EXCEPT ![t].at = "respond", ![t].result = "ok",
                                    ![t].did = after # priority[p]]
       ELSE Fails(t) /\ UNCHANGED priority
    /\ UNCHANGED <<store, secured, role, history, calls, serial, given>>

Read(t) ==
    /\ call[t].at = "run" /\ call[t].op \in {"hisRead", "pointArray"}
    /\ call' = [call EXCEPT ![t].at = "respond", ![t].result = "ok"]
    /\ UNCHANGED <<store, secured, role, history, priority, calls, serial, given>>

\* 406: over HTTP, no format that the client accepts.
Respond(t, acceptable) ==
    /\ call[t].at = "respond"
    /\ call' = [call EXCEPT ![t].at = "done", ![t].result = IF acceptable THEN @ ELSE "406"]
    /\ UNCHANGED <<store, secured, role, history, priority, calls, serial, given>>

Next ==
    \/ \E t \in Task, p \in Point :
          \/ \E items \in WriteBodies :
                \/ Ask(t, "hisWrite", <<p>>, items, 1)
                \/ \E q \in Point \ {p} : Ask(t, "hisWriteBatch", <<p, q>>, items, 1)
          \/ \E level \in {0, 1, 17, 18} : Ask(t, "pointWrite", <<p>>, <<>>, level)
          \/ \E op \in {"hisRead", "pointArray"} : Ask(t, op, <<p>>, <<>>, 1)
    \/ \E t \in Task :
          \/ Check(t)
          \/ \E body \in {"grid", "broken", "unknown"} : Body(t, body)
          \/ HisWrite(t) \/ Read(t)
          \/ \E flag \in BOOLEAN : PointWrite(t, flag) \/ Respond(t, flag)
    \/ \E r \in Role : ChangeRole(r)

Spec == Init /\ [][Next]_vars

------------------------------------------------------------------------------
\* Whoever interleaves: data is changed only for a user who was allowed to while
\* the call was under way, and a call that is answered by an error has changed
\* nothing, except that the answer alone was not acceptable (406) or that Redis
\* took the other samples of a write with a time before 1970.
NoSilentEffect ==
    \A t \in Task : call[t].did =>
        /\ call[t].granted
        /\ call[t].result # "415"
        /\ call[t].result = "error" =>
              store = "redis" /\ \E i \in DOMAIN call[t].items : call[t].items[i].ts < 0

\* The number written last for a time is what hisRead answers last for it; the
\* memory store forgets it only for MaxHistory samples written after it.
LastSampleIsRead ==
    \A p \in Point : \A s \in given[p] :
        (/\ s.op = "hisWrite" /\ s.val \in Int
         /\ \A u \in given[p] : Key(u.ts) = Key(s.ts) => u.at <= s.at) =>
            \/ \E row \in history[p] :
                  /\ row.ts = Key(s.ts) /\ row.at >= s.at /\ (row.at = s.at => row.val = s.val)
                  /\ \A other \in history[p] \ {row} : other.ts = row.ts => Earlier(other, row)
            \/ store = "memory" /\ Cardinality({u \in given[p] : u.at > s.at}) >= MaxHistory

\* client-guide.rst:256 and client.py:305, "Write time-series data for multiple
\* points": what a batch gives for its second point can be read there.
BatchIsRead ==
    \A t \in Task :
        (/\ call[t].op = "hisWriteBatch" /\ call[t].items # <<>>
         /\ call[t].at = "done" /\ call[t].result = "ok") => HisRead(call[t].points[2]) # <<>>
==============================================================================
