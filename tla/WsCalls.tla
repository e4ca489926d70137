------------------------------- MODULE WsCalls -------------------------------
(* The calls of a WebSocketClient (or of the channels of a WebSocketPool) on  *)
(* one connection: tasks send requests and batches under fresh ids, the       *)
(* receive loop gives each answer to the future its id names, and time-outs,  *)
(* cancelled tasks, a lost connection and close() come in between.  A request *)
(* carries the task that made it, so that an answer in the wrong hands shows. *)
EXTENDS Naturals, Sequences, FiniteSets

CONSTANTS Task,              \* the tasks that call
          MaxIds,            \* a bound: the ids handed out in a behaviour
          MaxSize,           \* a bound: the calls of one batch
          ServerMax,         \* _MAX_BATCH_SIZE: 1000 in the server
          WireIds            \* the ids a binary frame can carry: 2^16

ASSUME CallsAssumption ==
    /\ MaxIds \in Nat /\ MaxSize \in Nat \ {0} /\ ServerMax \in Nat \ {0} /\ WireIds \in Nat

VARIABLES binary,            \* the client sends single calls as binary frames
          concurrent,        \* the server answers as it gets done (FastAPI), not in turn
          link,              \* "up", "lost", "closing" or "closed"
          receiving,         \* the receive loop runs
          nextId,            \* _next_id
          pending,           \* the keys of _pending
          fut,               \* id -> its future
          task,              \* task -> what it is doing
          requests,          \* messages on their way to the server, or in its hands
          answers            \* messages on their way to the client

vars == <<binary, concurrent, link, receiving, nextId, pending, fut, task, requests, answers>>

Id == 0 .. MaxIds - 1
NoFuture == [state |-> "none", from |-> "nobody"]
Waiting == [state |-> "waiting", from |-> "nobody"]
Idle == [at |-> "idle", kind |-> "call", ids |-> <<>>, got |-> <<>>, out |-> "none"]
IdsOf(t) == {task[t].ids[k] : k \in DOMAIN task[t].ids}
Awaited(t) == task[t].ids[Len(task[t].got) + 1]

Settled(i, state) == [fut EXCEPT ![i].state = IF @ = "waiting" THEN state ELSE @]
AllSettled(ids, state) ==
    [i \in Id |-> IF i \in ids /\ fut[i] = Waiting THEN [fut[i] EXCEPT !.state = state] ELSE fut[i]]

Init ==
    /\ binary \in BOOLEAN /\ concurrent \in BOOLEAN
    /\ link = "up" /\ receiving = TRUE
    /\ nextId = 0 /\ pending = {}
    /\ fut = [i \in Id |-> NoFuture]
    /\ task = [t \in Task |-> Idle]
    /\ requests = <<>> /\ answers = <<>>

SameId(n) == nextId                    \* mutant: the id is not counted on
IdAfter(n) == nextId + n

Ends(t, out) == task' = [task EXCEPT ![t].at = "done", ![t].out = out]

\* The futures are entered before anything is sent.  A connection that is lost
\* takes what is written until the loss is noticed; one that is closing refuses.
Start(t, kind, n) ==
    LET ids == [k \in 1..n |-> nextId + k - 1]
        fits == ~(kind = "call" /\ binary) \/ nextId < WireIds
        sent == fits /\ link \in {"up", "lost"} IN
    /\ task[t].at = "idle" /\ link # "closed"
    /\ nextId + n <= MaxIds /\ (kind = "batch" \/ n = 1)
    /\ nextId' = IdAfter(n)
    /\ fut' = [i \in Id |-> IF i \in nextId .. nextId + n - 1 THEN Waiting ELSE fut[i]]
    /\ task' = [task EXCEPT ![t] = [at |-> IF sent THEN "sending" ELSE "done", kind |-> kind,
                                    ids |-> ids, got |-> <<>>,
                                    out |-> IF sent THEN "none" ELSE "raised"]]
    \* a batch that cannot be sent leaves its entries behind, a call does not
    /\ pending' = IF sent \/ kind = "batch" THEN pending \cup {ids[k] : k \in 1..n}
                  ELSE pending \ {ids[1]}
    /\ requests' = IF sent /\ link = "up"
                   THEN Append(requests, [k \in 1..n |-> [id |-> ids[k], from |-> t]]) ELSE requests
    /\ UNCHANGED <<binary, concurrent, link, receiving, answers>>

SendDone(t) ==
    /\ task[t].at = "sending"
    /\ task' = [task EXCEPT ![t].at = "waiting"]
    /\ UNCHANGED <<binary, concurrent, link, receiving, nextId, pending, fut, requests, answers>>

SendFails(t) ==
    /\ task[t].at = "sending" /\ link # "up"
    /\ Ends(t, "raised")
    /\ pending' = IF task[t].kind = "call" THEN pending \ IdsOf(t) ELSE pending
    /\ UNCHANGED <<binary, concurrent, link, receiving, nextId, fut, requests, answers>>

\* The standalone server takes the next message when it has answered the last;
\* a batch is cut to what it takes, and its answers come in one message.
Serve(k, failed) ==
    LET asked == requests[k]
        taken == SubSeq(asked, 1, IF Len(asked) > ServerMax THEN ServerMax ELSE Len(asked)) IN
    /\ k = 1 \/ concurrent
    /\ failed \subseteq DOMAIN taken
    /\ answers' = Append(answers, [j \in DOMAIN taken |->
                      [id |-> taken[j].id, from |-> taken[j].from, err |-> j \in failed]])
    /\ requests' = SubSeq(requests, 1, k - 1) \o SubSeq(requests, k + 1, Len(requests))
    /\ UNCHANGED <<binary, concurrent, link, receiving, nextId, pending, fut, task>>

\* _resolve_grid_response and _handle_binary_frame, for every answer of a message.
Deliver ==
    LET here == {a \in {Head(answers)[j] : j \in DOMAIN Head(answers)} : a.id \in pending} IN
    /\ receiving /\ link = "up" /\ answers # <<>>
    /\ answers' = Tail(answers)
    /\ pending' = pending \ {a.id : a \in here}
    /\ fut' = [i \in Id |->
                  IF fut[i] = Waiting /\ \E a \in here : a.id = i
                  THEN LET a == CHOOSE b \in here : b.id = i IN
                       [state |-> IF a.err THEN "error" ELSE "ok", from |-> a.from]
                  ELSE fut[i]]
    /\ UNCHANGED <<binary, concurrent, link, receiving, nextId, task, requests>>

Resume(t) ==
    LET f == fut[Awaited(t)]
        last == Len(task[t].got) + 1 = Len(task[t].ids) IN
    /\ task[t].at = "waiting" /\ f.state \notin {"none", "waiting"}
    /\ task' = [task EXCEPT
          ![t].got = IF f.state = "ok" THEN Append(@, f.from) ELSE @,
          ![t].at = IF f.state # "ok" \/ last THEN "done" ELSE @,
          ![t].out = CASE f.state = "ok" -> IF last THEN "ok" ELSE @
                       [] f.state = "cancelled" -> "cancelled"
                       [] OTHER -> "raised"]
    /\ pending' = IF task[t].kind = "call" /\ f.state \in {"error", "lost"}
                  THEN pending \ IdsOf(t) ELSE pending
    /\ UNCHANGED <<binary, concurrent, link, receiving, nextId, fut, requests, answers>>

\* asyncio.timeout: it may also fire in the very turn in which the answer came.
OwnEntryOnly(t) == {Awaited(t)}        \* mutant: the rest of a batch stays
GivenUp(t) == IdsOf(t)

Timeout(t) ==
    /\ task[t].at = "waiting"
    /\ Ends(t, "timeout")
    /\ pending' = pending \ GivenUp(t)
    /\ fut' = AllSettled(GivenUp(t), "cancelled")
    /\ UNCHANGED <<binary, concurrent, link, receiving, nextId, requests, answers>>

\* CancelledError is no Exception: nothing is taken out of _pending.
Cancel(t) ==
    /\ task[t].at \in {"sending", "waiting"}
    /\ Ends(t, "stopped")
    /\ fut' = IF task[t].at = "waiting" THEN Settled(Awaited(t), "cancelled") ELSE fut
    /\ UNCHANGED <<binary, concurrent, link, receiving, nextId, pending, requests, answers>>

CallAgain(t) ==
    /\ task[t].at = "done"
    /\ task' = [task EXCEPT ![t] = Idle]
    /\ UNCHANGED <<binary, concurrent, link, receiving, nextId, pending, fut, requests, answers>>

AllFailed == [i \in Id |-> IF i \in pending THEN [fut[i] EXCEPT !.state = "lost"] ELSE fut[i]]
                                       \* mutant: a future that is done is set again
Failed == AllSettled(pending, "lost")

\* The receive loop ends on an exception: the connection is gone, or (up) a
\* message it cannot handle came.  Later calls find nobody who listens.
ReceiverEnds(stays) ==
    /\ receiving /\ link = "up"
    /\ receiving' = FALSE
    /\ link' = IF stays THEN "up" ELSE "lost"
    /\ fut' = Failed /\ pending' = {}
    /\ answers' = <<>> /\ requests' = IF stays THEN requests ELSE <<>>
    /\ UNCHANGED <<binary, concurrent, nextId, task>>

\* close() ends the receive loop, waits for the closing handshake with _ws still
\* set, and only then cancels what is pending.
Close ==
    /\ link \in {"up", "lost"}
    /\ link' = "closing" /\ receiving' = FALSE
    /\ requests' = <<>> /\ answers' = <<>>
    /\ UNCHANGED <<binary, concurrent, nextId, pending, fut, task>>
CloseDone ==
    /\ link = "closing"
    /\ link' = "closed"
    /\ fut' = AllSettled(pending, "cancelled") /\ pending' = {}
    /\ UNCHANGED <<binary, concurrent, receiving, nextId, task, requests, answers>>

Next ==
    \/ \E t \in Task : \E n \in 1..MaxSize : \E kind \in {"call", "batch"} : Start(t, kind, n)
    \/ \E t \in Task : SendDone(t) \/ SendFails(t) \/ Resume(t) \/ Timeout(t) \/ Cancel(t)
                         \/ CallAgain(t)
    \/ \E k \in DOMAIN requests : \E failed \in SUBSET (1..MaxSize) : Serve(k, failed)
    \/ Deliver
    \/ \E stays \in BOOLEAN : ReceiverEnds(stays)
    \/ Close \/ CloseDone

Spec == Init /\ [][Next]_vars

------------------------------------------------------------------------------
\* Every grid a caller gets answers its own request, and a batch gets its grids
\* in the order of its calls: late answers, answers out of turn and cut batches
\* never reach another call.
RightAnswer ==
    \A t \in Task :
        /\ \A k \in DOMAIN task[t].got : task[t].got[k] = t
        /\ task[t].out = "ok" => Len(task[t].got) = Len(task[t].ids)

\* An entry of _pending is awaited by a task, unless the task was cancelled or
\* belonged to a batch that could not be sent or had a call fail: those entries
\* stay until their answers come or the connection goes.
LeftBehind(t) == task[t].out = "stopped" \/ (task[t].kind = "batch" /\ task[t].out = "raised")
EntryHasOwner ==
    \A t \in Task : \A i \in IdsOf(t) \cap pending : task[t].at # "done" \/ LeftBehind(t)

\* A future is settled once: what a call has been answered with is not changed by
\* a later answer, a time-out of its batch, the loss of the connection or close.
SettledOnce ==
    [][\A i \in Id : fut[i].state \notin {"none", "waiting"} => fut'[i] = fut[i]]_fut

==============================================================================
