------------------------- MODULE ReconnectingClient -------------------------
(***************************************************************************)
(* ReconnectingWebSocketClient of src/hs_py/ws_client.py: start, stop,     *)
(* on_watch_push and the task of _connect_loop, which interleave at their  *)
(* awaits, with a server that refuses, accepts and drops connections and   *)
(* with user callbacks that return or raise.                               *)
(*                                                                         *)
(* An inner WebSocketClient is told apart by whether its receive loop      *)
(* runs: while it does, the connection is open and pushes are delivered.   *)
(* Names of clients whose loop has ended are used again.                   *)
(***************************************************************************)
EXTENDS Naturals

CONSTANTS
  Client,    \* inner clients
  Callback,  \* watch callbacks of the user
  None,
  MinDelay, MaxDelay  \* min_reconnect_delay, max_reconnect_delay

ClientAssumption ==
  /\ MinDelay \in Nat \ {0} /\ MaxDelay \in Nat /\ MinDelay <= MaxDelay
  /\ None \notin Client /\ None \notin Callback

VARIABLES
  pc,          \* where the task of _connect_loop waits, "none" for no task
  client,      \* its local variable
  delay,       \* its local variable
  inner,       \* _inner
  connected,   \* _connected
  stopping,    \* _stopping
  registered,  \* _watch_callback
  callbacks,   \* _watch_callback of the inner clients
  receiving,   \* clients whose receive loop runs
  starter,     \* whether start() waits
  stopper,     \* where stop() waits, "none" for no call
  raised       \* clients whose on_connect raised

vars == <<pc, client, delay, inner, connected, stopping, registered, callbacks,
          receiving, starter, stopper, raised>>
user == <<registered, callbacks>>

Wait == {"none", "connect", "onConnect", "recv", "close", "onDisconnect", "sleep"}

TypeOK ==
  /\ pc \in Wait
  /\ client \in Client \union {None}
  /\ delay \in MinDelay .. MaxDelay
  /\ inner \in Client \union {None}
  /\ connected \in BOOLEAN /\ stopping \in BOOLEAN
  /\ registered \in Callback \union {None}
  /\ callbacks \in [Client -> Callback \union {None}]
  /\ receiving \in SUBSET Client
  /\ starter \in BOOLEAN
  /\ stopper \in {"none", "cancel", "join", "close"}
  /\ raised \in SUBSET Client

Init ==
  /\ pc = "none" /\ client = None /\ delay = MinDelay
  /\ inner = None /\ connected = FALSE /\ stopping = FALSE
  /\ registered = None /\ callbacks = [c \in Client |-> None]
  /\ receiving = {} /\ raised = {}
  /\ starter = FALSE /\ stopper = "none"

-----------------------------------------------------------------------------
(* The user and the network                                                *)

\* start(), when the loop is not running and stop() not under way.
Start ==
  /\ pc = "none" /\ stopper = "none"
  /\ stopping' = FALSE /\ starter' = TRUE
  /\ pc' = "connect" /\ client' = None /\ delay' = MinDelay
  /\ UNCHANGED <<inner, connected, user, receiving, stopper, raised>>

OnWatchPush(cb) ==
  /\ registered' = cb
  /\ callbacks' = IF inner = None THEN callbacks ELSE [callbacks EXCEPT ![inner] = cb]
  /\ UNCHANGED <<pc, client, delay, inner, connected, stopping, receiving, starter, stopper, raised>>

\* A connection breaks, and the receive loop of its client ends.
Drops(c) ==
  /\ c \in receiving
  /\ receiving' = receiving \ {c}
  /\ raised' = raised \ {c}
  /\ UNCHANGED <<pc, client, delay, inner, connected, stopping, user, starter, stopper>>

-----------------------------------------------------------------------------
(* _connect_loop. While a cancellation is pending, no wait ends otherwise.  *)

Waits(place) == pc = place /\ stopper # "cancel"

\* Connection, authentication and negotiation succeed.
CallbackGiven(c) == [callbacks EXCEPT ![c] = registered]

DelayAfterSuccess == MinDelay

Connects(c) ==
  /\ Waits("connect")
  /\ c \notin receiving
  /\ client' = c /\ inner' = c
  /\ receiving' = receiving \union {c}
  /\ callbacks' = CallbackGiven(c)
  /\ delay' = DelayAfterSuccess
  /\ connected' = TRUE /\ starter' = FALSE
  /\ pc' = "onConnect"
  /\ UNCHANGED <<stopping, registered, stopper, raised>>

Disconnected == connected' = FALSE /\ inner' = None /\ pc' = "onDisconnect"

Refused ==
  /\ Waits("connect")
  /\ Disconnected
  /\ UNCHANGED <<client, delay, stopping, user, receiving, starter, stopper, raised>>

OnConnectReturns ==
  /\ Waits("onConnect")
  /\ pc' = "recv"
  /\ UNCHANGED <<client, delay, inner, connected, stopping, user, receiving, starter, stopper, raised>>

\* Nothing closes the client then. Bound: a name is left for the next one.
OnConnectRaises ==
  /\ Waits("onConnect") /\ receiving # Client
  /\ Disconnected
  /\ raised' = raised \union ({client} \intersect receiving)
  /\ UNCHANGED <<client, delay, stopping, user, receiving, starter, stopper>>

NotAwaited == TRUE                 \* mutant: does not wait for the receive loop
ConnectionLost == client \notin receiving

RecvEnds ==
  /\ Waits("recv") /\ ConnectionLost
  /\ Disconnected
  /\ UNCHANGED <<client, delay, stopping, user, receiving, starter, stopper, raised>>

\* client.close() of the finally clause.
Closes ==
  /\ Waits("close")
  /\ Disconnected
  /\ receiving' = receiving \ {client} /\ raised' = raised \ {client}
  /\ UNCHANGED <<client, delay, stopping, user, starter, stopper>>

\* on_disconnect returns, or raises and is suppressed.
LoopEnds == "none"                 \* mutant: the exception ends the loop
LoopGoesOn == "sleep"              \* mutant: does not look at _stopping
AfterDisconnect == IF stopping THEN "none" ELSE "sleep"

OnDisconnectEnds ==
  /\ Waits("onDisconnect")
  /\ pc' = AfterDisconnect
  /\ UNCHANGED <<client, delay, inner, connected, stopping, user, receiving, starter, stopper, raised>>

NextDelay == IF 2 * delay <= MaxDelay THEN 2 * delay ELSE MaxDelay

\* The next attempt makes a client of its own.
Sleeps ==
  /\ Waits("sleep")
  /\ delay' = NextDelay /\ client' = None
  /\ pc' = "connect"
  /\ UNCHANGED <<inner, connected, stopping, user, receiving, starter, stopper, raised>>

-----------------------------------------------------------------------------
(* stop()                                                                  *)

Stop ==
  /\ stopper = "none"
  /\ stopping' = TRUE /\ connected' = FALSE
  /\ stopper' = IF pc = "none" THEN "join" ELSE "cancel"
  /\ UNCHANGED <<pc, client, delay, inner, user, receiving, starter, raised>>

\* The cancellation reaches the loop at its await. A receive loop that runs is
\* cancelled instead of it, ends normally, and the loop goes on to its finally
\* clause; an attempt, on_connect and a wait that is over anyway end in the
\* except clause, which closes the client; on_disconnect and sleep just end.
CancelledInTry ==
  /\ stopper = "cancel"
  /\ \/ pc \in {"connect", "onConnect"}
     \/ pc = "recv" /\ client \notin receiving
  /\ receiving' = receiving \ {client} /\ raised' = raised \intersect receiving'
  /\ pc' = "none"
  /\ stopper' = "join"
  /\ UNCHANGED <<client, delay, inner, connected, stopping, user, starter>>

CancelledReceiver ==
  /\ stopper = "cancel"
  /\ pc = "recv" /\ client \in receiving
  /\ receiving' = receiving \ {client}
  /\ pc' = "close"
  /\ stopper' = "join"
  /\ UNCHANGED <<client, delay, inner, connected, stopping, user, starter, raised>>

CancelledOutside ==
  /\ stopper = "cancel"
  /\ pc \in {"onDisconnect", "sleep"}
  /\ pc' = "none"
  /\ stopper' = "join"
  /\ UNCHANGED <<client, delay, inner, connected, stopping, user, receiving, starter, raised>>

\* The loop has ended: what is still set as _inner is closed.
NotJoined == TRUE                  \* mutant: stop() does not wait for the loop
LoopOver == pc = "none"

Joined ==
  /\ stopper = "join" /\ LoopOver
  /\ stopper' = IF inner = None THEN "none" ELSE "close"
  /\ UNCHANGED <<pc, client, delay, inner, connected, stopping, user, receiving, starter, raised>>

StopCloses ==
  /\ stopper = "close"
  /\ receiving' = receiving \ {inner} /\ raised' = raised \ {inner}
  /\ inner' = None
  /\ stopper' = "none"
  /\ UNCHANGED <<pc, client, delay, connected, stopping, user, starter>>

Next ==
  \/ Start \/ Stop
  \/ \E cb \in Callback : OnWatchPush(cb)
  \/ \E c \in Client : Drops(c) \/ Connects(c)
  \/ Refused \/ OnConnectReturns \/ OnConnectRaises \/ RecvEnds \/ Closes
  \/ OnDisconnectEnds \/ Sleeps
  \/ CancelledInTry \/ CancelledReceiver \/ CancelledOutside \/ Joined \/ StopCloses

Spec == Init /\ [][Next]_vars

\* The event loop runs what can run and the callbacks come back; the server is
\* there often enough for an attempt to succeed in the end.
Fairness ==
  /\ WF_vars(OnConnectReturns \/ OnConnectRaises)
  /\ WF_vars(RecvEnds) /\ WF_vars(Closes) /\ WF_vars(OnDisconnectEnds) /\ WF_vars(Sleeps)
  /\ WF_vars(CancelledInTry \/ CancelledReceiver \/ CancelledOutside)
  /\ WF_vars(Joined) /\ WF_vars(StopCloses)
  /\ SF_vars(\E c \in Client : Connects(c))

FairSpec == Spec /\ Fairness

-----------------------------------------------------------------------------
(* Properties                                                              *)

\* Pushes come in over one connection at a time, whatever drops, stops and
\* starts again, except over one that was left behind because on_connect raised
\* (_connect_loop).
OneReceiver == receiving \ raised \subseteq {client} \union {inner}

\* When stop() has returned, nothing receives any more, except on a connection
\* left behind by on_connect ("Stop reconnection and close the connection",
\* ws_client.py:945).
StopEndsAll ==
  stopping /\ stopper = "none" =>
    pc = "none" /\ inner = None /\ ~ connected /\ receiving \subseteq raised

\* stop() comes back, wherever the loop was.
StopReturns == stopper # "none" ~> stopper = "none"

\* A client that is not stopped gets connected, again and again.
Reconnects == pc # "none" /\ ~ stopping ~> connected \/ stopping

=============================================================================
