------------------------------- MODULE WsServer ------------------------------
(* The connections of the standalone WebSocket server: the limit, the login   *)
(* of a client and what it meets on the way, the negotiation of capabilities, *)
(* the handler's end and stop().  A connection is tracked, and gets every     *)
(* push, from its WebSocket handshake on, before its client has logged in.    *)
EXTENDS Integers, Sequences, FiniteSets

CONSTANTS Conn,              \* connections, one per client
          MaxConnections,    \* _MAX_CONNECTIONS
          MaxPushes          \* a bound: pushes in a behaviour

ServerAssumption == MaxConnections \in Nat /\ MaxPushes \in Nat

VARIABLES server,            \* "listening", "waiting" in wait_closed, "closing", "stopped"
          count,             \* _connection_count
          tracked,           \* _connections
          handler,           \* connection -> where its handler is
          client,            \* connection -> where its client is
          wire,              \* connection -> messages on their way to the client
          said,              \* connection -> the client's message the server has yet to read
          serverChunks,      \* the server was configured to send large answers in chunks
          wants,             \* connection -> the client asks for chunks
          pushes,            \* the number of pushes so far
          forgotten          \* how many handlers the last stop took off the count
                             \* although they had yet to take themselves off

vars == <<server, count, tracked, handler, client, wire, said, serverChunks, wants, pushes,
          forgotten>>

\* What the server answers each message of the login with, and what the client
\* takes for an answer to it.
ReplyAtOnce == [hello |-> "hello", scram |-> "authOk", final |-> "authOk"]
                                       \* mutant: client-first is answered by the end
Reply == [hello |-> "hello", scram |-> "scram", final |-> "authOk"]
Awaited == [hello |-> "hello", scram |-> "scram", final |-> "authOk"]
InLogin == {"hello", "scram", "final"}
Counted == {"accepting", "hello", "scram", "final", "serving", "ending"}
HavePlace == {c \in Conn : handler[c] \in Counted}

Init ==
    /\ server = "listening" /\ count = 0 /\ tracked = {} /\ pushes = 0
    /\ forgotten = 0
    /\ handler = [c \in Conn |-> "none"]
    /\ client = [c \in Conn |-> "none"]
    /\ wire = [c \in Conn |-> <<>>]
    /\ said = [c \in Conn |-> "nothing"]
    /\ serverChunks \in BOOLEAN
    /\ wants \in [Conn -> BOOLEAN]

Goes(c, where) == handler' = [handler EXCEPT ![c] = where]
Full == count >= MaxConnections

Connect(c) ==
    /\ server = "listening" /\ handler[c] = "none" /\ client[c] = "none"
    /\ ~Full
    /\ count' = count + 1
    /\ Goes(c, "accepting")
    /\ client' = [client EXCEPT ![c] = "dialing"]
    /\ UNCHANGED <<server, tracked, wire, said, serverChunks, wants, pushes, forgotten>>

Accept(c) ==
    /\ handler[c] = "accepting" /\ client[c] = "dialing"
    /\ tracked' = tracked \cup {c}
    /\ Goes(c, "hello")
    /\ client' = [client EXCEPT ![c] = "hello"]
    /\ said' = [said EXCEPT ![c] = "hello"]
    /\ UNCHANGED <<server, count, wire, serverChunks, wants, pushes, forgotten>>

\* One step of _scram_authenticate: hello, client-first and client-final, each
\* answered or refused.  A refusal ends the handler.
LoginStep(c, refused) ==
    /\ handler[c] \in InLogin /\ said[c] = handler[c]
    /\ said' = [said EXCEPT ![c] = "nothing"]
    /\ wire' = [wire EXCEPT ![c] = Append(@, IF refused THEN "authErr" ELSE Reply[handler[c]])]
    /\ Goes(c, IF refused THEN "ending"
               ELSE CASE handler[c] = "hello" -> "scram"
                      [] handler[c] = "scram" -> "final"
                      [] OTHER -> "serving")
    /\ UNCHANGED <<server, count, tracked, client, serverChunks, wants, pushes, forgotten>>

\* _handle_capabilities: the server answers with what both sides can do.
Agreed(c) == wants[c] /\ serverChunks

Capabilities(c) ==
    /\ handler[c] = "serving" /\ said[c] = "caps"
    /\ said' = [said EXCEPT ![c] = "nothing"]
    /\ wire' = [wire EXCEPT ![c] = Append(@, IF Agreed(c) THEN "chunks" ELSE "no chunks")]
    /\ UNCHANGED <<server, count, tracked, handler, client, serverChunks, wants, pushes,
                   forgotten>>

Push ==
    /\ pushes < MaxPushes /\ tracked # {}
    /\ pushes' = pushes + 1
    /\ wire' = [c \in Conn |-> IF c \in tracked THEN Append(wire[c], "push") ELSE wire[c]]
    /\ UNCHANGED <<server, count, tracked, handler, client, said, serverChunks, wants,
                   forgotten>>

\* The client reads one message in its login: anything but the reply it waits
\* for is an AuthError, and leaves the connection as it is.
ClientLogin(c) ==
    LET next == CASE client[c] = "hello" -> "scram"
                  [] client[c] = "scram" -> "final"
                  [] OTHER -> IF wants[c] THEN "caps" ELSE "open plain"
        ok == Head(wire[c]) = Awaited[client[c]] IN
    /\ client[c] \in InLogin /\ wire[c] # <<>>
    /\ wire' = [wire EXCEPT ![c] = Tail(@)]
    /\ client' = [client EXCEPT ![c] =
                     CASE ok -> next
                       [] ~ok /\ Head(wire[c]) = "push" -> "failed by push"
                       [] OTHER -> "refused"]
    /\ said' = IF ok /\ next # "open plain" THEN [said EXCEPT ![c] = next] ELSE said
    /\ UNCHANGED <<server, count, tracked, handler, serverChunks, wants, pushes, forgotten>>

\* _negotiate_capabilities: any other message, or none in five seconds, is taken
\* for a server that does not know the question.
ClientCaps(c) ==
    /\ client[c] = "caps"
    /\ \/ /\ wire[c] # <<>>
          /\ wire' = [wire EXCEPT ![c] = Tail(@)]
          /\ client' = [client EXCEPT ![c] =
                           IF Head(wire[c]) = "chunks" THEN "open chunked" ELSE "open plain"]
       \/ /\ wire' = wire
          /\ client' = [client EXCEPT ![c] = "open plain"]
    /\ UNCHANGED <<server, count, tracked, handler, said, serverChunks, wants, pushes,
                   forgotten>>

\* The receive loop of an open client takes pushes and ignores what nobody asked for.
ClientReads(c) ==
    /\ client[c] \in {"open plain", "open chunked"} /\ wire[c] # <<>>
    /\ wire' = [wire EXCEPT ![c] = Tail(@)]
    /\ UNCHANGED <<server, count, tracked, handler, client, said, serverChunks, wants, pushes,
                   forgotten>>

\* The client goes away: closed, refused, or its process ended.
ClientLeaves(c) ==
    /\ client[c] \notin {"none", "gone"}
    /\ client' = [client EXCEPT ![c] = "gone"]
    /\ wire' = [wire EXCEPT ![c] = <<>>] /\ said' = [said EXCEPT ![c] = "nothing"]
    /\ UNCHANGED <<server, count, tracked, handler, serverChunks, wants, pushes, forgotten>>

\* The handler notices that its client is gone, gives up a WebSocket handshake that
\* fails or takes more than ten seconds, or gives up waiting for a login.
HandlerEnds(c) ==
    /\ \/ handler[c] = "serving" /\ client[c] = "gone"
       \/ handler[c] \in {"accepting"} \cup InLogin
    /\ Goes(c, "ending")
    /\ UNCHANGED <<server, count, tracked, client, wire, said, serverChunks, wants, pushes,
                   forgotten>>

CountKept(c) == count                  \* mutant: the handler leaves its place taken
CountAfter(c) == count - 1

\* The finally of _handle_client.
Finally(c) ==
    /\ handler[c] = "ending"
    /\ count' = CountAfter(c)
    /\ tracked' = tracked \ {c}
    /\ Goes(c, "closing")
    /\ UNCHANGED <<server, client, wire, said, serverChunks, wants, pushes, forgotten>>

\* ws.close() ends the connection; the name serves for the next client then.
Closed(c) ==
    /\ handler[c] = "closing"
    /\ Goes(c, "none")
    /\ client' = [client EXCEPT ![c] = "none"]
    /\ wire' = [wire EXCEPT ![c] = <<>>] /\ said' = [said EXCEPT ![c] = "nothing"]
    /\ UNCHANGED <<server, count, tracked, serverChunks, wants, pushes, forgotten>>

Stop ==
    /\ server = "listening"
    /\ server' = "waiting"
    /\ UNCHANGED <<count, tracked, handler, client, wire, said, serverChunks, wants, pushes,
                   forgotten>>

\* asyncio.Server.wait_closed returns when the last transport is closed, which may
\* be before the handlers of these connections have come to their finally; only
\* then does stop close the connections that are tracked.
TransportClosed(c) == handler[c] = "none" \/ client[c] = "gone"
StopWaited ==
    /\ server = "waiting" /\ \A c \in Conn : TransportClosed(c)
    /\ server' = "closing"
    /\ UNCHANGED <<count, tracked, handler, client, wire, said, serverChunks, wants, pushes,
                   forgotten>>
StopDone ==
    /\ server = "closing"
    /\ server' = "stopped" /\ count' = 0 /\ forgotten' = Cardinality(HavePlace)
    /\ client' = [c \in Conn |-> IF c \in tracked THEN "gone" ELSE client[c]]
    /\ UNCHANGED <<tracked, handler, wire, said, serverChunks, wants, pushes>>
Restart ==
    /\ server = "stopped"
    /\ server' = "listening"
    /\ UNCHANGED <<count, tracked, handler, client, wire, said, serverChunks, wants, pushes,
                   forgotten>>

Handler(c) == \/ Accept(c) \/ \E refused \in BOOLEAN : LoginStep(c, refused)
              \/ Capabilities(c) \/ HandlerEnds(c) \/ Finally(c) \/ Closed(c)
Client(c) == ClientLogin(c) \/ ClientCaps(c) \/ ClientReads(c) \/ ClientLeaves(c)

Next ==
    \/ \E c \in Conn : Connect(c) \/ Handler(c) \/ Client(c)
    \/ Push \/ Stop \/ StopWaited \/ StopDone \/ Restart

Spec == Init /\ [][Next]_vars

\* The server's own tasks get on; clients need not do anything.
FairSpec == Spec /\ WF_vars(StopWaited) /\ WF_vars(StopDone)
                 /\ \A c \in Conn : WF_vars(Handler(c))

------------------------------------------------------------------------------
\* The count is the number of handlers that have a place, whichever way they end
\* and however often the server is stopped and started, less only those that the
\* last stop found still on their way to their finally: they take themselves off a
\* count that is 0 already, so that it goes below the truth, and after a restart
\* below 0, by just as many.  No place is lost to a handler that is gone, and the
\* limit is exceeded by no more than these.
PlacesAreCounted ==
    /\ count = Cardinality(HavePlace) - forgotten
    /\ Cardinality(HavePlace) <= MaxConnections + forgotten

\* A login the server has not refused fails only by a push that came between the
\* messages of the handshake.
LoginMeetsPush ==
    \A c \in Conn : client[c] \in {"refused", "failed by push"} =>
        handler[c] \in {"ending", "closing"} \/ pushes > 0

\* ws_server.py:180: "Stop the server and close all connections."
StopCloses == server = "waiting" ~> server = "stopped"
==============================================================================
