----------------------------- MODULE MCConnections -----------------------------
(* The calls of a WebSocket client, the connections of a WebSocket server, the *)
(* chunks on one connection and the requests of an HTTP client have no state   *)
(* in common: a behaviour picks one of the four and leaves the others as they  *)
(* start.                                                                      *)
EXTENDS WsCalls, Integers, TLC

CONSTANTS Conn, MaxConnections, MaxPushes,
          Pusher, Key, PushKey, Total, None, Ttl, Period, MaxWire, MaxTransfers,
          MaxTokens, MaxCalls

VARIABLES part,
          server, count, tracked, handler, client, wire, said, serverChunks, wants, pushes,
          forgotten,
          sending, begun, used, frames, buffers, totals, ages, idle, open, assembled,
          delivered, tainted,
          secured, session, password, token, request, valid, handshakes, accepts, admits,
          issued, happened

serverVars == <<server, count, tracked, handler, client, wire, said, serverChunks, wants, pushes,
                forgotten>>
chunkVars == <<sending, begun, used, frames, buffers, totals, ages, idle, open, assembled,
               delivered, tainted>>
httpVars == <<secured, session, password, token, request, valid, handshakes, accepts, admits,
              issued, happened>>

Server == INSTANCE WsServer
Chunks == INSTANCE ChunkTransfer WITH wire <- frames
Http == INSTANCE HttpClientAuth

ASSUME ConnectionsAssumption ==
    Server!ServerAssumption /\ Chunks!ChunkAssumption /\ Http!ClientAssumption

ConnectionsInit ==
    /\ Init /\ Server!Init /\ Chunks!Init /\ Http!Init
    /\ part \in {"calls", "server", "chunks", "http"}
    /\ part = "calls" \/ (~binary /\ ~concurrent)
    /\ part = "server" \/ (~serverChunks /\ \A c \in Conn : ~wants[c])
    /\ part = "http" \/ ~secured

ConnectionsNext ==
    \/ part = "calls" /\ Next /\ UNCHANGED <<part, serverVars, chunkVars, httpVars>>
    \/ part = "server" /\ Server!Next /\ UNCHANGED <<part, vars, chunkVars, httpVars>>
    \/ part = "chunks" /\ Chunks!Next /\ UNCHANGED <<part, vars, serverVars, httpVars>>
    \/ part = "http" /\ Http!Next /\ UNCHANGED <<part, vars, serverVars, chunkVars>>

ConnectionsSpec ==
    ConnectionsInit /\ [][ConnectionsNext]_<<part, vars, serverVars, chunkVars, httpVars>>

Symmetry == Permutations(Task) \cup Permutations(Conn)

PlacesAreCounted == Server!PlacesAreCounted
LoginMeetsPush == Server!LoginMeetsPush
PayloadIsOneTransfer == Chunks!PayloadIsOneTransfer
RunOnce == Http!RunOnce
AuthErrorHasCause == Http!AuthErrorHasCause
==============================================================================
