-------------------------- MODULE MCConnections_proofs --------------------------
(* Proofs about the connections of a WebSocket server, the chunks on one         *)
(* connection, the requests of an HTTP client and the calls of a WebSocket       *)
(* client, for any constants that satisfy the assumptions of their modules.  The *)
(* calls are proved about by themselves, the others as parts of the              *)
(* specification that the run "connections" checks.                              *)
EXTENDS MCConnections, FiniteSetTheorems, SequenceTheorems, TLAPS

-----------------------------------------------------------------------------
(* The connections of a server.                                              *)

Place == {"none", "accepting", "hello", "scram", "final", "serving", "ending", "closing"}
Tracked == {"hello", "scram", "final", "serving", "ending"}
Taken == {c \in Conn : handler[c] \in Server!Counted}

ServerTyped ==
  /\ server \in {"listening", "waiting", "closing", "stopped"}
  /\ handler \in [Conn -> Place] /\ tracked \in SUBSET Conn
  /\ DOMAIN client = Conn /\ DOMAIN wire = Conn /\ DOMAIN said = Conn
  /\ count \in Int /\ pushes \in Nat /\ forgotten \in Nat

\* The count is that of the places taken, but for those the last stop forgot.
Counting ==
  /\ IsFiniteSet(Taken) /\ count = Cardinality(Taken) - forgotten /\ count <= MaxConnections
  /\ \A c \in tracked : handler[c] \in Tracked

\* Where a handler and its client are, and what is between them, as long as
\* nothing is pushed: each message of the login waits to be read by the server,
\* or its reply by the client.
NextPlace == [hello |-> "scram", scram |-> "final", final |-> "serving"]
InStep(c) ==
  \/ handler[c] \in {"ending", "closing"}
  \/ handler[c] # "none" /\ client[c] = "gone"
  \/ handler[c] = "none" /\ client[c] = "none" /\ wire[c] = <<>>
  \/ handler[c] = "accepting" /\ client[c] = "dialing" /\ wire[c] = <<>>
  \/ /\ handler[c] \in Server!InLogin /\ client[c] = handler[c] /\ said[c] = handler[c]
     /\ wire[c] = <<>>
  \/ /\ client[c] \in Server!InLogin /\ handler[c] = NextPlace[client[c]] /\ said[c] = "nothing"
     /\ wire[c] = <<Server!Reply[client[c]]>>
  \/ handler[c] = "serving" /\ client[c] \in {"caps", "open plain", "open chunked"}

ServerInv == ServerTyped /\ Counting /\ (pushes = 0 => \A c \in Conn : InStep(c))

LEMMA OneMessage ==
  ASSUME NEW m
  PROVE  Append(<<>>, m) = <<m>> /\ Head(<<m>>) = m /\ Tail(<<m>>) = <<>>
OBVIOUS

LEMMA ServerInitInv == Server!Init => ServerInv
<1> SUFFICES ASSUME Server!Init PROVE ServerInv
  OBVIOUS
<1>1. Taken = {}
  BY DEF Server!Init, Taken, Server!Counted
<1>2. IsFiniteSet(Taken) /\ Cardinality(Taken) = 0
  BY <1>1, FS_EmptySet
<1>3. MaxConnections \in Nat
  BY ConnectionsAssumption DEF Server!ServerAssumption
<1>4. Counting
  BY <1>2, <1>3 DEF Server!Init, Counting
<1>5. ServerTyped /\ \A c \in Conn : InStep(c)
  BY DEF Server!Init, ServerTyped, Place, InStep
<1>6. QED
  BY <1>4, <1>5 DEF ServerInv

\* A step of one connection keeps the others in step.
LEMMA InStepOfOthers ==
  ASSUME ServerInv, NEW c \in Conn,
         \A d \in Conn \ {c} : /\ handler'[d] = handler[d] /\ client'[d] = client[d]
                               /\ wire'[d] = wire[d] /\ said'[d] = said[d],
         pushes' = pushes,
         pushes = 0 /\ InStep(c) => InStep(c)'
  PROVE  pushes' = 0 => \A d \in Conn : InStep(d)'
<1>1. ASSUME pushes = 0, NEW d \in Conn \ {c} PROVE InStep(d)'
  BY <1>1 DEF ServerInv, InStep
<1>2. QED
  BY <1>1 DEF ServerInv

\* A handler that moves within the places that count, or without.
LEMMA PlaceKept ==
  ASSUME ServerInv, NEW c \in Conn, NEW p \in Place, handler' = [handler EXCEPT ![c] = p],
         p \in Server!Counted <=> handler[c] \in Server!Counted,
         p \in Tracked \/ tracked' \subseteq tracked \ {c}, tracked' \subseteq tracked \union {c},
         handler[c] # "none", UNCHANGED <<server, count, forgotten>>
  PROVE  Counting' /\ handler' \in [Conn -> Place]
<1>1. handler \in [Conn -> Place] /\ Counting
  BY DEF ServerInv, ServerTyped
<1>2. Taken' = Taken
  BY <1>1 DEF Taken
<1>3. QED
  BY <1>1, <1>2 DEF Counting

LEMMA ServerConnect ==
  ASSUME ServerInv, NEW c \in Conn, Server!Connect(c)
  PROVE  ServerInv'
<1>1. /\ handler \in [Conn -> Place] /\ Counting /\ ServerTyped /\ count \in Int
      /\ handler[c] = "none" /\ client[c] = "none" /\ count < MaxConnections
  <2>1. MaxConnections \in Nat
    BY ConnectionsAssumption DEF Server!ServerAssumption
  <2>2. handler \in [Conn -> Place] /\ Counting /\ ServerTyped /\ count \in Int
    BY DEF ServerInv, ServerTyped
  <2>3. QED
    BY <2>1, <2>2 DEF Server!Connect, Server!Full
<1>2. /\ handler' = [handler EXCEPT ![c] = "accepting"] /\ client' = [client EXCEPT ![c] = "dialing"]
      /\ count' = count + 1 /\ server = "listening"
      /\ UNCHANGED <<server, tracked, wire, said, serverChunks, wants, pushes, forgotten>>
  BY DEF Server!Connect, Server!Goes
<1>3. Taken' = Taken \union {c} /\ c \notin Taken
  BY <1>1, <1>2 DEF Taken, Server!Counted
<1>4. IsFiniteSet(Taken) /\ count = Cardinality(Taken) - forgotten /\ forgotten \in Nat
  BY <1>1 DEF Counting, ServerTyped
<1>5. IsFiniteSet(Taken') /\ count' = Cardinality(Taken') - forgotten' /\ count' <= MaxConnections
  <2>1. IsFiniteSet(Taken \union {c}) /\ Cardinality(Taken \union {c}) = Cardinality(Taken) + 1
    BY <1>3, <1>4, FS_AddElement
  <2>2. MaxConnections \in Nat /\ Cardinality(Taken) \in Nat
    BY <1>4, FS_CardinalityType, ConnectionsAssumption DEF Server!ServerAssumption
  <2>3. count + 1 = Cardinality(Taken) + 1 - forgotten /\ count + 1 <= MaxConnections
    BY <1>1, <1>4, <2>2
  <2>4. forgotten' = forgotten /\ count' = count + 1
    BY <1>2
  <2>5. IsFiniteSet(Taken') /\ Cardinality(Taken') = Cardinality(Taken) + 1
    BY <1>3, <2>1
  <2>6. QED
    BY <1>1, <1>4, <2>2, <2>3, <2>4, <2>5
<1>6. Counting'
  <2>1. \A d \in tracked' : handler'[d] \in Tracked
    BY <1>1, <1>2 DEF Counting, ServerTyped, Tracked
  <2>2. QED
    BY <1>2, <1>5, <2>1 DEF Counting
<1>7. ServerTyped'
  <2>1. handler' \in [Conn -> Place]
    BY <1>1, <1>2 DEF Place
  <2>2. QED
    BY <1>1, <1>2, <2>1 DEF ServerTyped
<1>8. pushes' = 0 => \A d \in Conn : InStep(d)'
  <2>1. InStep(c) => InStep(c)'
    BY <1>1, <1>2 DEF InStep, ServerTyped, Server!InLogin, NextPlace
  <2>2. QED
    BY <1>1, <1>2, <2>1, InStepOfOthers DEF ServerTyped
<1>9. QED
  BY <1>6, <1>7, <1>8 DEF ServerInv

LEMMA ServerAccept ==
  ASSUME ServerInv, NEW c \in Conn, Server!Accept(c)
  PROVE  ServerInv'
<1>1. ServerTyped /\ handler[c] = "accepting" /\ client[c] = "dialing"
  BY DEF ServerInv, Server!Accept
<1>2. /\ handler' = [handler EXCEPT ![c] = "hello"] /\ client' = [client EXCEPT ![c] = "hello"]
      /\ said' = [said EXCEPT ![c] = "hello"] /\ tracked' = tracked \union {c}
      /\ UNCHANGED <<server, count, wire, serverChunks, wants, pushes, forgotten>>
  BY DEF Server!Accept, Server!Goes
<1>3. Counting' /\ handler' \in [Conn -> Place]
  BY <1>1, <1>2, PlaceKept DEF Place, Tracked, Server!Counted
<1>4. ServerTyped'
  BY <1>1, <1>2, <1>3 DEF ServerTyped
<1>5. InStep(c) => InStep(c)'
  BY <1>1, <1>2 DEF InStep, ServerTyped, Server!InLogin, NextPlace
<1>6. QED
  BY <1>1, <1>2, <1>3, <1>4, <1>5, InStepOfOthers DEF ServerInv, ServerTyped

LEMMA ServerLoginStep ==
  ASSUME ServerInv, NEW c \in Conn, NEW refused \in BOOLEAN, Server!LoginStep(c, refused)
  PROVE  ServerInv'
<1> DEFINE p == IF refused THEN "ending"
                ELSE CASE handler[c] = "hello" -> "scram"
                       [] handler[c] = "scram" -> "final"
                       [] OTHER -> "serving"
           m == IF refused THEN "authErr" ELSE Server!Reply[handler[c]]
<1>1. ServerTyped /\ handler[c] \in Server!InLogin /\ said[c] = handler[c]
  BY DEF ServerInv, Server!LoginStep
<1>2. /\ handler' = [handler EXCEPT ![c] = p]
      /\ wire' = [wire EXCEPT ![c] = Append(@, m)] /\ said' = [said EXCEPT ![c] = "nothing"]
      /\ UNCHANGED <<server, count, tracked, client, serverChunks, wants, pushes, forgotten>>
  BY DEF Server!LoginStep, Server!Goes
<1>3. p = "ending" \/ (p = NextPlace[handler[c]] /\ m = Server!Reply[handler[c]])
  BY <1>1 DEF Server!InLogin, NextPlace
<1>4. p \in Tracked
  BY <1>1, <1>3 DEF Server!InLogin, NextPlace, Tracked
<1> HIDE DEF p, m
<1>5. Counting' /\ handler' \in [Conn -> Place]
  <2>1. /\ handler[c] # "none" /\ handler[c] \in Server!Counted
        /\ p \in Place /\ p \in Server!Counted
    BY <1>1, <1>4 DEF Server!InLogin, Server!Counted, Tracked, Place
  <2>2. QED
    BY <1>1, <1>2, <1>4, <2>1, PlaceKept
<1>6. ServerTyped'
  BY <1>1, <1>2, <1>5 DEF ServerTyped
<1>7. InStep(c) => InStep(c)'
  <2>1. handler'[c] = p /\ said'[c] = "nothing" /\ wire'[c] = Append(wire[c], m) /\ client'[c] = client[c]
    BY <1>1, <1>2 DEF ServerTyped
  <2>2. p \notin {"none"}
    BY <1>4 DEF Tracked
  <2>3. CASE p = "ending"
    BY <2>1, <2>3 DEF InStep
  <2>4. CASE client[c] = "gone"
    BY <2>1, <2>2, <2>4 DEF InStep
  <2>5. ASSUME p # "ending", InStep(c), client[c] # "gone" PROVE InStep(c)'
    <3>1. client[c] = handler[c] /\ wire[c] = <<>>
      BY <1>1, <2>5 DEF InStep, Server!InLogin, NextPlace
    <3>2. wire'[c] = <<m>>
      BY <2>1, <3>1, OneMessage
    <3>3. QED
      BY <1>1, <1>3, <2>1, <2>5, <3>1, <3>2 DEF InStep
  <2>6. QED
    BY <2>3, <2>4, <2>5
<1>8. QED
  BY <1>1, <1>2, <1>5, <1>6, <1>7, InStepOfOthers DEF ServerInv, ServerTyped

LEMMA ServerPush ==
  ASSUME ServerInv, Server!Push
  PROVE  ServerInv'
<1>1. /\ pushes' = pushes + 1 /\ DOMAIN wire' = Conn
      /\ UNCHANGED <<server, count, tracked, handler, client, said, serverChunks, wants, forgotten>>
  BY DEF Server!Push
<1>2. ServerTyped' /\ pushes' # 0
  <2>1. pushes \in Nat
    BY DEF ServerInv, ServerTyped
  <2>2. pushes' \in Nat /\ pushes' # 0
    BY <1>1, <2>1
  <2>3. QED
    BY <1>1, <2>2 DEF ServerInv, ServerTyped
<1>3. Counting'
  BY <1>1 DEF ServerInv, Counting, Taken
<1>4. QED
  BY <1>2, <1>3 DEF ServerInv

\* The client's steps leave the server as it is.
LEMMA ClientStep ==
  ASSUME ServerInv, NEW c \in Conn, UNCHANGED <<server, count, tracked, handler, pushes, forgotten>>,
         DOMAIN client' = Conn, DOMAIN wire' = Conn, DOMAIN said' = Conn,
         \A d \in Conn \ {c} : client'[d] = client[d] /\ wire'[d] = wire[d] /\ said'[d] = said[d],
         pushes = 0 /\ InStep(c) => InStep(c)'
  PROVE  ServerInv'
<1>1. ServerTyped'
  BY DEF ServerInv, ServerTyped
<1>2. Counting'
  BY DEF ServerInv, Counting, Taken
<1>3. QED
  BY <1>1, <1>2, InStepOfOthers DEF ServerInv, ServerTyped

\* A connection that awaits no push reads the reply it waits for.
LEMMA ServerClientLogin ==
  ASSUME ServerInv, NEW c \in Conn, Server!ClientLogin(c)
  PROVE  ServerInv'
<1> DEFINE next == CASE client[c] = "hello" -> "scram"
                     [] client[c] = "scram" -> "final"
                     [] OTHER -> IF wants[c] THEN "caps" ELSE "open plain"
           ok == Head(wire[c]) = Server!Awaited[client[c]]
           s == CASE ok -> next
                  [] ~ ok /\ Head(wire[c]) = "push" -> "failed by push"
                  [] OTHER -> "refused"
           m == IF ok /\ next # "open plain" THEN next ELSE said[c]
<1>1. ServerTyped /\ client[c] \in Server!InLogin /\ wire[c] # <<>>
  BY DEF ServerInv, Server!ClientLogin
<1>2. /\ wire' = [wire EXCEPT ![c] = Tail(wire[c])] /\ client' = [client EXCEPT ![c] = s]
      /\ UNCHANGED <<server, count, tracked, handler, serverChunks, wants, pushes, forgotten>>
  BY DEF Server!ClientLogin
<1>3. said' = IF ok /\ next # "open plain" THEN [said EXCEPT ![c] = next] ELSE said
  BY DEF Server!ClientLogin
<1>4. handler'[c] = handler[c] /\ client'[c] = s /\ wire'[c] = Tail(wire[c]) /\ said'[c] = m
  <2> HIDE DEF s, ok, next
  <2>1. QED
    BY <1>1, <1>2, <1>3 DEF ServerTyped
<1>5. ASSUME InStep(c) PROVE InStep(c)'
  <2>1. CASE handler[c] \in {"ending", "closing"}
    BY <1>4, <2>1 DEF InStep
  <2>2. CASE handler[c] \notin {"ending", "closing"}
    <3>1. /\ handler[c] = NextPlace[client[c]] /\ said[c] = "nothing"
          /\ wire[c] = <<Server!Reply[client[c]]>>
      BY <1>1, <1>5, <2>2 DEF InStep, Server!InLogin, NextPlace
    <3>2. ok /\ Tail(wire[c]) = <<>>
      BY <1>1, <3>1, OneMessage DEF Server!Reply, Server!Awaited, Server!InLogin
    <3>3. s = next
      BY <3>2
    <3>4. CASE client[c] \in {"hello", "scram"}
      <4>1. next = handler[c] /\ next \in {"scram", "final"}
        <5>1. CASE client[c] = "hello"
          BY <3>1, <5>1 DEF NextPlace
        <5>2. CASE client[c] = "scram"
          BY <3>1, <5>2 DEF NextPlace
        <5>3. QED
          BY <3>4, <5>1, <5>2
      <4>2. m = next
        BY <3>2, <4>1 DEF Server!InLogin
      <4>3. QED
        BY <1>4, <3>2, <3>3, <4>1, <4>2 DEF InStep, Server!InLogin
    <3>5. CASE client[c] = "final"
      <4>1. next \in {"caps", "open plain"}
        BY <3>5
      <4>2. handler[c] = "serving"
        BY <3>1, <3>5 DEF NextPlace
      <4>3. QED
        BY <1>4, <3>3, <4>1, <4>2 DEF InStep
    <3>6. QED
      BY <1>1, <3>4, <3>5 DEF Server!InLogin
  <2>3. QED
    BY <2>1, <2>2
<1> HIDE DEF s, ok, next
<1>6. QED
  BY <1>1, <1>2, <1>3, <1>5, ClientStep DEF ServerTyped

\* Once a client is in, what it reads makes no difference to its login.
LEMMA ServerClientOthers ==
  ASSUME ServerInv, NEW c \in Conn,
         Server!ClientCaps(c) \/ Server!ClientReads(c) \/ Server!ClientLeaves(c)
  PROVE  ServerInv'
<1>1. ServerTyped
  BY DEF ServerInv
<1>2. /\ DOMAIN client' = Conn /\ DOMAIN wire' = Conn /\ DOMAIN said' = Conn
      /\ \A d \in Conn \ {c} : client'[d] = client[d] /\ wire'[d] = wire[d] /\ said'[d] = said[d]
      /\ \/ /\ client[c] \in {"caps", "open plain", "open chunked"}
            /\ client'[c] \in {"open plain", "open chunked"}
         \/ client[c] # "none" /\ client'[c] = "gone"
  <2>1. CASE Server!ClientCaps(c)
    BY <1>1, <2>1 DEF Server!ClientCaps, ServerTyped
  <2>2. CASE Server!ClientReads(c)
    BY <1>1, <2>2 DEF Server!ClientReads, ServerTyped
  <2>3. CASE Server!ClientLeaves(c)
    BY <1>1, <2>3 DEF Server!ClientLeaves, ServerTyped
  <2>4. QED
    BY <2>1, <2>2, <2>3
<1>3. UNCHANGED <<server, count, tracked, handler, pushes, forgotten>>
  BY DEF Server!ClientCaps, Server!ClientReads, Server!ClientLeaves
<1>4. InStep(c) => InStep(c)'
  <2>1. CASE client[c] # "none" /\ client'[c] = "gone"
    <3>1. ASSUME InStep(c) PROVE handler[c] # "none"
      <4>1. CASE client[c] \in Server!InLogin /\ handler[c] = NextPlace[client[c]]
        BY <4>1 DEF Server!InLogin, NextPlace
      <4>2. QED
        BY <2>1, <3>1, <4>1 DEF InStep, Server!InLogin
    <3>2. QED
      BY <1>3, <2>1, <3>1 DEF InStep
  <2>2. CASE /\ client[c] \in {"caps", "open plain", "open chunked"}
             /\ client'[c] \in {"open plain", "open chunked"}
    BY <1>3, <2>2 DEF InStep, Server!InLogin, NextPlace
  <2>3. QED
    BY <1>2, <2>1, <2>2
<1>5. QED
  BY <1>2, <1>3, <1>4, ClientStep

LEMMA ServerCapabilities ==
  ASSUME ServerInv, NEW c \in Conn, Server!Capabilities(c)
  PROVE  ServerInv'
<1> DEFINE w == Append(wire[c], IF Server!Agreed(c) THEN "chunks" ELSE "no chunks")
<1>1. ServerTyped /\ handler[c] = "serving" /\ said[c] = "caps"
  BY DEF ServerInv, Server!Capabilities
<1>2. /\ wire' = [wire EXCEPT ![c] = w] /\ said' = [said EXCEPT ![c] = "nothing"]
      /\ UNCHANGED <<server, count, tracked, handler, client, serverChunks, wants, pushes, forgotten>>
  BY DEF Server!Capabilities
<1> HIDE DEF w
<1>4. InStep(c) => InStep(c)'
  BY <1>1, <1>2 DEF InStep, Server!InLogin, NextPlace, ServerTyped
<1>5. QED
  BY <1>1, <1>2, <1>4, ClientStep DEF ServerTyped

LEMMA ServerHandlerEnds ==
  ASSUME ServerInv, NEW c \in Conn, Server!HandlerEnds(c)
  PROVE  ServerInv'
<1>1. ServerTyped /\ handler[c] \in Server!InLogin \union {"accepting", "serving"}
  BY DEF ServerInv, Server!HandlerEnds
<1>2. /\ handler' = [handler EXCEPT ![c] = "ending"]
      /\ UNCHANGED <<server, count, tracked, client, wire, said, serverChunks, wants, pushes, forgotten>>
  BY DEF Server!HandlerEnds, Server!Goes
<1>3. Counting' /\ handler' \in [Conn -> Place]
  <2>1. handler[c] # "none" /\ handler[c] \in Server!Counted
    BY <1>1 DEF Server!InLogin, Server!Counted
  <2>2. "ending" \in Place /\ "ending" \in Tracked /\ "ending" \in Server!Counted
    BY DEF Place, Tracked, Server!Counted
  <2>3. QED
    BY <1>2, <2>1, <2>2, PlaceKept
<1>4. ServerTyped'
  BY <1>1, <1>2, <1>3 DEF ServerTyped
<1>5. InStep(c)'
  BY <1>1, <1>2 DEF InStep, ServerTyped
<1>6. QED
  BY <1>1, <1>2, <1>3, <1>4, <1>5, InStepOfOthers DEF ServerInv, ServerTyped

LEMMA ServerFinally ==
  ASSUME ServerInv, NEW c \in Conn, Server!Finally(c)
  PROVE  ServerInv'
<1>1. ServerTyped /\ Counting /\ handler \in [Conn -> Place] /\ handler[c] = "ending"
  BY DEF ServerInv, ServerTyped, Server!Finally
<1>2. /\ handler' = [handler EXCEPT ![c] = "closing"] /\ count' = count - 1 /\ tracked' = tracked \ {c}
      /\ UNCHANGED <<server, client, wire, said, serverChunks, wants, pushes, forgotten>>
  BY DEF Server!Finally, Server!Goes, Server!CountAfter
<1>3. Taken' = Taken \ {c} /\ c \in Taken
  BY <1>1, <1>2 DEF Taken, Server!Counted
<1>4. /\ IsFiniteSet(Taken) /\ count = Cardinality(Taken) - forgotten /\ count <= MaxConnections
      /\ forgotten \in Nat
  BY <1>1 DEF Counting, ServerTyped
<1>5. /\ IsFiniteSet(Taken') /\ count' = Cardinality(Taken') - forgotten'
      /\ count' <= MaxConnections /\ count' \in Int
  <2>1. IsFiniteSet(Taken \ {c}) /\ Cardinality(Taken \ {c}) = Cardinality(Taken) - 1
    BY <1>3, <1>4, FS_RemoveElement
  <2>2. Cardinality(Taken \ {c}) \in Nat /\ Cardinality(Taken) \in Nat
    BY <1>4, <2>1, FS_CardinalityType
  <2>3. MaxConnections \in Nat
    BY ConnectionsAssumption DEF Server!ServerAssumption
  <2>4. /\ count - 1 = Cardinality(Taken) - 1 - forgotten /\ count - 1 <= MaxConnections
        /\ count - 1 \in Int
    BY <1>4, <2>2, <2>3
  <2>5. QED
    BY <1>2, <1>3, <2>1, <2>4
<1>6. Counting'
  <2>1. \A d \in tracked' : handler'[d] \in Tracked
    BY <1>1, <1>2 DEF Counting, ServerTyped
  <2>2. QED
    BY <1>5, <2>1 DEF Counting
<1>7. ServerTyped'
  <2>1. handler' \in [Conn -> Place]
    BY <1>1, <1>2 DEF Place
  <2>2. QED
    BY <1>1, <1>2, <1>5, <2>1 DEF ServerTyped
<1>8. InStep(c)'
  BY <1>1, <1>2 DEF InStep
<1>9. QED
  BY <1>1, <1>2, <1>6, <1>7, <1>8, InStepOfOthers DEF ServerInv, ServerTyped

LEMMA ServerClosed ==
  ASSUME ServerInv, NEW c \in Conn, Server!Closed(c)
  PROVE  ServerInv'
<1>1. /\ ServerTyped /\ Counting /\ handler \in [Conn -> Place] /\ handler[c] = "closing"
      /\ tracked \in SUBSET Conn
  BY DEF ServerInv, ServerTyped, Server!Closed
<1>2. /\ handler' = [handler EXCEPT ![c] = "none"] /\ client' = [client EXCEPT ![c] = "none"]
      /\ wire' = [wire EXCEPT ![c] = <<>>] /\ said' = [said EXCEPT ![c] = "nothing"]
      /\ UNCHANGED <<server, count, tracked, serverChunks, wants, pushes, forgotten>>
  BY DEF Server!Closed, Server!Goes
<1>3. c \notin tracked
  BY <1>1 DEF Counting, Tracked
<1>4. Counting' /\ handler' \in [Conn -> Place]
  <2>1. /\ "none" \in Place /\ "none" \notin Server!Counted /\ handler[c] # "none"
        /\ handler[c] \notin Server!Counted
    BY <1>1 DEF Place, Server!Counted
  <2>2. tracked' \subseteq tracked \ {c} /\ tracked' \subseteq tracked \union {c}
    BY <1>2, <1>3
  <2>3. QED
    BY <1>2, <2>1, <2>2, PlaceKept
<1>5. ServerTyped'
  BY <1>1, <1>2, <1>4 DEF ServerTyped
<1>6. InStep(c)'
  BY <1>1, <1>2 DEF InStep, ServerTyped
<1>7. QED
  BY <1>1, <1>2, <1>4, <1>5, <1>6, InStepOfOthers DEF ServerInv, ServerTyped

\* stop() sets the count to 0 and closes the clients it finds tracked.  From then
\* on the count is off by the handlers that have yet to come to their finally.
LEMMA ServerStops ==
  ASSUME ServerInv,
         Server!Stop \/ Server!StopWaited \/ Server!StopDone \/ Server!Restart \/ UNCHANGED serverVars
  PROVE  ServerInv'
<1>1. ServerTyped /\ Counting
  BY DEF ServerInv
<1>2. UNCHANGED <<tracked, handler, wire, said, pushes>>
  BY DEF Server!Stop, Server!StopWaited, Server!StopDone, Server!Restart, serverVars
<1>3. CASE Server!StopDone
  <2>1. /\ server' = "stopped" /\ count' = 0 /\ forgotten' = Cardinality(Taken)
        /\ client' = [c \in Conn |-> IF c \in tracked THEN "gone" ELSE client[c]]
    BY <1>3 DEF Server!StopDone, Taken, Server!HavePlace, Server!Cardinality, Cardinality
  <2>2. IsFiniteSet(Taken) /\ Cardinality(Taken) \in Nat /\ Taken' = Taken
    BY <1>1, <1>2, FS_CardinalityType DEF Counting, Taken
  <2>3. ServerTyped'
    BY <1>1, <1>2, <2>1, <2>2 DEF ServerTyped
  <2>4. Counting'
    <3>1. MaxConnections \in Nat
      BY ConnectionsAssumption DEF Server!ServerAssumption
    <3>2. count' = Cardinality(Taken') - forgotten' /\ count' <= MaxConnections
      BY <2>1, <2>2, <3>1
    <3>3. QED
      BY <1>1, <1>2, <2>2, <3>2 DEF Counting
  <2>5. ASSUME NEW c \in Conn, InStep(c) PROVE InStep(c)'
    <3>1. CASE c \in tracked
      <4>1. handler[c] # "none"
        BY <1>1, <3>1 DEF Counting, Tracked
      <4>2. QED
        BY <1>2, <2>1, <3>1, <4>1 DEF InStep
    <3>2. CASE c \notin tracked
      <4>1. client'[c] = client[c]
        BY <2>1, <3>2
      <4>2. QED
        BY <1>2, <2>5, <4>1 DEF InStep
    <3>3. QED
      BY <3>1, <3>2
  <2>6. QED
    BY <1>2, <2>3, <2>4, <2>5 DEF ServerInv
<1>4. CASE Server!Stop \/ Server!StopWaited \/ Server!Restart \/ UNCHANGED serverVars
  <2>1. UNCHANGED <<count, client, forgotten>> /\ server' \in {"listening", "waiting", "closing", "stopped"}
    BY <1>1, <1>4 DEF Server!Stop, Server!StopWaited, Server!Restart, serverVars, ServerTyped
  <2>2. ServerTyped' /\ Counting'
    BY <1>1, <1>2, <2>1 DEF ServerTyped, Counting, Taken
  <2>3. QED
    BY <1>2, <2>1, <2>2 DEF ServerInv, InStep
<1>5. QED
  BY <1>3, <1>4

LEMMA ServerNextInv == ServerInv /\ [Server!Next]_serverVars => ServerInv'
<1> SUFFICES ASSUME ServerInv, [Server!Next]_serverVars PROVE ServerInv'
  OBVIOUS
<1>1. ASSUME NEW c \in Conn, Server!Handler(c) PROVE ServerInv'
  BY <1>1, ServerAccept, ServerLoginStep, ServerCapabilities, ServerHandlerEnds, ServerFinally,
     ServerClosed DEF Server!Handler
<1>2. ASSUME NEW c \in Conn, Server!Client(c) PROVE ServerInv'
  BY <1>2, ServerClientLogin, ServerClientOthers DEF Server!Client
<1>3. ASSUME NEW c \in Conn, Server!Connect(c) PROVE ServerInv'
  BY <1>3, ServerConnect
<1>4. CASE Server!Push
  BY <1>4, ServerPush
<1>5. CASE Server!Stop \/ Server!StopWaited \/ Server!StopDone \/ Server!Restart \/ UNCHANGED serverVars
  BY <1>5, ServerStops
<1>6. QED
  BY <1>1, <1>2, <1>3, <1>4, <1>5 DEF Server!Next

LEMMA ServerInvAlways == ConnectionsSpec => []ServerInv
<1>1. ConnectionsInit => ServerInv
  BY ServerInitInv DEF ConnectionsInit
<1>2. ServerInv /\ [ConnectionsNext]_<<part, vars, serverVars, chunkVars, httpVars>> => ServerInv'
  <2>1. ASSUME [ConnectionsNext]_<<part, vars, serverVars, chunkVars, httpVars>>
        PROVE  [Server!Next]_serverVars
    BY <2>1 DEF ConnectionsNext
  <2>2. QED
    BY <2>1, ServerNextInv
<1>3. QED
  BY <1>1, <1>2, PTL DEF ConnectionsSpec

\* The count is the number of handlers that have a place, less those that the last
\* stop forgot, and the limit is exceeded by no more than these.
THEOREM PlacesCorrect == ConnectionsSpec => []PlacesAreCounted
<1>1. ServerInv => PlacesAreCounted
  <2>1. ASSUME ServerInv
        PROVE  count = Cardinality(Taken) - forgotten /\ Cardinality(Taken) <= MaxConnections + forgotten
    <3>1. /\ IsFiniteSet(Taken) /\ count = Cardinality(Taken) - forgotten /\ count <= MaxConnections
          /\ forgotten \in Nat
      BY <2>1 DEF ServerInv, ServerTyped, Counting
    <3>2. MaxConnections \in Nat /\ Cardinality(Taken) \in Nat
      BY <3>1, FS_CardinalityType, ConnectionsAssumption DEF Server!ServerAssumption
    <3>3. QED
      BY <3>1, <3>2
  <2>2. QED
    BY <2>1 DEF Taken, PlacesAreCounted, Server!PlacesAreCounted, Server!HavePlace,
                Server!Cardinality, Cardinality
<1>2. QED
  BY ServerInvAlways, <1>1, PTL

\* Without a push, no login fails that the server has not refused.
THEOREM LoginCorrect == ConnectionsSpec => []LoginMeetsPush
<1>1. ServerInv => LoginMeetsPush
  <2>1. ASSUME ServerInv, NEW c \in Conn, client[c] \in {"refused", "failed by push"}, pushes = 0
        PROVE  handler[c] \in {"ending", "closing"}
    BY <2>1 DEF ServerInv, InStep, Server!InLogin, NextPlace
  <2>2. ServerInv => pushes = 0 \/ pushes > 0
    BY DEF ServerInv, ServerTyped
  <2>3. QED
    BY <2>1, <2>2 DEF LoginMeetsPush, Server!LoginMeetsPush
<1>2. QED
  BY ServerInvAlways, <1>1, PTL

-----------------------------------------------------------------------------
(* The chunks on one connection.                                             *)

ChunkTyped ==
  /\ sending \in [Chunks!Sender -> Chunks!Sending \union {None}]
  /\ \A s \in Chunks!Sender : sending[s] # None => sending[s].idx < sending[s].total
  /\ begun \in 0 .. MaxTransfers /\ tainted \in SUBSET Key
  /\ frames \in Seq(Chunks!Frame)
  /\ \A p \in DOMAIN frames : frames[p].idx < frames[p].total
  /\ buffers \in [Key -> SUBSET Chunks!Frame]
  /\ \A k \in Key : \A g \in buffers[k] : g.key = k /\ g.idx < g.total
  /\ DOMAIN totals = Key

\* What there is of the transfers with a key: frames on the way, in the buffer
\* of the assembler, and what a task has yet to send.
OnWire(k) == {p \in DOMAIN frames : frames[p].key = k}
SendersOf(k) == {s \in Chunks!Sender : sending[s] # None /\ sending[s].key = k}
Items(k) == {frames[p] : p \in OnWire(k)} \union buffers[k] \union {sending[s] : s \in SendersOf(k)}

\* It all belongs to one transfer ...
Alike(k) == \A a, b \in Items(k) : a.transfer = b.transfer /\ a.total = b.total

\* ... of which each chunk is in the buffer, on the way or to be sent, ...
Covered(k) ==
  \A a \in Items(k) : \A x \in 0 .. a.total - 1 :
    \/ \E g \in buffers[k] : g.idx = x
    \/ \E p \in OnWire(k) : frames[p].idx = x
    \/ \E s \in SendersOf(k) : sending[s].idx <= x

\* ... and in one of these places only.
Once(k) ==
  /\ \A p, q \in OnWire(k) : frames[p].idx = frames[q].idx => p = q
  /\ \A g, h \in buffers[k] : g.idx = h.idx => g = h
  /\ \A p \in OnWire(k) : \A g \in buffers[k] : g.idx # frames[p].idx
  /\ \A s \in SendersOf(k) : \A p \in OnWire(k) : frames[p].idx < sending[s].idx
  /\ \A s \in SendersOf(k) : \A g \in buffers[k] : g.idx < sending[s].idx
  /\ \A s, r \in SendersOf(k) : s = r

\* A buffer is there only while chunks are missing.
Incomplete(k) ==
  \A g \in buffers[k] :
    /\ totals[k] = g.total
    /\ \E x \in 0 .. g.total - 1 : \A h \in buffers[k] : h.idx # x

OneTransfer(k) == Alike(k) /\ Covered(k) /\ Once(k) /\ Incomplete(k)

ChunkInv ==
  /\ ChunkTyped
  /\ \A k \in Key \ tainted : OneTransfer(k)
  /\ PayloadIsOneTransfer

LEMMA ChunkFields ==
  /\ \A f \in Chunks!Frame : f.idx \in Nat /\ f.total \in Nat \ {0} /\ f.key \in Key
  /\ \A r \in Chunks!Sending : r.idx \in Nat /\ r.total \in Nat \ {0} /\ r.key \in Key
  /\ None \notin Chunks!Sending
<1>1. Total \subseteq Nat \ {0} /\ None \notin Chunks!Sending
  BY ConnectionsAssumption DEF Chunks!ChunkAssumption
<1>2. QED
  BY <1>1 DEF Chunks!Frame, Chunks!Sending

LEMMA ChunkInitInv == Chunks!Init => ChunkInv
<1> SUFFICES ASSUME Chunks!Init PROVE ChunkInv
  OBVIOUS
<1>1. MaxTransfers \in Nat
  BY ConnectionsAssumption DEF Chunks!ChunkAssumption
<1>2. ChunkTyped
  BY <1>1 DEF Chunks!Init, ChunkTyped
<1>3. ASSUME NEW k \in Key PROVE OnWire(k) = {} /\ SendersOf(k) = {} /\ buffers[k] = {}
  BY DEF Chunks!Init, OnWire, SendersOf
<1>4. \A k \in Key : OneTransfer(k)
  BY <1>3 DEF OneTransfer, Alike, Covered, Once, Incomplete, Items
<1>5. PayloadIsOneTransfer
  BY DEF Chunks!Init, PayloadIsOneTransfer, Chunks!PayloadIsOneTransfer
<1>6. QED
  BY <1>2, <1>4, <1>5 DEF ChunkInv

\* A key of which nothing changes, but that the frames may be d places further.
LEMMA OtherKey ==
  ASSUME NEW k, OneTransfer(k), OnWire(k) \subseteq Int, OnWire(k)' \subseteq Int, NEW d \in Int,
         buffers'[k] = buffers[k], buffers[k] # {} => totals'[k] = totals[k],
         SendersOf(k)' = SendersOf(k), \A s \in SendersOf(k) : sending'[s] = sending[s],
         \A p \in OnWire(k) : p - d \in OnWire(k)' /\ frames'[p - d] = frames[p],
         \A p \in OnWire(k)' : p + d \in OnWire(k) /\ frames[p + d] = frames'[p]
  PROVE  OneTransfer(k)'
<1>1. {frames[p] : p \in OnWire(k)} = {frames'[p] : p \in OnWire(k)'}
  OBVIOUS
<1>2. Items(k)' = Items(k)
  BY <1>1 DEF Items
<1>3. Alike(k)' /\ Incomplete(k)'
  BY <1>2 DEF OneTransfer, Alike, Incomplete
<1>4. Covered(k)'
  <2>1. ASSUME NEW p \in OnWire(k), NEW x, frames[p].idx = x PROVE \E q \in OnWire(k)' : frames'[q].idx = x
    BY <2>1
  <2>2. QED
    BY <1>2, <2>1 DEF OneTransfer, Covered
<1>5. Once(k)'
  <2>1. ASSUME NEW p \in OnWire(k)', NEW q \in OnWire(k)', frames'[p].idx = frames'[q].idx PROVE p = q
    BY <2>1 DEF OneTransfer, Once
  <2>2. QED
    BY <2>1 DEF OneTransfer, Once
<1>6. QED
  BY <1>3, <1>4, <1>5 DEF OneTransfer

\* A chunk of an unspoilt key that nobody sends and that is not on the way has
\* left no buffer behind.
LEMMA NothingLeft ==
  ASSUME NEW k, OneTransfer(k), OnWire(k) = {}, SendersOf(k) = {}
  PROVE  buffers[k] = {} /\ Items(k) = {}
<1>1. Items(k) = buffers[k]
  BY DEF Items
<1>2. \A g \in buffers[k] : FALSE
  BY <1>1 DEF OneTransfer, Covered, Incomplete
<1>3. QED
  BY <1>1, <1>2

LEMMA ChunkBegin ==
  ASSUME ChunkInv, NEW s \in Chunks!Sender, NEW k \in Key, NEW total \in Total,
         Chunks!Begin(s, k, total)
  PROVE  ChunkInv'
<1> DEFINE r == [transfer |-> begun + 1, key |-> k, total |-> total, idx |-> 0]
<1>1. /\ sending[s] = None /\ sending' = [sending EXCEPT ![s] = r] /\ begun < MaxTransfers
      /\ begun' = begun + 1
      /\ tainted' = IF Chunks!UnderWay(k) THEN tainted \union {k} ELSE tainted
      /\ UNCHANGED <<frames, buffers, totals, ages, idle, open, assembled, delivered>>
  BY DEF Chunks!Begin, Chunks!assembler
<1>2. ChunkTyped /\ sending \in [Chunks!Sender -> Chunks!Sending \union {None}]
  BY DEF ChunkInv, ChunkTyped
<1>3. begun' \in 0 .. MaxTransfers /\ begun' \in Chunks!Transfer
  <2>1. MaxTransfers \in Nat
    BY ConnectionsAssumption DEF Chunks!ChunkAssumption
  <2>2. begun \in 0 .. MaxTransfers
    BY <1>2 DEF ChunkTyped
  <2>3. QED
    BY <1>1, <2>1, <2>2 DEF Chunks!Transfer
<1>4. /\ r \in Chunks!Sending /\ r # None /\ r.key = k /\ r.idx = 0 /\ r.total = total
      /\ total \in Nat \ {0}
  <2>1. r \in Chunks!Sending
    BY <1>1, <1>3 DEF Chunks!Sending
  <2>2. QED
    BY <2>1, ChunkFields
<1> HIDE DEF r
<1>5. ChunkTyped'
  <2>1. sending' \in [Chunks!Sender -> Chunks!Sending \union {None}]
    BY <1>1, <1>2, <1>4
  <2>2. \A u \in Chunks!Sender : sending'[u] # None => sending'[u].idx < sending'[u].total
    BY <1>1, <1>2, <1>4 DEF ChunkTyped
  <2>3. tainted' \in SUBSET Key
    BY <1>1, <1>2 DEF ChunkTyped
  <2>4. QED
    BY <1>1, <1>2, <1>3, <2>1, <2>2, <2>3 DEF ChunkTyped
<1>6. \A j : OnWire(j)' = OnWire(j) /\ OnWire(j) \subseteq Int
  BY <1>1, <1>2 DEF OnWire, ChunkTyped
<1>7. ASSUME NEW j \in Key \ tainted', j # k PROVE OneTransfer(j)'
  <2>1. SendersOf(j)' = SendersOf(j) /\ \A u \in SendersOf(j) : sending'[u] = sending[u]
    BY <1>1, <1>2, <1>4, <1>7 DEF SendersOf
  <2>2. OneTransfer(j)
    BY <1>1, <1>7 DEF ChunkInv
  <2>3. 0 \in Int /\ \A p \in OnWire(j) : p - 0 = p /\ p + 0 = p
    BY <1>6
  <2>4. QED
    BY <1>1, <1>6, <2>1, <2>2, <2>3, OtherKey
<1>8. ASSUME k \notin tainted' PROVE OneTransfer(k)'
  <2>1. ~ Chunks!UnderWay(k) /\ k \notin tainted /\ OneTransfer(k)
    BY <1>1, <1>8 DEF ChunkInv
  <2>2. OnWire(k) = {} /\ SendersOf(k) = {}
    BY <2>1 DEF Chunks!UnderWay, OnWire, SendersOf
  <2>3. buffers'[k] = {} /\ OnWire(k)' = {}
    BY <1>1, <1>6, <2>1, <2>2, NothingLeft
  <2>4. SendersOf(k)' = {s} /\ sending'[s] = r
    BY <1>1, <1>2, <1>4, <2>2 DEF SendersOf
  <2>5. Items(k)' = {r}
    BY <2>3, <2>4 DEF Items
  <2>6. Covered(k)'
    <3>1. ASSUME NEW x \in 0 .. total - 1 PROVE sending'[s].idx <= x
      BY <1>4, <2>4, <3>1
    <3>2. QED
      BY <1>4, <2>4, <2>5, <3>1 DEF Covered
  <2>7. QED
    BY <2>3, <2>4, <2>5, <2>6 DEF OneTransfer, Alike, Once, Incomplete
<1>9. PayloadIsOneTransfer'
  BY <1>1 DEF ChunkInv, PayloadIsOneTransfer, Chunks!PayloadIsOneTransfer
<1>10. QED
  BY <1>5, <1>7, <1>8, <1>9 DEF ChunkInv

LEMMA ChunkSend ==
  ASSUME ChunkInv, NEW s \in Chunks!Sender, Chunks!SendChunk(s)
  PROVE  ChunkInv'
<1> DEFINE f == [transfer |-> sending[s].transfer, key |-> sending[s].key,
                 idx |-> sending[s].idx, total |-> sending[s].total]
           n == Len(frames)
           next == IF sending[s].idx = sending[s].total - 1 THEN None
                   ELSE [sending[s] EXCEPT !.idx = sending[s].idx + 1]
<1>1. /\ sending[s] # None /\ frames' = Append(frames, f)
      /\ sending' = [sending EXCEPT ![s] = next]
      /\ UNCHANGED <<begun, used, buffers, totals, ages, idle, open, assembled, delivered, tainted>>
  <2>1. sending[s] # None /\ frames' = Append(frames, f)
    BY DEF Chunks!SendChunk, Chunks!IdxOf
  <2>2. sending' = [sending EXCEPT ![s] = next]
    BY DEF Chunks!SendChunk, Chunks!LastIdx
  <2>3. UNCHANGED <<begun, used, buffers, totals, ages, idle, open, assembled, delivered, tainted>>
    BY DEF Chunks!SendChunk, Chunks!assembler
  <2>4. QED
    BY <2>1, <2>2, <2>3
<1>2. /\ ChunkTyped /\ sending \in [Chunks!Sender -> Chunks!Sending \union {None}]
      /\ frames \in Seq(Chunks!Frame)
  BY DEF ChunkInv, ChunkTyped
<1>2a. PICK k \in Key : k = sending[s].key
  BY <1>1, <1>2, ChunkFields
<1>3. /\ sending[s] \in Chunks!Sending /\ sending[s].idx \in Nat /\ sending[s].total \in Nat
      /\ sending[s].idx < sending[s].total
  BY <1>1, <1>2, ChunkFields DEF ChunkTyped
<1>4. f \in Chunks!Frame /\ f.key = k /\ f.idx = sending[s].idx /\ f.total = sending[s].total
      /\ f.transfer = sending[s].transfer
  BY <1>2a, <1>3 DEF Chunks!Frame, Chunks!Sending
<1>5. \/ next = None /\ sending[s].idx = sending[s].total - 1
      \/ /\ next \in Chunks!Sending /\ next # None /\ next.idx = sending[s].idx + 1 /\ next.key = k
         /\ next.total = sending[s].total /\ next.transfer = sending[s].transfer
         /\ next.idx < next.total
  <2>1. CASE sending[s].idx = sending[s].total - 1
    BY <2>1
  <2>2. CASE sending[s].idx # sending[s].total - 1
    <3> DEFINE i == sending[s].idx + 1
    <3>1. i \in Nat /\ i < sending[s].total
      BY <1>3, <2>2
    <3>2. next = [sending[s] EXCEPT !.idx = i]
      BY <2>2
    <3> HIDE DEF i, next
    <3>3. next \in Chunks!Sending /\ next.idx = i
      BY <1>3, <3>1, <3>2 DEF Chunks!Sending
    <3>4. next.key = k /\ next.total = sending[s].total /\ next.transfer = sending[s].transfer
      BY <1>2a, <1>3, <3>2 DEF Chunks!Sending
    <3>5. QED
      BY <3>1, <3>3, <3>4, ChunkFields DEF i
  <2>3. QED
    BY <2>1, <2>2
<1>6. n \in Nat /\ DOMAIN frames = 1 .. n /\ DOMAIN frames' = 1 .. n + 1
      /\ frames'[n + 1] = f /\ \A p \in 1 .. n : frames'[p] = frames[p]
  <2> HIDE DEF f
  <2>1. QED
    BY <1>1, <1>2, <1>4
<1> HIDE DEF f, next, n
<1>7. ChunkTyped'
  <2>1. sending' \in [Chunks!Sender -> Chunks!Sending \union {None}]
    BY <1>1, <1>2, <1>5
  <2>2. \A u \in Chunks!Sender : sending'[u] # None => sending'[u].idx < sending'[u].total
    BY <1>1, <1>2, <1>5 DEF ChunkTyped
  <2>3. frames' \in Seq(Chunks!Frame)
    BY <1>1, <1>2, <1>4
  <2>4. \A p \in DOMAIN frames' : frames'[p].idx < frames'[p].total
    BY <1>2, <1>3, <1>4, <1>6 DEF ChunkTyped
  <2>5. QED
    BY <1>1, <1>2, <2>1, <2>2, <2>3, <2>4 DEF ChunkTyped
<1>8. OnWire(k)' = OnWire(k) \union {n + 1} /\ n + 1 \notin OnWire(k)
  BY <1>4, <1>6 DEF OnWire
<1>9. ASSUME NEW j \in Key \ tainted', j # k PROVE OneTransfer(j)'
  <2>1. SendersOf(j)' = SendersOf(j) /\ \A u \in SendersOf(j) : sending'[u] = sending[u]
    BY <1>2a, <1>1, <1>2, <1>5, <1>9 DEF SendersOf
  <2>2. OneTransfer(j)
    BY <1>1, <1>9 DEF ChunkInv
  <2>3. OnWire(j)' = OnWire(j) /\ OnWire(j) \subseteq 1 .. n
    BY <1>4, <1>6, <1>9 DEF OnWire
  <2>4. /\ \A p \in OnWire(j) : p - 0 \in OnWire(j)' /\ frames'[p - 0] = frames[p]
        /\ \A p \in OnWire(j)' : p + 0 \in OnWire(j) /\ frames[p + 0] = frames'[p]
    <3>1. \A p \in OnWire(j) : p - 0 = p /\ p + 0 = p /\ frames'[p] = frames[p]
      BY <1>6, <2>3
    <3>2. QED
      BY <2>3, <3>1
  <2>5. 0 \in Int /\ OnWire(j) \subseteq Int /\ OnWire(j)' \subseteq Int
    BY <1>6, <2>3
  <2>6. QED
    BY <1>1, <2>1, <2>2, <2>3, <2>4, <2>5, OtherKey
<1>10. ASSUME k \notin tainted' PROVE OneTransfer(k)'
  <2>1. OneTransfer(k) /\ SendersOf(k) = {s}
    <3>1. OneTransfer(k) /\ s \in SendersOf(k)
      BY <1>2a, <1>1, <1>3, <1>10 DEF ChunkInv, SendersOf
    <3>2. QED
      BY <3>1 DEF OneTransfer, Once
  <2>2. \A p \in OnWire(k) : p \in 1 .. n /\ frames'[p] = frames[p]
    BY <1>6 DEF OnWire
  <2>3. SendersOf(k)' = IF next = None THEN {} ELSE {s}
    BY <1>1, <1>2, <1>5, <2>1 DEF SendersOf
  <2>4. sending'[s] = next
    BY <1>1, <1>2
  <2>5. Alike(k)'
    <3>1. \A a \in Items(k)' : \E b \in Items(k) : a.transfer = b.transfer /\ a.total = b.total
      <4>1. sending[s] \in Items(k)
        BY <2>1 DEF Items
      <4>2. \A p \in OnWire(k)' : frames'[p] = f \/ frames'[p] \in Items(k)
        BY <1>6, <1>8, <2>2 DEF Items
      <4>3. buffers'[k] \subseteq Items(k)
        BY <1>1 DEF Items
      <4>4. \A u \in SendersOf(k)' : u = s /\ sending'[u] = next /\ next # None
        BY <2>3, <2>4
      <4>5. ASSUME NEW a \in Items(k)'
            PROVE  a = f \/ a \in Items(k) \/ (a = next /\ next # None)
        BY <4>2, <4>3, <4>4 DEF Items
      <4>6. QED
        BY <1>4, <1>5, <4>1, <4>5
    <3>2. QED
      BY <2>1, <3>1 DEF OneTransfer, Alike
  <2>6. Covered(k)'
    <3>1. sending[s] \in Items(k) /\ \A x \in 0 .. sending[s].total - 1 :
            \/ \E g \in buffers[k] : g.idx = x
            \/ \E p \in OnWire(k) : frames[p].idx = x
            \/ sending[s].idx <= x
      BY <2>1 DEF OneTransfer, Covered, Items
    <3>2. ASSUME NEW x \in 0 .. sending[s].total - 1
          PROVE  \/ \E g \in buffers'[k] : g.idx = x
                 \/ \E p \in OnWire(k)' : frames'[p].idx = x
                 \/ \E u \in SendersOf(k)' : sending'[u].idx <= x
      <4>1. CASE \E g \in buffers[k] : g.idx = x
        BY <1>1, <4>1
      <4>2. CASE \E p \in OnWire(k) : frames[p].idx = x
        BY <1>8, <2>2, <4>2
      <4>3. CASE sending[s].idx = x
        BY <1>4, <1>6, <1>8, <4>3
      <4>4. CASE sending[s].idx < x
        <5>1. next # None /\ next.idx <= x
          BY <1>3, <1>5, <4>4
        <5>2. QED
          BY <2>3, <2>4, <5>1
      <4>5. QED
        BY <1>3, <3>1, <4>1, <4>2, <4>3, <4>4
    <3>3. \A a \in Items(k)' : a.total = sending[s].total
      <4>1. \A a \in Items(k) : a.total = sending[s].total
        BY <2>1, <3>1 DEF OneTransfer, Alike
      <4>2. \A p \in OnWire(k)' : frames'[p].total = sending[s].total
        BY <1>4, <1>6, <1>8, <2>2, <4>1 DEF Items
      <4>3. \A u \in SendersOf(k)' : sending'[u].total = sending[s].total
        BY <1>5, <2>3, <2>4
      <4>4. QED
        BY <1>1, <4>1, <4>2, <4>3 DEF Items
    <3>4. QED
      BY <3>2, <3>3 DEF Covered
  <2>7. Once(k)'
    <3>1. \A p \in OnWire(k) : frames[p].idx < f.idx
      BY <1>4, <2>1 DEF OneTransfer, Once
    <3>2. \A g \in buffers[k] : g.idx < f.idx
      BY <1>4, <2>1 DEF OneTransfer, Once
    <3>3. \A p \in OnWire(k) : frames[p].idx \in Nat
      BY <1>2, <1>6, <2>2, ChunkFields
    <3>4. \A g \in buffers[k] : g.idx \in Nat
      BY <1>2, <1>3, ChunkFields DEF ChunkTyped
    <3>5. \A p \in OnWire(k)' : \A q \in OnWire(k)' : frames'[p].idx = frames'[q].idx => p = q
      BY <1>3, <1>4, <1>6, <1>8, <2>1, <2>2, <3>1, <3>3 DEF OneTransfer, Once
    <3>6. \A p \in OnWire(k)' : \A g \in buffers'[k] : g.idx # frames'[p].idx
      BY <1>1, <1>3, <1>4, <1>6, <1>8, <2>1, <2>2, <3>2, <3>4 DEF OneTransfer, Once
    <3>7. ASSUME NEW u \in SendersOf(k)'
          PROVE  /\ \A p \in OnWire(k)' : frames'[p].idx < sending'[u].idx
                 /\ \A g \in buffers'[k] : g.idx < sending'[u].idx
      <4>1. sending'[u].idx = f.idx + 1
        BY <1>4, <1>5, <2>3, <2>4
      <4>2. QED
        BY <1>1, <1>3, <1>4, <1>6, <1>8, <2>2, <3>1, <3>2, <3>3, <3>4, <4>1
    <3>8. \A u \in SendersOf(k)' : \A v \in SendersOf(k)' : u = v
      BY <2>3
    <3>9. QED
      BY <1>1, <2>1, <3>5, <3>6, <3>7, <3>8 DEF OneTransfer, Once
  <2>8. Incomplete(k)'
    BY <1>1, <2>1 DEF OneTransfer, Incomplete
  <2>9. QED
    BY <2>5, <2>6, <2>7, <2>8 DEF OneTransfer
<1>11. PayloadIsOneTransfer'
  BY <1>1 DEF ChunkInv, PayloadIsOneTransfer, Chunks!PayloadIsOneTransfer
<1>12. QED
  BY <1>7, <1>9, <1>10, <1>11 DEF ChunkInv

LEMMA ChunkTick ==
  ASSUME ChunkInv, Chunks!Tick \/ UNCHANGED chunkVars
  PROVE  ChunkInv'
<1>1. UNCHANGED <<sending, begun, frames, buffers, totals, assembled, tainted>>
  BY DEF Chunks!Tick, chunkVars
<1>2. QED
  BY <1>1 DEF ChunkInv, ChunkTyped, OneTransfer, Alike, Covered, Once, Incomplete, Items, OnWire,
     SendersOf, PayloadIsOneTransfer, Chunks!PayloadIsOneTransfer

LEMMA SameCardinality == \A S : Chunks!Cardinality(S) = Cardinality(S)
BY DEF Chunks!Cardinality, Cardinality

\* A set of frames is as large as the set of its indices, when they differ, and
\* the indices below a total are all there when there are as many of them.
LEMMA CountedByIdx ==
  ASSUME NEW B \in SUBSET Chunks!Frame, NEW n \in Nat,
         \A g \in B : g.idx < n, \A g, h \in B : g.idx = h.idx => g = h
  PROVE  /\ Cardinality({g.idx : g \in B}) = Cardinality(B)
         /\ Cardinality({g.idx : g \in B}) = n <=> \A x \in 0 .. n - 1 : \E g \in B : g.idx = x
<1> DEFINE I == {g.idx : g \in B}
           idx == [g \in B |-> g.idx]
<1>1. I \subseteq 0 .. n - 1
  BY ChunkFields
<1>2. IsFiniteSet(0 .. n - 1) /\ Cardinality(0 .. n - 1) = n
  BY FS_Interval
<1>3. IsFiniteSet(I) /\ (Cardinality(I) = n => I = 0 .. n - 1)
  BY <1>1, <1>2, FS_Subset
<1>4. idx \in Injection(B, I) /\ idx \in Surjection(B, I)
  <2>1. idx \in [B -> I]
    OBVIOUS
  <2>2. \A g, h \in B : idx[g] = idx[h] => g = h
    OBVIOUS
  <2>3. \A x \in I : \E g \in B : idx[g] = x
    OBVIOUS
  <2>4. QED
    BY <2>1, <2>2, <2>3 DEF Injection, IsInjective, Surjection
<1>5. Cardinality(I) = Cardinality(B)
  BY <1>3, <1>4, FS_Injection
<1>6. I = 0 .. n - 1 <=> \A x \in 0 .. n - 1 : \E g \in B : g.idx = x
  BY <1>1
<1>7. QED
  BY <1>2, <1>3, <1>5, <1>6

\* What a frame makes of the buffer of its key, when nothing spoilt the key.
LEMMA BufferOfOneTransfer ==
  ASSUME ChunkInv, NEW k \in Key \ tainted, k \notin Chunks!Expired,
         1 \in OnWire(k), NEW f \in Chunks!Frame, f = frames[1]
  PROVE  LET B == Chunks!Buffered(f) IN
           /\ B = buffers[k] \union {f} /\ B \in SUBSET Chunks!Frame
           /\ Chunks!BufferTotal(f) = f.total
           /\ \A g \in B : g.transfer = f.transfer /\ g.total = f.total /\ g.idx < f.total
           /\ \A g, h \in B : g.idx = h.idx => g = h
<1>1. OneTransfer(k) /\ ChunkTyped /\ f.key = k
  BY DEF ChunkInv, OnWire
<1>2. Chunks!Kept(k) = buffers[k]
  BY DEF Chunks!Kept
<1>3. \A g \in buffers[k] : g.idx # f.idx /\ g \in Chunks!Frame
  BY <1>1 DEF OneTransfer, Once, ChunkTyped
<1>4. Chunks!Buffered(f) = buffers[k] \union {f}
  BY <1>1, <1>2, <1>3 DEF Chunks!Buffered
<1>5. \A g \in buffers[k] \union {f} : g \in Items(k)
  BY DEF Items
<1>6. \A g \in buffers[k] \union {f} : g.transfer = f.transfer /\ g.total = f.total
  BY <1>1, <1>5 DEF OneTransfer, Alike
<1>7. \A g \in buffers[k] \union {f} : g.idx < g.total
  BY <1>1 DEF ChunkTyped, OnWire
<1>8. Chunks!BufferTotal(f) = f.total
  BY <1>1, <1>2, <1>6 DEF Chunks!BufferTotal, OneTransfer, Incomplete
<1>9. \A g, h \in buffers[k] \union {f} : g.idx = h.idx => g = h
  BY <1>1, <1>3 DEF OneTransfer, Once
<1>10. QED
  BY <1>3, <1>4, <1>6, <1>7, <1>8, <1>9

LEMMA ChunkFeed ==
  ASSUME ChunkInv, Chunks!Feed
  PROVE  ChunkInv'
<1>1. ChunkTyped /\ frames \in Seq(Chunks!Frame) /\ frames # <<>>
  BY DEF ChunkInv, ChunkTyped, Chunks!Feed
<1>2. PICK f \in Chunks!Frame : f = Head(frames) /\ f = frames[1]
  BY <1>1
<1>3. PICK k \in Key : k = f.key
  BY ChunkFields
<1>4. PICK n \in Nat : n = Len(frames) /\ n > 0
  BY <1>1
<1>5. /\ DOMAIN frames = 1 .. n /\ DOMAIN frames' = 1 .. n - 1
      /\ \A p \in 1 .. n - 1 : frames'[p] = frames[p + 1]
      /\ frames' \in Seq(Chunks!Frame)
  <2>1. frames' = Tail(frames)
    BY DEF Chunks!Feed
  <2>2. QED
    BY <1>1, <1>4, <2>1
<1>6. PICK B : B = Chunks!Buffered(f)
  OBVIOUS
<1>7. /\ buffers' = [j \in Key |-> IF j = k THEN Chunks!BufferAfter(f) ELSE Chunks!Kept(j)]
      /\ totals' = [j \in Key |-> IF buffers'[j] = {} THEN 0
                                 ELSE IF j = k THEN Chunks!BufferTotal(f) ELSE totals[j]]
      /\ \/ assembled' = assembled
         \/ assembled' = {}
         \/ Chunks!Complete(f) /\ assembled' = B
      /\ tainted' = tainted \union Chunks!Expired
      /\ UNCHANGED <<sending, begun>>
  BY <1>2, <1>3, <1>6 DEF Chunks!Feed
<1>8. Chunks!BufferAfter(f) = IF Chunks!Complete(f) THEN {} ELSE B
  BY <1>6 DEF Chunks!BufferAfter
<1>9. B \in SUBSET Chunks!Frame /\ \A g \in B : g.key = k /\ g.idx < g.total
  <2>1. B \subseteq buffers[k] \union {f}
    BY <1>3, <1>6 DEF Chunks!Buffered, Chunks!Kept
  <2>2. f.idx < f.total
    BY <1>1, <1>2, <1>4, <1>5 DEF ChunkTyped
  <2>3. QED
    BY <1>1, <1>2, <1>3, <2>1, <2>2 DEF ChunkTyped
<1>10. ChunkTyped'
  <2>1. \A j \in Key : buffers'[j] \subseteq B \/ buffers'[j] \subseteq buffers[j]
    BY <1>7, <1>8 DEF Chunks!Kept
  <2>2. \A j \in Key : buffers'[j] \subseteq B => j = k \/ buffers'[j] \subseteq buffers[j]
    BY <1>7, <1>8 DEF Chunks!Kept
  <2>3. buffers' \in [Key -> SUBSET Chunks!Frame]
    BY <1>1, <1>7, <1>9, <2>1 DEF ChunkTyped
  <2>4. ASSUME NEW j \in Key, NEW g \in buffers'[j] PROVE g.key = j /\ g.idx < g.total
    <3>1. CASE g \in buffers[j]
      BY <1>1, <3>1 DEF ChunkTyped
    <3>2. CASE j = k /\ g \in B
      BY <1>9, <3>2
    <3>3. g \in buffers[j] \/ (j = k /\ g \in B)
      <4>1. CASE buffers'[j] \subseteq buffers[j]
        BY <2>4, <4>1
      <4>2. CASE buffers'[j] \subseteq B
        BY <2>2, <2>4, <4>2
      <4>3. QED
        BY <2>1, <4>1, <4>2
    <3>4. QED
      BY <3>1, <3>2, <3>3
  <2>5. ASSUME NEW p \in DOMAIN frames' PROVE frames'[p].idx < frames'[p].total
    <3>1. p \in 1 .. n - 1
      BY <1>5
    <3>2. p + 1 \in DOMAIN frames /\ frames'[p] = frames[p + 1]
      BY <1>4, <1>5, <3>1
    <3>3. QED
      BY <1>1, <3>2 DEF ChunkTyped
  <2>6. tainted' \in SUBSET Key /\ DOMAIN totals' = Key
    BY <1>1, <1>7 DEF ChunkTyped, Chunks!Expired
  <2>7. QED
    BY <1>1, <1>5, <1>7, <2>3, <2>4, <2>5, <2>6 DEF ChunkTyped
<1>11. \A j : SendersOf(j)' = SendersOf(j)
  BY <1>7 DEF SendersOf
<1>12. \A j : /\ \A p \in OnWire(j) : p \in 1 .. n /\ (p # 1 => p - 1 \in OnWire(j)' /\ frames'[p - 1] = frames[p])
              /\ \A p \in OnWire(j)' : p \in 1 .. n - 1 /\ p + 1 \in OnWire(j) /\ frames[p + 1] = frames'[p]
              /\ 1 \in OnWire(j) => j = k
  BY <1>2, <1>3, <1>5 DEF OnWire
<1>13. 1 \in OnWire(k)
  BY <1>2, <1>3, <1>4, <1>5 DEF OnWire
<1>14. ASSUME NEW j \in Key \ tainted', j # k PROVE OneTransfer(j)'
  <2>1. OneTransfer(j) /\ buffers'[j] = buffers[j] /\ (buffers[j] # {} => totals'[j] = totals[j])
    BY <1>7, <1>14 DEF ChunkInv, Chunks!Kept
  <2>2. /\ \A p \in OnWire(j) : p - 1 \in OnWire(j)' /\ frames'[p - 1] = frames[p]
        /\ \A p \in OnWire(j)' : p + 1 \in OnWire(j) /\ frames[p + 1] = frames'[p]
    BY <1>12, <1>14
  <2>3. 1 \in Int /\ OnWire(j) \subseteq Int /\ OnWire(j)' \subseteq Int
    BY <1>12
  <2>4. \A s \in SendersOf(j) : sending'[s] = sending[s]
    BY <1>7
  <2>5. QED
    BY <1>11, <2>1, <2>2, <2>3, <2>4, OtherKey
<1>15. ASSUME k \notin tainted'
       PROVE  /\ OneTransfer(k)'
              /\ Chunks!Complete(f) => /\ \A g, h \in B : g.transfer = h.transfer
                                       /\ \A g \in B : g.total = Cardinality(B)
  <2>1. OneTransfer(k) /\ k \notin tainted /\ k \notin Chunks!Expired
    BY <1>7, <1>15 DEF ChunkInv
  <2>2. /\ B = buffers[k] \union {f} /\ Chunks!BufferTotal(f) = f.total
        /\ \A g \in B : g.transfer = f.transfer /\ g.total = f.total /\ g.idx < f.total
        /\ \A g, h \in B : g.idx = h.idx => g = h
    BY <1>2, <1>6, <1>13, <2>1, BufferOfOneTransfer
  <2>3. f.total \in Nat
    BY ChunkFields
  <2>4. /\ Cardinality({g.idx : g \in B}) = Cardinality(B)
        /\ Cardinality({g.idx : g \in B}) = f.total
             <=> \A x \in 0 .. f.total - 1 : \E g \in B : g.idx = x
    BY <1>9, <2>2, <2>3, CountedByIdx
  <2>5. Chunks!Complete(f) <=> Cardinality({g.idx : g \in B}) = f.total
    BY <1>6, <2>2, SameCardinality DEF Chunks!Complete
  <2>6. /\ \A p \in OnWire(k) : frames[p].idx \in Nat /\ frames[p].idx < f.total
        /\ \A s \in SendersOf(k) : sending[s].idx \in Nat /\ sending[s].idx < f.total
    <3>1. f \in Items(k)
      BY <1>2, <1>13 DEF Items
    <3>2. ASSUME NEW p \in OnWire(k) PROVE frames[p].idx \in Nat /\ frames[p].idx < f.total
      <4>1. frames[p].total = f.total
        BY <2>1, <3>1 DEF OneTransfer, Alike, Items
      <4>2. frames[p] \in Chunks!Frame /\ frames[p].idx < frames[p].total
        BY <1>1, <1>5, <1>12 DEF ChunkTyped
      <4>3. QED
        BY <4>1, <4>2, ChunkFields
    <3>3. ASSUME NEW s \in SendersOf(k) PROVE sending[s].idx \in Nat /\ sending[s].idx < f.total
      <4>1. sending[s].total = f.total
        BY <2>1, <3>1 DEF OneTransfer, Alike, Items
      <4>2. sending[s] \in Chunks!Sending /\ sending[s].idx < sending[s].total
        BY <1>1 DEF ChunkTyped, SendersOf
      <4>3. QED
        BY <4>1, <4>2, ChunkFields
    <3>4. QED
      BY <3>2, <3>3
  <2>7. ASSUME Chunks!Complete(f) PROVE OneTransfer(k)'
    <3>1. \A x \in 0 .. f.total - 1 : \E g \in B : g.idx = x
      BY <2>4, <2>5, <2>7
    <3>2. OnWire(k)' = {}
      <4>1. ASSUME NEW p \in OnWire(k)' PROVE FALSE
        <5>1. p + 1 \in OnWire(k) /\ p + 1 # 1
          BY <1>12
        <5>2. PICK g \in B : g.idx = frames[p + 1].idx
          BY <2>3, <2>6, <3>1, <5>1
        <5>3. QED
          BY <1>2, <1>13, <2>1, <2>2, <5>1, <5>2 DEF OneTransfer, Once
      <4>2. QED
        BY <4>1
    <3>3. SendersOf(k)' = {}
      <4>1. ASSUME NEW s \in SendersOf(k) PROVE FALSE
        <5>1. PICK g \in B : g.idx = sending[s].idx
          BY <2>3, <2>6, <3>1
        <5>2. g.idx < sending[s].idx
          BY <1>2, <1>13, <2>1, <2>2 DEF OneTransfer, Once
        <5>3. QED
          BY <2>6, <5>1, <5>2
      <4>2. QED
        BY <1>11, <4>1
    <3>4. buffers'[k] = {}
      BY <1>7, <1>8, <2>7
    <3>5. Items(k)' = {}
      BY <3>2, <3>3, <3>4 DEF Items
    <3>6. QED
      BY <3>2, <3>3, <3>4, <3>5 DEF OneTransfer, Alike, Covered, Once, Incomplete
  <2>8. ASSUME ~ Chunks!Complete(f) PROVE OneTransfer(k)'
    <3>1. buffers'[k] = B /\ totals'[k] = f.total
      BY <1>7, <1>8, <2>2, <2>8
    <3>2. \A a \in Items(k)' : a \in Items(k)
      <4>1. \A p \in OnWire(k)' : frames'[p] \in Items(k)
        BY <1>12 DEF Items
      <4>2. \A g \in B : g \in Items(k)
        BY <1>2, <1>13, <2>2 DEF Items
      <4>3. \A s \in SendersOf(k)' : sending'[s] \in Items(k)
        BY <1>7, <1>11 DEF Items
      <4>4. QED
        BY <3>1, <4>1, <4>2, <4>3 DEF Items
    <3>3. Alike(k)'
      BY <2>1, <3>2 DEF OneTransfer, Alike
    <3>4. Covered(k)'
      <4>1. ASSUME NEW a \in Items(k), NEW x \in 0 .. a.total - 1
            PROVE  \/ \E g \in B : g.idx = x
                   \/ \E p \in OnWire(k)' : frames'[p].idx = x
                   \/ \E s \in SendersOf(k) : sending[s].idx <= x
        <5>1. CASE \E g \in buffers[k] : g.idx = x
          BY <2>2, <5>1
        <5>2. ASSUME NEW p \in OnWire(k), frames[p].idx = x
              PROVE  (\E g \in B : g.idx = x) \/ (\E q \in OnWire(k)' : frames'[q].idx = x)
          <6>1. CASE p = 1
            BY <1>2, <2>2, <5>2, <6>1
          <6>2. CASE p # 1
            BY <1>12, <5>2, <6>2
          <6>3. QED
            BY <6>1, <6>2
        <5>3. QED
          BY <2>1, <5>1, <5>2 DEF OneTransfer, Covered
      <4>2. QED
        BY <1>7, <1>11, <3>1, <3>2, <4>1 DEF Covered
    <3>5. Once(k)'
      <4>1. \A p, q \in OnWire(k)' : frames'[p].idx = frames'[q].idx => p = q
        <5>1. ASSUME NEW p \in OnWire(k)', NEW q \in OnWire(k)', frames'[p].idx = frames'[q].idx
              PROVE  p = q
          <6>1. p + 1 = q + 1
            BY <1>12, <2>1, <5>1 DEF OneTransfer, Once
          <6>2. QED
            BY <1>12, <6>1
        <5>2. QED
          BY <5>1
      <4>2. \A p \in OnWire(k)' : \A g \in B : g.idx # frames'[p].idx
        <5>1. ASSUME NEW p \in OnWire(k)', NEW g \in B PROVE g.idx # frames'[p].idx
          <6>1. p + 1 \in OnWire(k) /\ p + 1 # 1 /\ frames[p + 1] = frames'[p]
            BY <1>12
          <6>2. QED
            BY <1>2, <1>13, <2>1, <2>2, <6>1 DEF OneTransfer, Once
        <5>2. QED
          BY <5>1
      <4>3. \A s \in SendersOf(k) : \A p \in OnWire(k)' : frames'[p].idx < sending[s].idx
        <5>1. ASSUME NEW s \in SendersOf(k), NEW p \in OnWire(k)' PROVE frames'[p].idx < sending[s].idx
          <6>1. p + 1 \in OnWire(k) /\ frames[p + 1] = frames'[p]
            BY <1>12
          <6>2. QED
            BY <2>1, <6>1 DEF OneTransfer, Once
        <5>2. QED
          BY <5>1
      <4>4. \A s \in SendersOf(k) : \A g \in B : g.idx < sending[s].idx
        BY <1>2, <1>13, <2>1, <2>2 DEF OneTransfer, Once
      <4>5. \A s, r \in SendersOf(k) : s = r
        BY <2>1 DEF OneTransfer, Once
      <4>6. QED
        BY <1>7, <1>11, <2>2, <3>1, <4>1, <4>2, <4>3, <4>4, <4>5 DEF Once
    <3>6. Incomplete(k)'
      <4>1. PICK x \in 0 .. f.total - 1 : \A g \in B : g.idx # x
        BY <2>4, <2>5, <2>8
      <4>2. QED
        BY <2>2, <3>1, <4>1 DEF Incomplete
    <3>7. QED
      BY <3>3, <3>4, <3>5, <3>6 DEF OneTransfer
  <2>9. QED
    BY <2>2, <2>4, <2>5, <2>7, <2>8
<1>16. PayloadIsOneTransfer'
  <2>1. ASSUME assembled' = B, Chunks!Complete(f) PROVE PayloadIsOneTransfer'
    <3>1. CASE k \in tainted'
      BY <1>9, <2>1, <3>1 DEF PayloadIsOneTransfer, Chunks!PayloadIsOneTransfer
    <3>2. CASE k \notin tainted'
      <4>1. Chunks!Cardinality(B) = Cardinality(B)
        BY SameCardinality
      <4>2. QED
        BY <1>15, <2>1, <3>2, <4>1 DEF PayloadIsOneTransfer, Chunks!PayloadIsOneTransfer
    <3>3. QED
      BY <3>1, <3>2
  <2>2. CASE assembled' = assembled
    BY <1>7, <2>2 DEF ChunkInv, PayloadIsOneTransfer, Chunks!PayloadIsOneTransfer
  <2>3. CASE assembled' = {}
    BY <2>3 DEF PayloadIsOneTransfer, Chunks!PayloadIsOneTransfer
  <2>4. QED
    BY <1>7, <2>1, <2>2, <2>3
<1>17. QED
  BY <1>10, <1>14, <1>15, <1>16 DEF ChunkInv

LEMMA ChunkNextInv == ChunkInv /\ [Chunks!Next]_chunkVars => ChunkInv'
<1> SUFFICES ASSUME ChunkInv, [Chunks!Next]_chunkVars PROVE ChunkInv'
  OBVIOUS
<1>1. ASSUME NEW p \in Pusher, NEW total \in Total, Chunks!BeginPush(p, total) PROVE ChunkInv'
  <2>1. p \in Chunks!Sender /\ PushKey \in Key
    BY ConnectionsAssumption DEF Chunks!Sender, Chunks!ChunkAssumption
  <2>2. QED
    BY <1>1, <2>1, ChunkBegin DEF Chunks!BeginPush
<1>2. ASSUME NEW k \in Key, NEW total \in Total, Chunks!BeginAnswer(k, total) PROVE ChunkInv'
  <2>1. Chunks!Loop \in Chunks!Sender
    BY DEF Chunks!Sender
  <2>2. QED
    BY <1>2, <2>1, ChunkBegin DEF Chunks!BeginAnswer
<1>3. ASSUME NEW s \in Chunks!Sender, Chunks!SendChunk(s) PROVE ChunkInv'
  BY <1>3, ChunkSend
<1>4. CASE Chunks!Tick \/ UNCHANGED chunkVars
  BY <1>4, ChunkTick
<1>5. CASE Chunks!Feed
  BY <1>5, ChunkFeed
<1>6. QED
  BY <1>1, <1>2, <1>3, <1>4, <1>5 DEF Chunks!Next

LEMMA ChunkInvAlways == ConnectionsSpec => []ChunkInv
<1>1. ConnectionsInit => ChunkInv
  BY ChunkInitInv DEF ConnectionsInit
<1>2. ChunkInv /\ [ConnectionsNext]_<<part, vars, serverVars, chunkVars, httpVars>> => ChunkInv'
  <2>1. ASSUME [ConnectionsNext]_<<part, vars, serverVars, chunkVars, httpVars>>
        PROVE  [Chunks!Next]_chunkVars
    BY <2>1 DEF ConnectionsNext
  <2>2. QED
    BY <2>1, ChunkNextInv
<1>3. QED
  BY <1>1, <1>2, PTL DEF ConnectionsSpec

\* A payload that is handed over is one transfer, whole, unless transfers met on
\* its key or a buffer of it expired.
THEOREM PayloadCorrect == ConnectionsSpec => []PayloadIsOneTransfer
<1>1. ChunkInv => PayloadIsOneTransfer
  BY DEF ChunkInv
<1>2. QED
  BY ChunkInvAlways, <1>1, PTL

-----------------------------------------------------------------------------
(* The requests of an HTTP client.                                           *)

HttpRequest == [at : {"idle", "hello", "scram", "sending", "done"}, using : Int,
                with : {"", "secret"}, sent : Nat, ran : Nat,
                out : {"none", "ok", "AuthError", "NetworkError", "ClientError"}, calls : Nat]

ClientTyped ==
  /\ secured \in BOOLEAN /\ admits \in BOOLEAN /\ session \in {"open", "closed"}
  /\ password \in {"", "secret"} /\ accepts \in {"secret", "new"}
  /\ token \in Int /\ issued \in Nat /\ valid \in SUBSET Int
  /\ handshakes \in SUBSET Task

\* A request that has not ended has not been run: it goes on only after a 401.
RunsAtTheEnd(r) == r.ran \in {0, 1} /\ (r.at \in {"hello", "scram", "sending"} => r.ran = 0)

\* As long as the server has kept all it was given, a task that logs in has the
\* password and is remembered, a request is sent with a token that lets in ...
Kept(t, r) ==
  /\ r.out # "AuthError"
  /\ r.at \in {"hello", "scram"} => r.with = "secret"
  /\ r.at = "scram" => t \in handshakes
  /\ r.at = "sending" /\ secured => r.using \in valid

\* ... and the next request finds such a token, or the password.
TokenOrPassword ==
  /\ token = Http!NoToken => password = "secret"
  /\ secured => token = Http!NoToken \/ token \in valid

NothingLost == accepts = "secret" /\ admits /\ TokenOrPassword /\ \A t \in Task : Kept(t, request[t])

HttpInv ==
  /\ ClientTyped /\ request \in [Task -> HttpRequest]
  /\ \A t \in Task : RunsAtTheEnd(request[t])
  /\ happened = {} => NothingLost

LEMMA HttpFields ==
  \A r \in HttpRequest : r.using \in Int /\ r.sent \in Nat /\ r.ran \in Nat /\ r.calls \in Nat
BY DEF HttpRequest

LEMMA HttpConstants ==
  /\ Http!NoToken \in Int /\ Http!Open \in Int /\ Http!NoToken # Http!Open
  /\ \A n \in Nat : n # Http!NoToken
  /\ Http!NoRequest \in HttpRequest
  /\ Http!NoRequest.at = "idle" /\ Http!NoRequest.ran = 0 /\ Http!NoRequest.out = "none"
BY DEF Http!NoToken, Http!Open, Http!NoRequest, HttpRequest

LEMMA HttpInitInv == Http!Init => HttpInv
BY HttpConstants
   DEF Http!Init, HttpInv, ClientTyped, NothingLost, TokenOrPassword, RunsAtTheEnd, Kept

\* What _ensure_auth and the end of a request make of it.
LEMMA HttpEnsured ==
  ASSUME NEW r \in HttpRequest, NEW tok \in Int, password \in {"", "secret"}
  PROVE  LET e == Http!Ensured(r, tok) IN
           /\ e \in HttpRequest /\ e.ran = r.ran /\ e.out = r.out
           /\ \/ tok = Http!NoToken /\ e.at = "hello" /\ e.with = password
              \/ tok # Http!NoToken /\ e.at = "sending" /\ e.using = tok
BY DEF Http!Ensured, HttpRequest

LEMMA HttpEnded ==
  ASSUME NEW r \in HttpRequest,
         NEW out \in {"none", "ok", "AuthError", "NetworkError", "ClientError"}
  PROVE  LET e == Http!Ended(r, out) IN
           e \in HttpRequest /\ e.ran = r.ran /\ e.out = out /\ e.at = "done"
BY DEF Http!Ended, HttpRequest

\* A step of one request, at which the server forgets nothing but its handshake.
LEMMA HttpRequestStep ==
  ASSUME HttpInv, ClientTyped', NEW t \in Task, NEW r \in HttpRequest, RunsAtTheEnd(r),
         request' = [request EXCEPT ![t] = r],
         UNCHANGED <<secured, session, accepts, admits, happened>>,
         valid \subseteq valid', handshakes \ {t} \subseteq handshakes',
         NothingLost => TokenOrPassword' /\ Kept(t, request[t])'
  PROVE  HttpInv'
<1>1. request \in [Task -> HttpRequest] /\ request' \in [Task -> HttpRequest]
  BY DEF HttpInv
<1>2. \A u \in Task : RunsAtTheEnd(request'[u])
  BY <1>1 DEF HttpInv
<1>3. ASSUME happened = {} PROVE NothingLost'
  <2>1. NothingLost
    BY <1>3 DEF HttpInv
  <2>2. ASSUME NEW u \in Task, u # t PROVE Kept(u, request[u])'
    BY <2>1, <2>2, <1>1 DEF NothingLost, Kept
  <2>3. QED
    BY <2>1, <2>2 DEF NothingLost
<1>4. QED
  BY <1>1, <1>2, <1>3 DEF HttpInv, RunsAtTheEnd

LEMMA HttpBegin ==
  ASSUME HttpInv, NEW t \in Task, Http!Begin(t)
  PROVE  HttpInv'
<1> DEFINE q == [Http!NoRequest EXCEPT !.calls = request[t].calls + 1]
           r == Http!Ensured(q, token)
<1>1. q \in HttpRequest /\ q.ran = 0 /\ q.out = "none"
  <2>1. request[t] \in HttpRequest
    BY DEF HttpInv
  <2>2. request[t].calls + 1 \in Nat
    BY <2>1, HttpFields
  <2>3. QED
    BY <2>2, HttpConstants DEF HttpRequest
<1>2. ClientTyped /\ token \in Int /\ password \in {"", "secret"}
  BY DEF HttpInv, ClientTyped
<1>3. /\ r \in HttpRequest /\ r.ran = 0 /\ r.out = "none"
      /\ \/ token = Http!NoToken /\ r.at = "hello" /\ r.with = password
         \/ token # Http!NoToken /\ r.at = "sending" /\ r.using = token
  BY <1>1, <1>2, HttpEnsured
<1>4. /\ request' = [request EXCEPT ![t] = r] /\ password' = password
      /\ UNCHANGED <<secured, session, token, valid, handshakes, accepts, admits, issued, happened>>
  BY DEF Http!Begin, Http!Becomes, Http!PasswordDuring
<1> HIDE DEF q, r
<1>5. request'[t] = r
  BY <1>4 DEF HttpInv
<1>6. NothingLost => TokenOrPassword' /\ Kept(t, request[t])'
  BY <1>3, <1>4, <1>5 DEF NothingLost, TokenOrPassword, Kept
<1>7. RunsAtTheEnd(r)
  BY <1>3 DEF RunsAtTheEnd
<1>8. ClientTyped'
  BY <1>2, <1>4 DEF ClientTyped
<1>9. QED
  BY <1>3, <1>4, <1>6, <1>7, <1>8, HttpRequestStep

\* The login that ends well.
LEMMA HttpLoggedIn ==
  ASSUME HttpInv, NEW t \in Task, NEW tok \in Int, Http!LoggedIn(t, tok)
  PROVE  LET r == request'[t] IN
           /\ r \in HttpRequest /\ r.ran = request[t].ran /\ r.out = request[t].out
           /\ r.at = "sending" /\ r.using = tok
           /\ request' = [request EXCEPT ![t] = r]
           /\ token' = tok /\ password' = ""
<1>1. request \in [Task -> HttpRequest]
  BY DEF HttpInv
<1>2. request' = [request EXCEPT ![t] = [request[t] EXCEPT !.at = "sending", !.using = tok]]
  BY DEF Http!LoggedIn, Http!Becomes
<1>3. request'[t] = [request[t] EXCEPT !.at = "sending", !.using = tok]
  BY <1>1, <1>2
<1>4. QED
  BY <1>1, <1>2, <1>3 DEF HttpRequest, Http!LoggedIn

LEMMA HttpHello ==
  ASSUME HttpInv, NEW t \in Task, Http!Hello(t)
  PROVE  HttpInv'
<1> DEFINE r == request'[t]
<1>1. request[t].at = "hello" /\ request[t].ran = 0
  BY DEF HttpInv, RunsAtTheEnd, Http!Hello
<1>2. request \in [Task -> HttpRequest] /\ ClientTyped
  BY DEF HttpInv
<1>3. UNCHANGED <<secured, session, valid, accepts, admits, issued, happened>>
  BY DEF Http!Hello
<1>4. CASE /\ request' = [request EXCEPT ![t] = [request[t] EXCEPT !.at = "scram"]]
           /\ handshakes' = IF admits THEN handshakes \union {t} ELSE handshakes \ {t}
           /\ UNCHANGED <<password, token>>
  <2>1. r = [request[t] EXCEPT !.at = "scram"]
    BY <1>2, <1>4
  <2>2. /\ r \in HttpRequest /\ r.at = "scram" /\ r.ran = 0
        /\ r.out = request[t].out /\ r.with = request[t].with
    BY <1>1, <1>2, <2>1 DEF HttpRequest
  <2>3. NothingLost => TokenOrPassword' /\ Kept(t, request[t])'
    BY <1>1, <1>3, <1>4, <2>2 DEF NothingLost, TokenOrPassword, Kept
  <2>4. ClientTyped' /\ RunsAtTheEnd(r) /\ request' = [request EXCEPT ![t] = r]
    BY <1>2, <1>3, <1>4, <2>1, <2>2 DEF ClientTyped, RunsAtTheEnd
  <2>5. QED
    BY <1>3, <1>4, <2>2, <2>3, <2>4, HttpRequestStep
<1>5. CASE ~ secured /\ Http!LoggedIn(t, Http!Open) /\ UNCHANGED handshakes
  <2>1. /\ r \in HttpRequest /\ r.ran = 0 /\ r.out = request[t].out
        /\ r.at = "sending" /\ request' = [request EXCEPT ![t] = r]
        /\ token' = Http!Open /\ password' = ""
    BY <1>1, <1>5, HttpConstants, HttpLoggedIn
  <2>2. NothingLost => TokenOrPassword' /\ Kept(t, request[t])'
    BY <1>3, <1>5, <2>1, HttpConstants DEF NothingLost, TokenOrPassword, Kept
  <2>3. ClientTyped' /\ RunsAtTheEnd(r)
    BY <1>2, <1>3, <1>5, <2>1, HttpConstants DEF ClientTyped, RunsAtTheEnd
  <2>4. QED
    BY <1>3, <1>5, <2>1, <2>2, <2>3, HttpRequestStep
<1>6. CASE /\ ~ admits /\ request' = [request EXCEPT ![t] = Http!Ended(request[t], "AuthError")]
           /\ UNCHANGED <<password, token, handshakes>>
  <2>1. r = Http!Ended(request[t], "AuthError")
    BY <1>2, <1>6
  <2>2. r \in HttpRequest /\ r.at = "done" /\ r.ran = 0 /\ request' = [request EXCEPT ![t] = r]
    BY <1>1, <1>2, <1>6, <2>1, HttpEnded
  <2>3. ~ NothingLost
    BY <1>6 DEF NothingLost
  <2>4. ClientTyped' /\ RunsAtTheEnd(r)
    BY <1>2, <1>3, <1>6, <2>2 DEF ClientTyped, RunsAtTheEnd
  <2>5. QED
    BY <1>3, <1>6, <2>2, <2>3, <2>4, HttpRequestStep
<1>7. QED
  BY <1>4, <1>5, <1>6 DEF Http!Hello, Http!Becomes

LEMMA HttpScram ==
  ASSUME HttpInv, NEW t \in Task, Http!Scram(t)
  PROVE  HttpInv'
<1> DEFINE r == request'[t]
           proved == t \in handshakes /\ request[t].with = accepts
<1>1. request[t].at = "scram" /\ request[t].ran = 0
  BY DEF HttpInv, RunsAtTheEnd, Http!Scram
<1>2. request \in [Task -> HttpRequest] /\ ClientTyped
  BY DEF HttpInv
<1>3. UNCHANGED <<secured, session, accepts, admits, happened>> /\ handshakes' = handshakes \ {t}
  BY DEF Http!Scram
<1>4. CASE proved
  <2>1. issued' = issued + 1 /\ valid' = valid \union {issued} /\ Http!LoggedIn(t, issued)
    BY <1>4 DEF Http!Scram
  <2>2. issued \in Nat /\ issued \in Int /\ issued # Http!NoToken
    <3>1. issued \in Nat
      BY <1>2 DEF ClientTyped
    <3>2. QED
      BY <3>1, HttpConstants
  <2>3. /\ r \in HttpRequest /\ r.ran = 0 /\ r.out = request[t].out
        /\ r.at = "sending" /\ r.using = issued /\ request' = [request EXCEPT ![t] = r]
        /\ token' = issued /\ password' = ""
    BY <1>1, <2>1, <2>2, HttpLoggedIn
  <2>4. NothingLost => TokenOrPassword' /\ Kept(t, request[t])'
    BY <1>3, <2>1, <2>2, <2>3 DEF NothingLost, TokenOrPassword, Kept
  <2>5. issued' \in Nat /\ valid' \in SUBSET Int /\ handshakes' \in SUBSET Task
    <3>1. valid \in SUBSET Int /\ handshakes \in SUBSET Task
      BY <1>2 DEF ClientTyped
    <3>2. QED
      BY <3>1, <1>3, <2>1, <2>2
  <2>6. ClientTyped' /\ RunsAtTheEnd(r)
    BY <1>2, <1>3, <2>2, <2>3, <2>5 DEF ClientTyped, RunsAtTheEnd
  <2>7. QED
    BY <1>3, <2>1, <2>3, <2>4, <2>6, HttpRequestStep
<1>5. CASE ~ proved
  <2>1. /\ request' = [request EXCEPT ![t] = Http!Ended(request[t], "AuthError")]
        /\ UNCHANGED <<password, token, valid, issued>>
    BY <1>5 DEF Http!Scram, Http!Becomes
  <2>2. r = Http!Ended(request[t], "AuthError")
    BY <1>2, <2>1
  <2>3. r \in HttpRequest /\ r.at = "done" /\ r.ran = 0 /\ request' = [request EXCEPT ![t] = r]
    BY <1>1, <1>2, <2>1, <2>2, HttpEnded
  <2>4. ~ NothingLost
    BY <1>1, <1>5 DEF NothingLost, Kept
  <2>5. ClientTyped' /\ RunsAtTheEnd(r)
    BY <1>2, <1>3, <2>1, <2>3 DEF ClientTyped, RunsAtTheEnd
  <2>6. QED
    BY <1>3, <2>1, <2>3, <2>4, <2>5, HttpRequestStep
<1>6. QED
  BY <1>4, <1>5

LEMMA HttpSend ==
  ASSUME HttpInv, NEW t \in Task, NEW away \in BOOLEAN, Http!Send(t, away)
  PROVE  HttpInv'
<1> DEFINE in == ~ secured \/ request[t].using \in valid
           answer == IF away THEN "lost" ELSE IF in THEN "ok" ELSE "401"
           q == [request[t] EXCEPT !.sent = @ + 1, !.ran = IF in THEN @ + 1 ELSE @]
           again == answer \in Http!Retried /\ request[t].sent = 0
           r == CASE again -> Http!Ensured(q, Http!NoToken)
                  [] answer = "ok" -> Http!Ended(q, "ok")
                  [] answer = "lost" /\ ~ again -> Http!Ended(q, "NetworkError")
                  [] answer = "401" /\ ~ again -> Http!Ended(q, "AuthError")
<1>1. request[t].at = "sending" /\ request[t].ran = 0
  BY DEF HttpInv, RunsAtTheEnd, Http!Send
<1>2. request \in [Task -> HttpRequest] /\ ClientTyped
  BY DEF HttpInv
<1>3. q \in HttpRequest /\ q.ran = (IF in THEN 1 ELSE 0) /\ q.out = request[t].out
  <2>1. request[t] \in HttpRequest /\ request[t].sent + 1 \in Nat /\ request[t].ran + 1 = 1
    BY <1>1, <1>2, HttpFields
  <2>2. q = [request[t] EXCEPT !.sent = request[t].sent + 1, !.ran = IF in THEN 1 ELSE 0]
    BY <1>1, <2>1
  <2> DEFINE n == request[t].sent + 1
             m == IF in THEN 1 ELSE 0
  <2>3. n \in Nat /\ m \in Nat
    BY <2>1
  <2> HIDE DEF n, m
  <2>4. q = [request[t] EXCEPT !.sent = n, !.ran = m]
    BY <2>2 DEF n, m
  <2> HIDE DEF q
  <2>5. q \in HttpRequest /\ q.ran = m /\ q.out = request[t].out
    BY <2>1, <2>3, <2>4 DEF HttpRequest
  <2>6. QED
    BY <2>5 DEF m
<1>4. /\ request' = [request EXCEPT ![t] = r]
      /\ token' = IF again THEN Http!NoToken ELSE token
      /\ UNCHANGED <<secured, session, password, valid, handshakes, accepts, admits, issued, happened>>
  BY DEF Http!Send, Http!Becomes
<1>5. answer \in {"lost", "ok", "401"} /\ (answer = "401" => ~ in)
  BY DEF in
<1>6. again => answer = "401"
  BY DEF Http!Retried
<1>7. NothingLost => in
  BY <1>1 DEF NothingLost, Kept
<1>8. Http!NoToken \in Int /\ password \in {"", "secret"}
  BY <1>2, HttpConstants DEF ClientTyped
<1> HIDE DEF in, answer, q, again
<1>9. /\ r \in HttpRequest /\ RunsAtTheEnd(r)
      /\ in => r.at = "done" /\ r.out # "AuthError"
  <2>1. CASE again
    <3>1. r = Http!Ensured(q, Http!NoToken)
      BY <2>1, <1>6
    <3>2. r \in HttpRequest /\ r.ran = 0 /\ ~ in
      BY <3>1, <2>1, <1>3, <1>5, <1>6, <1>8, HttpEnsured
    <3>3. QED
      BY <3>2 DEF RunsAtTheEnd
  <2>2. CASE ~ again
    <3>1. PICK out \in {"ok", "AuthError", "NetworkError"} :
            r = Http!Ended(q, out) /\ (out = "AuthError" => answer = "401")
      BY <2>2, <1>5
    <3> HIDE DEF r
    <3>2. r \in HttpRequest /\ r.at = "done" /\ r.out = out /\ r.ran = q.ran
      BY <3>1, <1>3, HttpEnded
    <3>3. QED
      BY <3>1, <3>2, <1>3, <1>5 DEF RunsAtTheEnd
  <2>3. QED
    BY <2>1, <2>2
<1> HIDE DEF r
<1>10. request'[t] = r
  BY <1>2, <1>4
<1>11. NothingLost => TokenOrPassword' /\ Kept(t, request[t])'
  BY <1>4, <1>5, <1>6, <1>7, <1>9, <1>10 DEF NothingLost, TokenOrPassword, Kept
<1>12. ClientTyped'
  BY <1>2, <1>4, <1>8 DEF ClientTyped
<1>13. QED
  BY <1>4, <1>9, <1>11, <1>12, HttpRequestStep

LEMMA HttpLoginLost ==
  ASSUME HttpInv, NEW t \in Task, Http!LoginLost(t)
  PROVE  HttpInv'
<1> DEFINE out == IF request[t].sent = 0 THEN "ClientError" ELSE "NetworkError"
           r == Http!Ended(request[t], out)
<1>1. request[t].ran = 0 /\ request[t] \in HttpRequest /\ request \in [Task -> HttpRequest]
  BY DEF HttpInv, RunsAtTheEnd, Http!LoginLost
<1>2. /\ request' = [request EXCEPT ![t] = r]
      /\ UNCHANGED <<secured, session, password, token, valid, handshakes, accepts, admits, issued,
                  happened>>
  BY DEF Http!LoginLost, Http!Becomes
<1>3. r \in HttpRequest /\ r.ran = 0 /\ r.at = "done" /\ r.out # "AuthError"
  BY <1>1, HttpEnded
<1> HIDE DEF r
<1>4. request'[t] = r
  BY <1>1, <1>2
<1>5. NothingLost => TokenOrPassword' /\ Kept(t, request[t])'
  BY <1>2, <1>3, <1>4 DEF NothingLost, TokenOrPassword, Kept
<1>6. ClientTyped' /\ RunsAtTheEnd(r)
  BY <1>2, <1>3 DEF HttpInv, ClientTyped, RunsAtTheEnd
<1>7. QED
  BY <1>2, <1>3, <1>5, <1>6, HttpRequestStep

\* The client is closed, which leaves it the password it has, and opened again.
LEMMA HttpSession ==
  ASSUME HttpInv, Http!Reopen \/ \E t \in Task : Http!Close(t)
  PROVE  HttpInv'
<1>1. /\ UNCHANGED <<secured, password, request, valid, handshakes, accepts, admits, issued>>
      /\ session' \in {"open", "closed"} /\ token' \in {token, Http!NoToken}
      /\ happened' = {} => happened = {} /\ (token' = token \/ password # "")
  BY DEF Http!Reopen, Http!Close
<1>2. ClientTyped'
  BY <1>1, HttpConstants DEF HttpInv, ClientTyped
<1>3. ASSUME happened' = {} PROVE NothingLost'
  <2>1. NothingLost /\ password \in {"", "secret"}
    BY <1>1, <1>3 DEF HttpInv, ClientTyped
  <2>2. TokenOrPassword'
    BY <1>1, <1>3, <2>1 DEF NothingLost, TokenOrPassword
  <2>3. \A t \in Task : Kept(t, request[t])'
    BY <1>1, <2>1 DEF NothingLost, Kept
  <2>4. QED
    BY <1>1, <2>1, <2>2, <2>3 DEF NothingLost
<1>4. QED
  BY <1>1, <1>2, <1>3 DEF HttpInv

\* What the server does to its clients, which it remembers to have done.
LEMMA HttpServerSteps ==
  ASSUME HttpInv,
         \/ Http!Forget \/ Http!NewPassword \/ Http!Refuse \/ Http!Admit
         \/ \E tok \in valid : Http!Expire(tok)
  PROVE  HttpInv'
<1>1. request' = request
  BY DEF Http!Forget, Http!NewPassword, Http!Refuse, Http!Admit, Http!Expire
<1>2. ClientTyped'
  BY DEF HttpInv, ClientTyped, Http!Forget, Http!NewPassword, Http!Refuse, Http!Admit, Http!Expire
<1>3. happened' # {}
  <2>1. CASE Http!Admit
    BY <2>1 DEF HttpInv, NothingLost, Http!Admit
  <2>2. QED
    BY <2>1 DEF Http!Forget, Http!NewPassword, Http!Refuse, Http!Expire
<1>4. QED
  BY <1>1, <1>2, <1>3 DEF HttpInv

LEMMA HttpNextInv == HttpInv /\ [Http!Next]_httpVars => HttpInv'
<1> SUFFICES ASSUME HttpInv, [Http!Next]_httpVars PROVE HttpInv'
  OBVIOUS
<1>1. CASE UNCHANGED httpVars
  BY <1>1 DEF httpVars, HttpInv, ClientTyped, NothingLost, TokenOrPassword, Kept
<1>2. ASSUME NEW t \in Task, Http!Begin(t) \/ Http!Hello(t) \/ Http!Scram(t) \/ Http!LoginLost(t)
      PROVE  HttpInv'
  BY <1>2, HttpBegin, HttpHello, HttpScram, HttpLoginLost
<1>3. ASSUME NEW t \in Task, NEW away \in BOOLEAN, Http!Send(t, away)
      PROVE  HttpInv'
  BY <1>3, HttpSend
<1>4. CASE \/ Http!Forget \/ Http!NewPassword \/ Http!Refuse \/ Http!Admit
           \/ \E tok \in valid : Http!Expire(tok)
  BY <1>4, HttpServerSteps
<1>5. CASE Http!Reopen \/ \E t \in Task : Http!Close(t)
  BY <1>5, HttpSession
<1>6. QED
  BY <1>1, <1>2, <1>3, <1>4, <1>5 DEF Http!Next

LEMMA HttpInvAlways == ConnectionsSpec => []HttpInv
<1>1. ConnectionsInit => HttpInv
  BY HttpInitInv DEF ConnectionsInit
<1>2. HttpInv /\ [ConnectionsNext]_<<part, vars, serverVars, chunkVars, httpVars>> => HttpInv'
  <2>1. ASSUME [ConnectionsNext]_<<part, vars, serverVars, chunkVars, httpVars>>
        PROVE  [Http!Next]_httpVars
    BY <2>1 DEF ConnectionsNext
  <2>2. QED
    BY <2>1, HttpNextInv
<1>3. QED
  BY <1>1, <1>2, PTL DEF ConnectionsSpec

\* However often it is sent, a request is run once.
THEOREM RequestsRunOnce == ConnectionsSpec => []RunOnce
<1>1. HttpInv => RunOnce
  BY DEF HttpInv, RunsAtTheEnd, RunOnce, Http!RunOnce
<1>2. QED
  BY HttpInvAlways, <1>1, PTL

\* An AuthError needs a server that dropped a token, a handshake or a password or
\* refused a handshake, or a client closed after a login.
THEOREM AuthErrorsHaveCauses == ConnectionsSpec => []AuthErrorHasCause
<1>1. HttpInv => AuthErrorHasCause
  BY DEF HttpInv, NothingLost, Kept, AuthErrorHasCause, Http!AuthErrorHasCause
<1>2. QED
  BY HttpInvAlways, <1>1, PTL

---------------------------------------------------------------------------------
(* The calls of a client: for every number of tasks, ids, calls of a batch and  *)
(* ids that fit a frame.                                                         *)

\* The actions as one disjunction, for the proofs by cases below.
LEMMA NextCases ==
  ASSUME [Next]_vars
  PROVE  \/ \E t \in Task, n \in 1..MaxSize, kind \in {"call", "batch"} : Start(t, kind, n)
         \/ \E t \in Task : SendDone(t)
         \/ \E t \in Task : SendFails(t)
         \/ \E t \in Task : Resume(t)
         \/ \E t \in Task : Timeout(t)
         \/ \E t \in Task : Cancel(t)
         \/ \E t \in Task : CallAgain(t)
         \/ \E k \in DOMAIN requests : \E failed \in SUBSET (1..MaxSize) : Serve(k, failed)
         \/ Deliver
         \/ \E stays \in BOOLEAN : ReceiverEnds(stays)
         \/ Close
         \/ CloseDone
         \/ UNCHANGED vars
BY DEF Next

------------------------------------------------------------------------------
(* The inductive invariant.                                                    *)

\* A message names a number that was handed out, and the task that has it, if
\* any still does.
Owns(i, t) == \A u \in Task : i \in IdsOf(u) => u = t
Requested == {m \in [id : Id, from : Task] : m.id < nextId /\ Owns(m.id, m.from)}
Answered == {m \in [id : Id, from : Task, err : BOOLEAN] : m.id < nextId /\ Owns(m.id, m.from)}

Future == {NoFuture, Waiting}
            \cup [state : {"ok", "error", "lost", "cancelled"}, from : Task \cup {"nobody"}]
Work == [at : {"idle", "sending", "waiting", "done"}, kind : {"call", "batch"},
         ids : Seq(Id), got : Seq(Task),
         out : {"none", "ok", "raised", "timeout", "stopped", "cancelled"}]

TypeInv ==
  /\ link \in {"up", "lost", "closing", "closed"}
  /\ nextId \in 0 .. MaxIds
  /\ pending \in SUBSET Id
  /\ fut \in [Id -> Future]
  /\ task \in [Task -> Work]

MessagesInv ==
  /\ requests \in Seq(Seq(Requested))
  /\ answers \in Seq(Seq(Answered))

\* A future that was answered is no longer in _pending; a closed client has none there.
FuturesInv ==
  /\ \A i \in Id : i >= nextId => fut[i] = NoFuture /\ i \notin pending
  /\ \A i \in Id : fut[i].state \in {"ok", "error", "lost"} => i \notin pending
  /\ link = "closed" => pending = {}

\* What a task holds of its call.
CallInv(t) ==
  /\ Len(task[t].got) <= Len(task[t].ids)
  /\ \A k \in DOMAIN task[t].got : task[t].got[k] = t /\ fut[task[t].ids[k]].state = "ok"
  /\ task[t].kind = "call" => Len(task[t].ids) <= 1
  /\ task[t].at = "idle" => task[t].ids = <<>>
  /\ task[t].out = "ok" => Len(task[t].got) = Len(task[t].ids)
  /\ task[t].out = "cancelled" => link = "closed"

\* What the ids of a task are, while it waits and when it is done.
IdsInv(t) ==
  /\ \A i \in IdsOf(t) : i \in Id /\ i < nextId
  /\ \A i \in IdsOf(t) : fut[i].state = "ok" => fut[i].from = t
  /\ task[t].at \in {"sending", "waiting"} =>
       /\ Len(task[t].got) < Len(task[t].ids) /\ task[t].out = "none"
       /\ \A i \in IdsOf(t) : fut[i].state = "cancelled" => link = "closed"
  /\ task[t].at = "done" => LeftBehind(t) \/ IdsOf(t) \cap pending = {}

Disjoint == \A t, u \in Task : t # u => IdsOf(t) \cap IdsOf(u) = {}

Inv ==
  /\ TypeInv /\ MessagesInv /\ FuturesInv /\ Disjoint
  /\ \A t \in Task : CallInv(t) /\ IdsInv(t)

------------------------------------------------------------------------------
LEMMA InitInv == Init => Inv
<1> SUFFICES ASSUME Init PROVE Inv
  OBVIOUS
<1>1. 0 \in 0 .. MaxIds /\ NoFuture \in Future /\ Idle \in Work
  BY CallsAssumption DEF NoFuture, Future, Idle, Work
<1>2. \A t \in Task : IdsOf(t) = {} /\ task[t] = Idle
  BY DEF Init, Idle, IdsOf
<1>3. QED
  BY <1>1, <1>2 DEF Init, Inv, TypeInv, MessagesInv, FuturesInv, Disjoint, CallInv, IdsInv,
                    Idle, NoFuture, LeftBehind

\* Messages stay as they should be when tasks get new ids only.
LEMMA MessagesKept ==
  ASSUME nextId \in Nat, nextId' \in Nat, nextId' >= nextId,
         \A t \in Task : \A i \in IdsOf(t)' : i \in IdsOf(t) \/ ~(i < nextId)
  PROVE  /\ Requested \subseteq Requested' /\ Answered \subseteq Answered'
         /\ Seq(Seq(Requested)) \subseteq Seq(Seq(Requested'))
         /\ Seq(Seq(Answered)) \subseteq Seq(Seq(Answered'))
<1>1. Requested \subseteq Requested' /\ Answered \subseteq Answered'
  <2>1. Id \subseteq Nat
    BY CallsAssumption DEF Id
  <2>2. ASSUME NEW i \in Id, NEW t, i < nextId, Owns(i, t)
        PROVE  i < nextId' /\ Owns(i, t)'
    BY <2>1, <2>2 DEF Owns
  <2>3. QED
    BY <2>2 DEF Requested, Answered
<1>2. ASSUME NEW S, NEW T, S \subseteq T
      PROVE  Seq(S) \subseteq Seq(T)
  BY <1>2
<1>3. QED
  BY <1>1, <1>2

\* A task that does nothing in a step does not lose what holds of it when futures
\* that wait are settled, _pending shrinks and new numbers are handed out.
LEMMA Bystander ==
  ASSUME Inv, NEW t \in Task, task'[t] = task[t],
         nextId' \in Nat, nextId' >= nextId,
         \A i \in IdsOf(t) : i \in pending' => i \in pending,
         link = "closed" => link' = "closed",
         \A i \in IdsOf(t) :
            \/ fut'[i] = fut[i]
            \/ /\ fut[i] = Waiting
               /\ fut'[i].state = "ok" => fut'[i].from = t
               /\ fut'[i].state = "cancelled" => link' = "closed"
  PROVE  CallInv(t)' /\ IdsInv(t)' /\ IdsOf(t)' = IdsOf(t)
<1>1. IdsOf(t)' = IdsOf(t) /\ LeftBehind(t)' = LeftBehind(t)
  BY DEF IdsOf, LeftBehind
<1>2. CallInv(t) /\ IdsInv(t) /\ task[t] \in Work
  BY DEF Inv, TypeInv
<1>3. CallInv(t)'
  <2>1. ASSUME NEW k \in DOMAIN task[t].got
        PROVE  task[t].ids[k] \in IdsOf(t)
    <3>1. Len(task[t].got) <= Len(task[t].ids) /\ task[t].ids \in Seq(Id) /\ task[t].got \in Seq(Task)
      BY <1>2 DEF CallInv, Work
    <3>2. k \in DOMAIN task[t].ids
      BY <3>1
    <3>3. QED
      BY <3>2 DEF IdsOf
  <2>2. \A k \in DOMAIN task[t].got : fut'[task[t].ids[k]].state = "ok"
    BY <1>2, <2>1 DEF CallInv, Waiting
  <2>3. QED
    BY <1>2, <2>2 DEF CallInv
<1>4. IdsInv(t)'
  <2>1. \A i \in IdsOf(t) : i \in Id /\ i < nextId'
    <3>1. nextId \in Nat /\ Id \subseteq Nat
      BY CallsAssumption DEF Inv, TypeInv, Id
    <3>2. ASSUME NEW i \in IdsOf(t)
          PROVE  i \in Id /\ i < nextId'
      <4>1. i \in Id /\ i < nextId
        BY <1>2 DEF IdsInv
      <4>2. i \in Nat
        BY <3>1, <4>1
      <4>3. QED
        BY <3>1, <4>1, <4>2
    <3>3. QED
      BY <3>2
  <2>2. \A i \in IdsOf(t) : fut'[i].state = "ok" => fut'[i].from = t
    BY <1>2 DEF IdsInv
  <2>3. task[t].at \in {"sending", "waiting"} =>
          \A i \in IdsOf(t) : fut'[i].state = "cancelled" => link' = "closed"
    BY <1>2 DEF IdsInv
  <2>4. task[t].at = "done" => LeftBehind(t) \/ IdsOf(t) \cap pending' = {}
    BY <1>2 DEF IdsInv
  <2>5. QED
    BY <1>1, <1>2, <2>1, <2>2, <2>3, <2>4 DEF IdsInv
<1>5. QED
  BY <1>1, <1>3, <1>4

LEMMA Fresh ==
  ASSUME Inv, NEW t \in Task
  PROVE  \A i \in IdsOf(t) : i \in Nat /\ i < nextId /\ i \in Id
BY CallsAssumption DEF Inv, IdsInv, Id

LEMMA StartInv ==
  ASSUME Inv, NEW t \in Task, NEW n \in 1..MaxSize, NEW kind \in {"call", "batch"}, Start(t, kind, n)
  PROVE  Inv'
<1> DEFINE ids == [k \in 1..n |-> nextId + k - 1]
           sent == (~(kind = "call" /\ binary) \/ nextId < WireIds) /\ link \in {"up", "lost"}
           r == [at |-> IF sent THEN "sending" ELSE "done", kind |-> kind, ids |-> ids, got |-> <<>>,
                 out |-> IF sent THEN "none" ELSE "raised"]
           new == nextId .. nextId + n - 1
<1>1. /\ nextId \in Nat /\ n \in Nat \ {0} /\ nextId + n <= MaxIds /\ MaxIds \in Nat
      /\ nextId' = nextId + n /\ nextId' \in 0 .. MaxIds
  BY CallsAssumption DEF Inv, TypeInv, Start, IdAfter
<1>2. /\ task[t].at = "idle" /\ link # "closed" /\ link' = link
      /\ kind = "call" => n = 1
      /\ fut' = [i \in Id |-> IF i \in new THEN Waiting ELSE fut[i]]
      /\ task' = [task EXCEPT ![t] = r]
      /\ pending' = IF sent \/ kind = "batch" THEN pending \cup {ids[k] : k \in 1..n} ELSE pending \ {ids[1]}
      /\ requests' = IF sent /\ link = "up"
                     THEN Append(requests, [k \in 1..n |-> [id |-> ids[k], from |-> t]]) ELSE requests
      /\ answers' = answers
  BY DEF Start
<1>3. ids \in Seq(Id) /\ Len(ids) = n /\ new \subseteq Id /\ {ids[k] : k \in 1..n} = new
  <2>1. \A k \in 1..n : ids[k] \in Id /\ ids[k] \in new
    BY <1>1 DEF Id
  <2>2. \A i \in new : i - nextId + 1 \in 1..n /\ ids[i - nextId + 1] = i
    BY <1>1
  <2>3. new \subseteq Id
    BY <1>1 DEF Id
  <2>4. {ids[k] : k \in 1..n} = new
    BY <2>1, <2>2
  <2>5. ids \in Seq(Id) /\ Len(ids) = n
    BY <1>1, <2>1
  <2>6. QED
    BY <2>3, <2>4, <2>5
<1>4. r \in Work /\ r.ids = ids /\ r.got = <<>> /\ r.kind = kind
  BY <1>3 DEF Work
<1>5. task \in [Task -> Work] /\ task' \in [Task -> Work] /\ task'[t] = r
  BY <1>2, <1>4 DEF Inv, TypeInv
<1>6. IdsOf(t)' = new
  <2>1. IdsOf(t)' = {ids[k] : k \in DOMAIN ids}
    BY <1>4, <1>5 DEF IdsOf
  <2>2. QED
    BY <1>3, <2>1
<1>7. \A u \in Task : u # t => task'[u] = task[u] /\ IdsOf(u)' = IdsOf(u)
  BY <1>2, <1>5 DEF IdsOf
<1>8. ASSUME NEW u \in Task
      PROVE  IdsOf(u) \cap new = {}
  BY <1>1, Fresh
<1> HIDE DEF ids, sent, r
<1>9. TypeInv'
  <2>1. Waiting \in Future
    BY DEF Waiting, Future
  <2>2. fut' \in [Id -> Future]
    BY <1>2, <2>1 DEF Inv, TypeInv
  <2>3. pending' \in SUBSET Id
    BY <1>2, <1>3 DEF Inv, TypeInv
  <2>4. QED
    BY <1>1, <1>2, <1>5, <2>2, <2>3 DEF Inv, TypeInv
<1>10. Disjoint'
  <2>1. \A u, v \in Task : u # v /\ u # t /\ v # t => IdsOf(u)' \cap IdsOf(v)' = {}
    BY <1>7 DEF Inv, Disjoint
  <2>2. \A u \in Task : u # t => IdsOf(u)' \cap IdsOf(t)' = {}
    BY <1>6, <1>7, <1>8
  <2>3. QED
    BY <2>1, <2>2 DEF Disjoint
<1>11. MessagesInv'
  <2>1. \A u \in Task : \A i \in IdsOf(u)' : i \in IdsOf(u) \/ ~(i < nextId)
    BY <1>1, <1>6, <1>7
  <2>2. /\ Seq(Seq(Requested)) \subseteq Seq(Seq(Requested'))
        /\ Seq(Seq(Answered)) \subseteq Seq(Seq(Answered'))
    BY <1>1, <2>1, MessagesKept
  <2>3. [k \in 1..n |-> [id |-> ids[k], from |-> t]] \in Seq(Requested')
    <3>1. ASSUME NEW i \in new
          PROVE  [id |-> i, from |-> t] \in Requested'
      <4>1. i \in Id /\ i < nextId'
        BY <1>1, <1>3
      <4>2. Owns(i, t)'
        BY <1>7, <1>8 DEF Owns
      <4>3. QED
        BY <4>1, <4>2 DEF Requested
    <3>2. \A k \in 1..n : ids[k] \in new
      BY <1>3
    <3>3. \A k \in 1..n : [id |-> ids[k], from |-> t] \in Requested'
      BY <3>1, <3>2
    <3>4. QED
      BY <1>1, <3>3
  <2>4. requests \in Seq(Seq(Requested')) /\ answers \in Seq(Seq(Answered'))
    BY <2>2 DEF Inv, MessagesInv
  <2>5. QED
    BY <1>2, <2>3, <2>4 DEF MessagesInv
<1>12. FuturesInv'
  <2>1. ASSUME NEW i \in Id, i >= nextId'
        PROVE  fut'[i] = NoFuture /\ i \notin pending'
    <3>1. i \in Nat /\ i >= nextId /\ i \notin new
      BY <1>1, <2>1 DEF Id
    <3>2. QED
      BY <1>2, <1>3, <3>1 DEF Inv, FuturesInv
  <2>2. ASSUME NEW i \in Id, fut'[i].state \in {"ok", "error", "lost"}
        PROVE  i \notin pending'
    <3>1. i \notin new /\ fut'[i] = fut[i]
      BY <1>2, <2>2 DEF Waiting
    <3>2. QED
      BY <1>2, <1>3, <2>2, <3>1 DEF Inv, FuturesInv
  <2>3. QED
    BY <1>2, <2>1, <2>2 DEF FuturesInv
<1>13. ASSUME NEW u \in Task, u # t
       PROVE  CallInv(u)' /\ IdsInv(u)'
  <2>1. \A i \in IdsOf(u) : fut'[i] = fut[i] /\ (i \in pending' => i \in pending)
    BY <1>2, <1>3, <1>8, Fresh
  <2>2. nextId' \in Nat /\ nextId' >= nextId /\ task'[u] = task[u] /\ (link = "closed" => link' = "closed")
    BY <1>1, <1>2, <1>7, <1>13
  <2>3. QED
    BY <2>1, <2>2, Bystander
<1>14. CallInv(t)'
  <2>1. /\ task'[t].got = <<>> /\ task'[t].ids = ids /\ task'[t].kind = kind
        /\ task'[t].at # "idle" /\ task'[t].out \in {"none", "raised"}
    BY <1>5 DEF r
  <2>2. QED
    BY <1>1, <1>2, <1>3, <2>1 DEF CallInv
<1>15. IdsInv(t)'
  <2>1. \A i \in new : i \in Id /\ i < nextId' /\ fut'[i] = Waiting
    BY <1>1, <1>2, <1>3
  <2>2. CASE sent
    <3>1. task'[t].at = "sending" /\ task'[t].out = "none" /\ task'[t].got = <<>> /\ task'[t].ids = ids
      BY <1>5, <2>2 DEF r
    <3>2. QED
      BY <1>1, <1>3, <1>6, <2>1, <3>1 DEF IdsInv, Waiting
  <2>3. CASE ~sent
    <3>1. task'[t].at = "done" /\ task'[t].out = "raised" /\ task'[t].kind = kind
      BY <1>5, <2>3 DEF r
    <3>2. kind = "call" => IdsOf(t)' \cap pending' = {}
      <4>1. ASSUME kind = "call"
            PROVE  new = {ids[1]}
        BY <1>1, <1>2, <4>1 DEF ids
      <4>2. QED
        BY <1>2, <1>6, <2>3, <4>1
    <3>3. QED
      BY <1>6, <2>1, <3>1, <3>2 DEF IdsInv, LeftBehind, Waiting
  <2>4. QED
    BY <2>2, <2>3
<1>16. QED
  BY <1>9, <1>10, <1>11, <1>12, <1>13, <1>14, <1>15 DEF Inv


\* What a step keeps that hands out no number: it may settle futures that wait,
\* shorten _pending and move a task on.
LEMMA Frame ==
  ASSUME Inv, nextId' = nextId,
         link' \in {"up", "lost", "closing", "closed"}, link' = "closed" => pending' = {},
         pending' \in SUBSET pending, fut' \in [Id -> Future], task' \in [Task -> Work],
         \A i \in Id : \/ fut'[i] = fut[i]
                       \/ /\ fut[i] = Waiting
                          /\ fut'[i].state \in {"ok", "error", "lost"} => i \notin pending',
         \A t \in Task : task'[t].ids = task[t].ids
  PROVE  /\ TypeInv' /\ FuturesInv' /\ Disjoint'
         /\ \A t \in Task : IdsOf(t)' = IdsOf(t)
         /\ Requested' = Requested /\ Answered' = Answered
<1>1. \A t \in Task : IdsOf(t)' = IdsOf(t)
  BY DEF IdsOf
<1>2. Requested' = Requested /\ Answered' = Answered
  BY <1>1 DEF Requested, Answered, Owns
<1>3. Disjoint'
  BY <1>1 DEF Inv, Disjoint
<1>4. TypeInv'
  BY DEF Inv, TypeInv
<1>5. FuturesInv'
  <2>1. ASSUME NEW i \in Id, i >= nextId'
        PROVE  fut'[i] = NoFuture /\ i \notin pending'
    BY <2>1 DEF Inv, FuturesInv, NoFuture, Waiting
  <2>2. ASSUME NEW i \in Id, fut'[i].state \in {"ok", "error", "lost"}
        PROVE  i \notin pending'
    BY <2>2 DEF Inv, FuturesInv
  <2>3. QED
    BY <2>1, <2>2 DEF FuturesInv
<1>6. QED
  BY <1>1, <1>2, <1>3, <1>4, <1>5

\* A task that waits for the next answer has one to wait for.
LEMMA AwaitedIsOwn ==
  ASSUME Inv, NEW t \in Task, Len(task[t].got) < Len(task[t].ids)
  PROVE  /\ Awaited(t) \in IdsOf(t) /\ Awaited(t) \in Id
         /\ Len(task[t].got) + 1 \in DOMAIN task[t].ids
<1>1. task[t].ids \in Seq(Id) /\ task[t].got \in Seq(Task)
  BY DEF Inv, TypeInv, Work
<1>2. Len(task[t].got) + 1 \in DOMAIN task[t].ids
  BY <1>1
<1>3. QED
  BY <1>1, <1>2 DEF Awaited, IdsOf

\* Ends changes where a task is and how its call came out.
LEMMA EndsWork ==
  ASSUME Inv, NEW t \in Task, NEW out \in {"raised", "timeout", "stopped"}, Ends(t, out)
  PROVE  /\ task' \in [Task -> Work]
         /\ \A u \in Task : u # t => task'[u] = task[u]
         /\ task'[t].at = "done" /\ task'[t].out = out /\ task'[t].kind = task[t].kind
         /\ task'[t].ids = task[t].ids /\ task'[t].got = task[t].got
BY DEF Inv, TypeInv, Ends, Work

\* A task that ends without an answer is in order when nothing of it is left, or
\* it is one of those that leave entries behind.
LEMMA EndsInv ==
  ASSUME Inv, NEW t \in Task, NEW out \in {"raised", "timeout", "stopped"}, Ends(t, out),
         nextId' = nextId, link' = link,
         \A i \in IdsOf(t) : fut'[i] = fut[i] \/ (fut[i] = Waiting /\ fut'[i].state # "ok"),
         LeftBehind(t)' \/ IdsOf(t) \cap pending' = {}, task[t].at # "idle"
  PROVE  CallInv(t)' /\ IdsInv(t)'
<1>1. CallInv(t) /\ IdsInv(t) /\ task[t] \in Work
  BY DEF Inv, TypeInv
<1>2. /\ task'[t].at = "done" /\ task'[t].out = out /\ task'[t].kind = task[t].kind
      /\ task'[t].ids = task[t].ids /\ task'[t].got = task[t].got
  BY EndsWork
<1>3. IdsOf(t)' = IdsOf(t)
  BY <1>2 DEF IdsOf
<1>4. ASSUME NEW k \in DOMAIN task[t].got
      PROVE  fut'[task[t].ids[k]].state = "ok"
  <2>1. task[t].ids[k] \in IdsOf(t)
    <3>1. Len(task[t].got) <= Len(task[t].ids) /\ task[t].ids \in Seq(Id) /\ task[t].got \in Seq(Task)
      BY <1>1 DEF CallInv, Work
    <3>2. k \in DOMAIN task[t].ids
      BY <3>1
    <3>3. QED
      BY <3>2 DEF IdsOf
  <2>2. QED
    BY <1>1, <2>1 DEF CallInv, Waiting
<1>5. CallInv(t)'
  BY <1>1, <1>2, <1>4 DEF CallInv
<1>6. IdsInv(t)'
  BY <1>1, <1>2, <1>3 DEF IdsInv
<1>7. QED
  BY <1>5, <1>6

LEMMA SendDoneInv ==
  ASSUME Inv, NEW t \in Task, SendDone(t)
  PROVE  Inv'
<1>1. /\ task \in [Task -> Work] /\ task[t].at = "sending"
      /\ task' = [task EXCEPT ![t].at = "waiting"]
      /\ UNCHANGED <<link, nextId, pending, fut, requests, answers>>
  BY DEF Inv, TypeInv, SendDone
<1>2. /\ task' \in [Task -> Work] /\ \A u \in Task : u # t => task'[u] = task[u]
      /\ task'[t] = [task[t] EXCEPT !.at = "waiting"]
  BY <1>1 DEF Work
<1>3. /\ TypeInv' /\ FuturesInv' /\ Disjoint' /\ \A u \in Task : IdsOf(u)' = IdsOf(u)
      /\ Requested' = Requested /\ Answered' = Answered
  <2>1. \A u \in Task : task'[u].ids = task[u].ids
    BY <1>1, <1>2 DEF Work
  <2>2. /\ link \in {"up", "lost", "closing", "closed"} /\ fut \in [Id -> Future] /\ nextId \in Nat
        /\ link = "closed" => pending = {}
    BY CallsAssumption DEF Inv, TypeInv, FuturesInv
  <2>3. QED
    BY <1>1, <1>2, <2>1, <2>2, Frame
<1>4. \A u \in Task : u # t => CallInv(u)' /\ IdsInv(u)'
  BY <1>1, <1>2, Bystander, CallsAssumption DEF Inv, TypeInv
<1>5. CallInv(t)' /\ IdsInv(t)'
  <2>1. CallInv(t) /\ IdsInv(t) /\ task[t] \in Work
    BY <1>1 DEF Inv
  <2>2. /\ task'[t].at = "waiting" /\ task'[t].kind = task[t].kind /\ task'[t].ids = task[t].ids
        /\ task'[t].got = task[t].got /\ task'[t].out = task[t].out
    BY <1>2, <2>1 DEF Work
  <2>3. CallInv(t)'
    BY <1>1, <2>1, <2>2 DEF CallInv
  <2>4. IdsInv(t)'
    BY <1>1, <1>3, <2>1, <2>2 DEF IdsInv
  <2>5. QED
    BY <2>3, <2>4
<1>6. QED
  BY <1>1, <1>3, <1>4, <1>5 DEF Inv, MessagesInv

\* The four ways in which a call ends without an answer.
LEMMA EndingInv ==
  ASSUME Inv, NEW t \in Task, NEW out \in {"raised", "timeout", "stopped"}, Ends(t, out),
         task[t].at # "idle", nextId' = nextId, link' = link, pending' \in SUBSET pending,
         requests' = requests, answers' = answers, fut' \in [Id -> Future],
         \A i \in Id : \/ fut'[i] = fut[i]
                       \/ i \in IdsOf(t) /\ fut[i] = Waiting /\ fut'[i].state = "cancelled",
         LeftBehind(t)' \/ IdsOf(t) \cap pending' = {}
  PROVE  Inv'
<1>1. /\ task' \in [Task -> Work] /\ \A u \in Task : u # t => task'[u] = task[u]
      /\ task'[t].ids = task[t].ids
  BY EndsWork
<1>2. /\ TypeInv' /\ FuturesInv' /\ Disjoint' /\ \A u \in Task : IdsOf(u)' = IdsOf(u)
      /\ Requested' = Requested /\ Answered' = Answered
  <2>1. \A u \in Task : task'[u].ids = task[u].ids
    BY <1>1
  <2>2. /\ link' \in {"up", "lost", "closing", "closed"}
        /\ link' = "closed" => pending' = {}
    BY DEF Inv, TypeInv, FuturesInv
  <2>3. \A i \in Id : \/ fut'[i] = fut[i]
                      \/ /\ fut[i] = Waiting
                         /\ fut'[i].state \in {"ok", "error", "lost"} => i \notin pending'
    OBVIOUS
  <2>4. QED
    BY <1>1, <2>1, <2>2, <2>3, Frame
<1>3. ASSUME NEW u \in Task, u # t
      PROVE  CallInv(u)' /\ IdsInv(u)'
  <2>1. \A i \in IdsOf(u) : fut'[i] = fut[i] /\ (i \in pending' => i \in pending)
    BY <1>3, Fresh DEF Inv, Disjoint
  <2>2. nextId' \in Nat /\ nextId' >= nextId /\ task'[u] = task[u] /\ (link = "closed" => link' = "closed")
    BY <1>1, <1>3, CallsAssumption DEF Inv, TypeInv
  <2>3. QED
    BY <2>1, <2>2, Bystander
<1>4. CallInv(t)' /\ IdsInv(t)'
  <2>1. \A i \in IdsOf(t) : fut'[i] = fut[i] \/ (fut[i] = Waiting /\ fut'[i].state # "ok")
    BY Fresh
  <2>2. QED
    BY <2>1, EndsInv
<1>5. QED
  BY <1>2, <1>3, <1>4 DEF Inv, MessagesInv

LEMMA SendFailsInv ==
  ASSUME Inv, NEW t \in Task, SendFails(t)
  PROVE  Inv'
<1>1. /\ Ends(t, "raised") /\ task[t].at = "sending" /\ task[t].kind \in {"call", "batch"}
      /\ pending' = IF task[t].kind = "call" THEN pending \ IdsOf(t) ELSE pending
      /\ UNCHANGED <<link, nextId, fut, requests, answers>> /\ fut \in [Id -> Future]
  BY DEF Inv, TypeInv, Work, SendFails
<1>2. LeftBehind(t)' \/ IdsOf(t) \cap pending' = {}
  <2>1. task'[t].out = "raised" /\ task'[t].kind = task[t].kind
    BY <1>1, EndsWork
  <2>2. QED
    BY <1>1, <2>1 DEF LeftBehind
<1>3. QED
  BY <1>1, <1>2, EndingInv

LEMMA TimeoutInv ==
  ASSUME Inv, NEW t \in Task, Timeout(t)
  PROVE  Inv'
<1>1. /\ Ends(t, "timeout") /\ task[t].at = "waiting"
      /\ pending' = pending \ IdsOf(t)
      /\ fut' = AllSettled(IdsOf(t), "cancelled")
      /\ UNCHANGED <<link, nextId, requests, answers>> /\ fut \in [Id -> Future]
  BY DEF Inv, TypeInv, Timeout, GivenUp
<1>2. fut' \in [Id -> Future]
  BY <1>1 DEF AllSettled, Future, Waiting
<1>3. \A i \in Id : \/ fut'[i] = fut[i]
                    \/ i \in IdsOf(t) /\ fut[i] = Waiting /\ fut'[i].state = "cancelled"
  BY <1>1 DEF AllSettled, Waiting
<1>4. QED
  BY <1>1, <1>2, <1>3, EndingInv

LEMMA CancelInv ==
  ASSUME Inv, NEW t \in Task, Cancel(t)
  PROVE  Inv'
<1> DEFINE a == Awaited(t)
           cancelled == [state |-> "cancelled", from |-> "nobody"]
<1>1. /\ Ends(t, "stopped") /\ task[t].at \in {"sending", "waiting"}
      /\ fut' = IF task[t].at = "waiting" THEN Settled(a, "cancelled") ELSE fut
      /\ UNCHANGED <<link, nextId, pending, requests, answers>> /\ fut \in [Id -> Future]
  BY DEF Inv, TypeInv, Cancel
<1>2. a \in IdsOf(t) /\ a \in Id
  BY <1>1, AwaitedIsOwn DEF Inv, IdsInv
<1> HIDE DEF a
<1>3. \/ fut' = fut
      \/ fut[a] = Waiting /\ fut' = [fut EXCEPT ![a] = cancelled]
  <2>1. CASE fut[a].state = "waiting"
    <3>1. fut[a] = Waiting
      BY <1>1, <1>2, <2>1 DEF Future, NoFuture
    <3>2. [fut[a] EXCEPT !.state = "cancelled"] = cancelled
      BY <3>1 DEF Waiting
    <3>3. Settled(a, "cancelled") = [fut EXCEPT ![a] = cancelled]
      BY <1>1, <1>2, <2>1, <3>2 DEF Settled
    <3>4. QED
      BY <1>1, <3>1, <3>3
  <2>2. CASE fut[a].state # "waiting"
    <3>1. [fut[a] EXCEPT !.state = fut[a].state] = fut[a]
      BY <1>1, <1>2 DEF Future, NoFuture, Waiting
    <3>2. Settled(a, "cancelled") = [fut EXCEPT ![a] = fut[a]]
      BY <1>1, <1>2, <2>2, <3>1 DEF Settled
    <3>3. QED
      BY <1>1, <1>2, <3>2
  <2>3. QED
    BY <2>1, <2>2
<1>4. cancelled \in Future /\ cancelled.state = "cancelled"
  BY DEF Future
<1> HIDE DEF cancelled
<1>5. /\ fut' \in [Id -> Future]
      /\ \A i \in Id : \/ fut'[i] = fut[i]
                       \/ i \in IdsOf(t) /\ fut[i] = Waiting /\ fut'[i].state = "cancelled"
  <2>1. CASE fut' = fut
    BY <1>1, <2>1
  <2>2. CASE fut[a] = Waiting /\ fut' = [fut EXCEPT ![a] = cancelled]
    BY <1>1, <1>2, <1>4, <2>2
  <2>3. QED
    BY <1>3, <2>1, <2>2
<1>6. LeftBehind(t)'
  BY <1>1, EndsWork DEF LeftBehind
<1>7. QED
  BY <1>1, <1>5, <1>6, EndingInv

\* Resume takes what the next future of a task holds.
LEMMA ResumeInv ==
  ASSUME Inv, NEW t \in Task, Resume(t)
  PROVE  Inv'
<1> DEFINE i == Awaited(t)
           got == IF fut[i].state = "ok" THEN Append(task[t].got, fut[i].from) ELSE task[t].got
           last == Len(task[t].got) + 1 = Len(task[t].ids)
           at == IF fut[i].state # "ok" \/ last THEN "done" ELSE task[t].at
           out == CASE fut[i].state = "ok" -> IF last THEN "ok" ELSE task[t].out
                    [] fut[i].state = "cancelled" -> "cancelled"
                    [] OTHER -> "raised"
<1>1. /\ task \in [Task -> Work] /\ fut \in [Id -> Future]
      /\ task[t].at = "waiting" /\ fut[i].state \notin {"none", "waiting"}
      /\ pending' = IF task[t].kind = "call" /\ fut[i].state \in {"error", "lost"}
                    THEN pending \ IdsOf(t) ELSE pending
      /\ UNCHANGED <<link, nextId, fut, requests, answers>>
  BY DEF Inv, TypeInv, Resume
<1>2. /\ CallInv(t) /\ IdsInv(t) /\ Len(task[t].got) < Len(task[t].ids) /\ task[t].out = "none"
      /\ task[t].got \in Seq(Task) /\ task[t].ids \in Seq(Id) /\ task[t].kind \in {"call", "batch"}
  BY <1>1 DEF Inv, IdsInv, Work
<1>3. i \in IdsOf(t) /\ i \in Id /\ Len(task[t].got) + 1 \in DOMAIN task[t].ids
  BY <1>2, AwaitedIsOwn
<1>4. i = task[t].ids[Len(task[t].got) + 1]
  BY DEF Awaited
<1>5. task' = [task EXCEPT ![t].got = got, ![t].at = at, ![t].out = out]
  BY <1>1 DEF Resume, Work
<1> HIDE DEF i
<1>6. fut[i].state \in {"ok", "error", "lost", "cancelled"}
  BY <1>1, <1>3 DEF Future, NoFuture, Waiting
<1>7. fut[i].state = "ok" => fut[i].from = t
  BY <1>2, <1>3 DEF IdsInv
<1>8. /\ got \in Seq(Task) /\ at \in {"waiting", "done"}
      /\ out \in {"none", "ok", "raised", "cancelled"}
  BY <1>1, <1>2, <1>6, <1>7
<1>9. /\ got = IF fut[i].state = "ok" THEN Append(task[t].got, t) ELSE task[t].got
      /\ at = IF fut[i].state # "ok" \/ last THEN "done" ELSE "waiting"
      /\ out = IF fut[i].state = "ok" THEN IF last THEN "ok" ELSE "none"
               ELSE IF fut[i].state = "cancelled" THEN "cancelled" ELSE "raised"
  BY <1>1, <1>2, <1>6, <1>7
<1> HIDE DEF got, at, out
<1>10. /\ task' \in [Task -> Work] /\ \A u \in Task : u # t => task'[u] = task[u]
       /\ task'[t].got = got /\ task'[t].at = at /\ task'[t].out = out
       /\ task'[t].ids = task[t].ids /\ task'[t].kind = task[t].kind
  BY <1>1, <1>5, <1>8 DEF Work
<1>11. /\ TypeInv' /\ FuturesInv' /\ Disjoint' /\ \A u \in Task : IdsOf(u)' = IdsOf(u)
       /\ Requested' = Requested /\ Answered' = Answered
  <2>1. \A u \in Task : task'[u].ids = task[u].ids
    BY <1>10
  <2>2. /\ link' \in {"up", "lost", "closing", "closed"} /\ fut' \in [Id -> Future]
        /\ link' = "closed" => pending' = {}
        /\ pending' \in SUBSET pending
        /\ \A j \in Id : fut'[j] = fut[j]
    BY <1>1 DEF Inv, TypeInv, FuturesInv
  <2>3. QED
    BY <1>1, <1>10, <2>1, <2>2, Frame
<1>12. ASSUME NEW u \in Task, u # t
       PROVE  CallInv(u)' /\ IdsInv(u)'
  <2>1. \A j \in IdsOf(u) : fut'[j] = fut[j] /\ (j \in pending' => j \in pending)
    BY <1>1
  <2>2. nextId' \in Nat /\ nextId' >= nextId /\ task'[u] = task[u] /\ (link = "closed" => link' = "closed")
    BY <1>1, <1>10, <1>12, CallsAssumption DEF Inv, TypeInv
  <2>3. QED
    BY <2>1, <2>2, Bystander
<1>13. Len(got) = (IF fut[i].state = "ok" THEN Len(task[t].got) + 1 ELSE Len(task[t].got))
  BY <1>2, <1>9
<1>14. \A k \in DOMAIN got : got[k] = t /\ fut[task[t].ids[k]].state = "ok"
  <2>1. CASE fut[i].state = "ok"
    <3>1. ASSUME NEW k \in DOMAIN got
          PROVE  got[k] = t /\ fut[task[t].ids[k]].state = "ok"
      <4>1. k \in DOMAIN task[t].got \/ k = Len(task[t].got) + 1
        BY <1>2, <1>9, <2>1
      <4>2. CASE k \in DOMAIN task[t].got
        BY <1>2, <1>9, <2>1, <4>2 DEF CallInv
      <4>3. CASE k = Len(task[t].got) + 1
        BY <1>2, <1>4, <1>9, <2>1, <4>3
      <4>4. QED
        BY <4>1, <4>2, <4>3
    <3>2. QED
      BY <3>1
  <2>2. CASE fut[i].state # "ok"
    BY <1>2, <1>9, <2>2 DEF CallInv
  <2>3. QED
    BY <2>1, <2>2
<1>15. fut[i].state = "cancelled" => link = "closed"
  BY <1>1, <1>2, <1>3 DEF IdsInv
<1>16. CallInv(t)'
  <2>1. /\ Len(got) <= Len(task[t].ids) /\ at # "idle"
        /\ out = "ok" => Len(got) = Len(task[t].ids)
        /\ out = "cancelled" => link' = "closed"
    BY <1>1, <1>2, <1>9, <1>13, <1>15
  <2>2. task[t].kind = "call" => Len(task[t].ids) <= 1
    BY <1>2 DEF CallInv
  <2>3. QED
    BY <1>1, <1>10, <1>14, <2>1, <2>2 DEF CallInv
<1>17. IdsInv(t)'
  <2>1. at = "waiting" => Len(got) < Len(task[t].ids) /\ out = "none"
    BY <1>2, <1>9, <1>13
  <2>2. at = "done" => LeftBehind(t)' \/ IdsOf(t) \cap pending' = {}
    <3>1. CASE fut[i].state = "ok" /\ last
      <4>1. ASSUME NEW k \in DOMAIN task[t].ids
            PROVE  task[t].ids[k] \notin pending
        <5>1. k \in DOMAIN got /\ task[t].ids[k] \in Id
          BY <1>2, <1>13, <3>1, <1>8
        <5>2. QED
          BY <1>14, <5>1 DEF Inv, FuturesInv
      <4>2. QED
        BY <1>1, <3>1, <4>1 DEF IdsOf
    <3>2. CASE fut[i].state = "ok" /\ ~last
      BY <1>9, <3>2
    <3>3. CASE fut[i].state \in {"error", "lost"}
      <4>1. out = "raised"
        BY <1>9, <3>3
      <4>2. CASE task[t].kind = "call"
        BY <1>1, <3>3, <4>2
      <4>3. CASE task[t].kind = "batch"
        BY <1>10, <4>1, <4>3 DEF LeftBehind
      <4>4. QED
        BY <1>2, <4>2, <4>3
    <3>4. CASE fut[i].state = "cancelled"
      BY <1>1, <1>15, <3>4 DEF Inv, FuturesInv
    <3>5. QED
      BY <1>6, <3>1, <3>2, <3>3, <3>4
  <2>3. QED
    BY <1>1, <1>2, <1>8, <1>10, <1>11, <2>1, <2>2 DEF IdsInv
<1>18. QED
  BY <1>1, <1>11, <1>12, <1>16, <1>17 DEF Inv, MessagesInv

LEMMA CallAgainInv ==
  ASSUME Inv, NEW t \in Task, CallAgain(t)
  PROVE  Inv'
<1>1. /\ task \in [Task -> Work] /\ task' = [task EXCEPT ![t] = Idle]
      /\ UNCHANGED <<link, nextId, pending, fut, requests, answers>> /\ nextId \in Nat
  BY CallsAssumption DEF Inv, TypeInv, CallAgain
<1>2. Idle \in Work
  BY DEF Idle, Work
<1>3. /\ task' \in [Task -> Work] /\ task'[t] = Idle /\ \A u \in Task : u # t => task'[u] = task[u]
  BY <1>1, <1>2
<1>4. IdsOf(t)' = {} /\ \A u \in Task : u # t => IdsOf(u)' = IdsOf(u)
  BY <1>3 DEF IdsOf, Idle
<1>5. TypeInv' /\ FuturesInv'
  BY <1>1, <1>3 DEF Inv, TypeInv, FuturesInv
<1>6. Disjoint'
  <2>1. \A u, v \in Task : u # v => IdsOf(u)' \cap IdsOf(v)' = {}
    BY <1>4 DEF Inv, Disjoint
  <2>2. QED
    BY <2>1 DEF Disjoint
<1>7. MessagesInv'
  <2>1. \A u \in Task : \A i \in IdsOf(u)' : i \in IdsOf(u) \/ ~(i < nextId)
    BY <1>4
  <2>2. /\ Seq(Seq(Requested)) \subseteq Seq(Seq(Requested'))
        /\ Seq(Seq(Answered)) \subseteq Seq(Seq(Answered'))
    BY <1>1, <2>1, MessagesKept
  <2>3. QED
    BY <1>1, <2>2 DEF Inv, MessagesInv
<1>8. ASSUME NEW u \in Task, u # t
      PROVE  CallInv(u)' /\ IdsInv(u)'
  <2>1. \A j \in IdsOf(u) : fut'[j] = fut[j] /\ (j \in pending' => j \in pending)
    BY <1>1
  <2>2. nextId' \in Nat /\ nextId' >= nextId /\ task'[u] = task[u] /\ (link = "closed" => link' = "closed")
    BY <1>1, <1>3, <1>8
  <2>3. QED
    BY <2>1, <2>2, Bystander
<1>9. CallInv(t)' /\ IdsInv(t)'
  BY <1>3, <1>4 DEF CallInv, IdsInv, Idle
<1>10. QED
  BY <1>5, <1>6, <1>7, <1>8, <1>9 DEF Inv

\* The steps of the server, the receive loop and close: no task moves.
LEMMA NoTaskMoves ==
  ASSUME Inv, task' = task, nextId' = nextId,
         link' \in {"up", "lost", "closing", "closed"}, link' = "closed" => pending' = {},
         link = "closed" => link' = "closed",
         pending' \in SUBSET pending, fut' \in [Id -> Future],
         \A i \in Id : \/ fut'[i] = fut[i]
                       \/ /\ fut[i] = Waiting
                          /\ fut'[i].state \in {"ok", "error", "lost"} => i \notin pending'
                          /\ fut'[i].state = "cancelled" => link' = "closed",
         \A t \in Task : \A i \in IdsOf(t) : 
             fut[i] = Waiting /\ fut'[i].state = "ok" => fut'[i].from = t,
         requests' \in Seq(Seq(Requested)), answers' \in Seq(Seq(Answered))
  PROVE  Inv'
<1>1. /\ TypeInv' /\ FuturesInv' /\ Disjoint' /\ \A u \in Task : IdsOf(u)' = IdsOf(u)
      /\ Requested' = Requested /\ Answered' = Answered
  <2>1. task' \in [Task -> Work] /\ \A t \in Task : task'[t].ids = task[t].ids
    BY DEF Inv, TypeInv
  <2>2. \A i \in Id : \/ fut'[i] = fut[i]
                      \/ /\ fut[i] = Waiting
                         /\ fut'[i].state \in {"ok", "error", "lost"} => i \notin pending'
    OBVIOUS
  <2>3. QED
    BY <2>1, <2>2, Frame
<1>2. ASSUME NEW t \in Task
      PROVE  CallInv(t)' /\ IdsInv(t)'
  <2>1. \A i \in IdsOf(t) :
            \/ fut'[i] = fut[i]
            \/ /\ fut[i] = Waiting
               /\ fut'[i].state = "ok" => fut'[i].from = t
               /\ fut'[i].state = "cancelled" => link' = "closed"
    BY Fresh
  <2>2. /\ nextId' \in Nat /\ nextId' >= nextId /\ task'[t] = task[t]
        /\ \A i \in IdsOf(t) : i \in pending' => i \in pending
    BY CallsAssumption DEF Inv, TypeInv
  <2>3. QED
    BY <2>1, <2>2, Bystander
<1>3. MessagesInv'
  BY <1>1 DEF MessagesInv
<1>4. QED
  BY <1>1, <1>2, <1>3 DEF Inv

LEMMA ServeInv ==
  ASSUME Inv, NEW k \in DOMAIN requests, NEW failed, Serve(k, failed)
  PROVE  Inv'
<1> DEFINE asked == requests[k]
           most == IF Len(asked) > ServerMax THEN ServerMax ELSE Len(asked)
           taken == SubSeq(asked, 1, most)
           answer == [j \in DOMAIN taken |->
                        [id |-> taken[j].id, from |-> taken[j].from, err |-> j \in failed]]
<1>1. /\ requests \in Seq(Seq(Requested)) /\ answers \in Seq(Seq(Answered))
      /\ answers' = Append(answers, answer)
      /\ requests' = SubSeq(requests, 1, k - 1) \o SubSeq(requests, k + 1, Len(requests))
      /\ UNCHANGED <<link, nextId, pending, fut, task>>
  BY DEF Inv, MessagesInv, Serve
<1>2. asked \in Seq(Requested) /\ most \in Nat /\ most <= Len(asked)
  <2>1. asked \in Seq(Requested)
    BY <1>1
  <2> HIDE DEF asked
  <2>2. QED
    BY <2>1, CallsAssumption
<1>3. DOMAIN taken = 1..most /\ \A j \in 1..most : taken[j] \in Requested
  BY <1>2
<1>4. answer \in Seq(Answered)
  <2>1. ASSUME NEW j \in 1..most
        PROVE  [id |-> taken[j].id, from |-> taken[j].from, err |-> j \in failed] \in Answered
    <3> HIDE DEF taken
    <3>1. taken[j] \in Requested
      BY <1>3
    <3>2. QED
      BY <3>1 DEF Requested, Answered
  <2> HIDE DEF taken
  <2>2. QED
    BY <1>2, <1>3, <2>1
<1> HIDE DEF answer, asked
<1>5. answers' \in Seq(Seq(Answered))
  BY <1>1, <1>4
<1>6. requests' \in Seq(Seq(Requested))
  <2>1. /\ SubSeq(requests, 1, k - 1) \in Seq(Seq(Requested))
        /\ SubSeq(requests, k + 1, Len(requests)) \in Seq(Seq(Requested))
    <3>1. /\ Len(requests) \in Nat /\ k \in 1 .. Len(requests)
          /\ \A j \in 1 .. Len(requests) : requests[j] \in Seq(Requested)
      <4>1. requests \in Seq(Seq(Requested))
        BY <1>1
      <4>2. Len(requests) \in Nat /\ DOMAIN requests = 1 .. Len(requests)
        BY <4>1, LenProperties
      <4>3. \A j \in 1 .. Len(requests) : requests[j] \in Seq(Requested)
        BY <4>1, ElementOfSeq
      <4>4. QED
        BY <4>2, <4>3
    <3>2. /\ k - 1 \in Int /\ k + 1 \in Int /\ Len(requests) \in Int
          /\ \A j \in 1 .. k - 1 : requests[j] \in Seq(Requested)
          /\ \A j \in k + 1 .. Len(requests) : requests[j] \in Seq(Requested)
      BY <3>1
    <3>3. QED
      BY <3>2, SubSeqProperties
  <2>2. QED
    BY <1>1, <2>1
<1>7. /\ link \in {"up", "lost", "closing", "closed"} /\ fut \in [Id -> Future]
      /\ link = "closed" => pending = {}
  BY DEF Inv, TypeInv, FuturesInv
<1>8. \A t \in Task : \A i \in IdsOf(t) :
             fut[i] = Waiting /\ fut'[i].state = "ok" => fut'[i].from = t
  BY <1>1 DEF Waiting
<1>9. QED
  BY <1>1, <1>5, <1>6, <1>7, <1>8, NoTaskMoves

\* _resolve_grid_response hands an answer to the future of its id.
LEMMA DeliverInv ==
  ASSUME Inv, Deliver
  PROVE  Inv'
<1> DEFINE here == {a \in {Head(answers)[j] : j \in DOMAIN Head(answers)} : a.id \in pending}
           given == {a.id : a \in here}
           first(i) == CHOOSE b \in here : b.id = i
<1>1. /\ answers \in Seq(Seq(Answered)) /\ answers # <<>> /\ requests \in Seq(Seq(Requested))
      /\ link = "up" /\ fut \in [Id -> Future]
      /\ answers' = Tail(answers) /\ pending' = pending \ given
      /\ fut' = [i \in Id |->
                    IF fut[i] = Waiting /\ \E a \in here : a.id = i
                    THEN [state |-> IF first(i).err THEN "error" ELSE "ok", from |-> first(i).from]
                    ELSE fut[i]]
      /\ UNCHANGED <<link, nextId, task, requests>>
  BY DEF Inv, TypeInv, MessagesInv, Deliver
<1>2. Head(answers) \in Seq(Answered) /\ answers' \in Seq(Seq(Answered))
  BY <1>1, HeadTailProperties
<1>3. here \subseteq Answered
  BY <1>2
<1> HIDE DEF here
<1>4. ASSUME NEW i \in Id, NEW a \in here, a.id = i
      PROVE  first(i) \in Answered /\ first(i).id = i /\ i \in given
  BY <1>3, <1>4
<1> HIDE DEF given, first
<1>5. ASSUME NEW i \in Id
      PROVE  \/ fut'[i] = fut[i]
             \/ /\ fut[i] = Waiting /\ i \in given
                /\ first(i) \in Answered /\ first(i).id = i
                /\ fut'[i] = [state |-> IF first(i).err THEN "error" ELSE "ok", from |-> first(i).from]
  BY <1>1, <1>4
<1>6. fut' \in [Id -> Future]
  <2>1. ASSUME NEW i \in Id
        PROVE  fut'[i] \in Future
    BY <1>1, <1>5 DEF Future, Answered
  <2>2. QED
    BY <1>1, <2>1
<1>7. ASSUME NEW t \in Task, NEW i \in IdsOf(t), fut[i] = Waiting, fut'[i].state = "ok"
      PROVE  fut'[i].from = t
  <2>1. i \in Id
    BY Fresh
  <2>2. /\ first(i) \in Answered /\ first(i).id = i /\ fut'[i].from = first(i).from
    <3>1. fut'[i] # fut[i]
      BY <1>7 DEF Waiting
    <3>2. /\ first(i) \in Answered /\ first(i).id = i
          /\ fut'[i] = [state |-> IF first(i).err THEN "error" ELSE "ok", from |-> first(i).from]
      BY <1>5, <2>1, <3>1
    <3>3. QED
      BY <3>2
  <2>3. Owns(i, first(i).from)
    BY <2>2 DEF Answered
  <2>4. QED
    BY <2>2, <2>3 DEF Owns
<1>8. \A i \in Id : \/ fut'[i] = fut[i]
                    \/ /\ fut[i] = Waiting
                       /\ fut'[i].state \in {"ok", "error", "lost"} => i \notin pending'
                       /\ fut'[i].state = "cancelled" => link' = "closed"
  BY <1>1, <1>5
<1>9. /\ link' \in {"up", "lost", "closing", "closed"} /\ link' # "closed" /\ link # "closed"
      /\ pending' \in SUBSET pending
  BY <1>1
<1>10. QED
  BY <1>1, <1>2, <1>6, <1>7, <1>8, <1>9, NoTaskMoves

\* The futures of a lost or a closed connection.
LEMMA AllSettledFuture ==
  ASSUME Inv, NEW state \in {"lost", "cancelled"}
  PROVE  /\ AllSettled(pending, state) \in [Id -> Future]
         /\ \A i \in Id : \/ AllSettled(pending, state)[i] = fut[i]
                          \/ /\ fut[i] = Waiting
                             /\ AllSettled(pending, state)[i].state = state
BY DEF Inv, TypeInv, AllSettled, Waiting, Future

LEMMA ReceiverEndsInv ==
  ASSUME Inv, NEW stays \in BOOLEAN, ReceiverEnds(stays)
  PROVE  Inv'
<1>1. /\ link = "up" /\ link' \in {"up", "lost"} /\ fut' = AllSettled(pending, "lost") /\ pending' = {}
      /\ answers' = <<>> /\ requests' \in {requests, <<>>} /\ UNCHANGED <<nextId, task>>
  BY DEF ReceiverEnds, Failed
<1>2. /\ fut' \in [Id -> Future]
      /\ \A i \in Id : fut'[i] = fut[i] \/ (fut[i] = Waiting /\ fut'[i].state = "lost")
  BY <1>1, AllSettledFuture
<1>3. requests' \in Seq(Seq(Requested)) /\ answers' \in Seq(Seq(Answered))
  <2>1. requests \in Seq(Seq(Requested)) /\ <<>> \in Seq(Seq(Requested)) /\ <<>> \in Seq(Seq(Answered))
    BY EmptySeq DEF Inv, MessagesInv
  <2>2. QED
    BY <1>1, <2>1
<1>4. /\ \A i \in Id : \/ fut'[i] = fut[i]
                       \/ /\ fut[i] = Waiting
                          /\ fut'[i].state \in {"ok", "error", "lost"} => i \notin pending'
                          /\ fut'[i].state = "cancelled" => link' = "closed"
      /\ \A t \in Task : \A i \in IdsOf(t) :
             fut[i] = Waiting /\ fut'[i].state = "ok" => fut'[i].from = t
  BY <1>1, <1>2, Fresh DEF Waiting
<1>5. QED
  BY <1>1, <1>2, <1>3, <1>4, NoTaskMoves

LEMMA CloseInv ==
  ASSUME Inv, Close
  PROVE  Inv'
<1>1. /\ link' = "closing" /\ link \in {"up", "lost"} /\ requests' = <<>> /\ answers' = <<>>
      /\ UNCHANGED <<nextId, pending, fut, task>> /\ fut \in [Id -> Future]
  BY DEF Close, Inv, TypeInv
<1>2. requests' \in Seq(Seq(Requested)) /\ answers' \in Seq(Seq(Answered))
  BY <1>1
<1>3. \A t \in Task : \A i \in IdsOf(t) :
          fut[i] = Waiting /\ fut'[i].state = "ok" => fut'[i].from = t
  BY <1>1 DEF Waiting
<1>4. QED
  BY <1>1, <1>2, <1>3, NoTaskMoves

LEMMA CloseDoneInv ==
  ASSUME Inv, CloseDone
  PROVE  Inv'
<1>1. /\ link = "closing" /\ link' = "closed" /\ fut' = AllSettled(pending, "cancelled") /\ pending' = {}
      /\ UNCHANGED <<nextId, task, requests, answers>>
  BY DEF CloseDone
<1>2. /\ fut' \in [Id -> Future]
      /\ \A i \in Id : fut'[i] = fut[i] \/ (fut[i] = Waiting /\ fut'[i].state = "cancelled")
  BY <1>1, AllSettledFuture
<1>3. requests' \in Seq(Seq(Requested)) /\ answers' \in Seq(Seq(Answered))
  BY <1>1 DEF Inv, MessagesInv
<1>4. \A t \in Task : \A i \in IdsOf(t) :
          fut[i] = Waiting /\ fut'[i].state = "ok" => fut'[i].from = t
  BY <1>2, Fresh DEF Waiting
<1>5. QED
  BY <1>1, <1>2, <1>3, <1>4, NoTaskMoves

------------------------------------------------------------------------------
LEMMA NextInv == Inv /\ [Next]_vars => Inv'
<1> SUFFICES ASSUME Inv, [Next]_vars PROVE Inv'
  OBVIOUS
<1>1. CASE UNCHANGED vars
  <2>1. /\ UNCHANGED <<link, nextId, pending, fut, task, requests, answers>>
        /\ link \in {"up", "lost", "closing", "closed"}
        /\ link = "closed" => pending = {}
        /\ fut \in [Id -> Future]
        /\ requests \in Seq(Seq(Requested)) /\ answers \in Seq(Seq(Answered))
    BY <1>1 DEF vars, Inv, TypeInv, MessagesInv, FuturesInv
  <2>2. \A t \in Task : \A i \in IdsOf(t) :
            fut[i] = Waiting /\ fut'[i].state = "ok" => fut'[i].from = t
    BY <2>1 DEF Waiting
  <2>3. /\ task' = task /\ nextId' = nextId
        /\ link' \in {"up", "lost", "closing", "closed"} /\ (link' = "closed" => pending' = {})
        /\ (link = "closed" => link' = "closed")
        /\ pending' \in SUBSET pending /\ fut' \in [Id -> Future] /\ (\A i \in Id : fut'[i] = fut[i])
        /\ requests' \in Seq(Seq(Requested)) /\ answers' \in Seq(Seq(Answered))
    BY <2>1
  <2>4. QED
    BY <2>2, <2>3, NoTaskMoves
<1>2. ASSUME NEW t \in Task
      PROVE  /\ \A n \in 1..MaxSize, kind \in {"call", "batch"} : Start(t, kind, n) => Inv'
             /\ SendDone(t) \/ SendFails(t) \/ Resume(t) => Inv'
             /\ Timeout(t) \/ Cancel(t) \/ CallAgain(t) => Inv'
  BY StartInv, SendDoneInv, SendFailsInv, ResumeInv, TimeoutInv, CancelInv, CallAgainInv
<1>3. \A k \in DOMAIN requests : \A failed : Serve(k, failed) => Inv'
  BY ServeInv
<1>4. \A stays \in BOOLEAN : ReceiverEnds(stays) => Inv'
  BY ReceiverEndsInv
<1>5. Deliver \/ Close \/ CloseDone => Inv'
  BY DeliverInv, CloseInv, CloseDoneInv
<1>6. QED
  BY <1>1, <1>2, <1>3, <1>4, <1>5, NextCases

LEMMA InvHolds == Spec => []Inv
BY InitInv, NextInv, PTL DEF Spec

\* Every grid a caller gets answers its own request, and a call that succeeds has
\* all of its grids (_resolve_grid_response, batch).
THEOREM AnswersCorrect == Spec => []RightAnswer
<1>1. Inv => RightAnswer
  BY DEF Inv, CallInv, RightAnswer
<1>2. QED
  BY <1>1, InvHolds, PTL

\* Nothing is left in _pending for a task that is done, but for the calls that
\* were cancelled and the batches that failed (call, batch, the receive loop).
THEOREM OwnersCorrect == Spec => []EntryHasOwner
<1>1. Inv => EntryHasOwner
  <2> SUFFICES ASSUME Inv, NEW t \in Task, NEW i \in IdsOf(t) \cap pending,
                      ~(task[t].at # "done")
               PROVE  LeftBehind(t)
    BY DEF EntryHasOwner
  <2>1. task[t].at = "done" /\ IdsInv(t)
    BY DEF Inv
  <2>2. QED
    BY <2>1 DEF IdsInv
<1>2. QED
  BY <1>1, InvHolds, PTL

\* A future that is settled does not change again (Settled, AllSettled, the test
\* for done() before a result is set).
THEOREM SettledCorrect == Spec => SettledOnce
<1> DEFINE Stays == \A i \in Id : fut[i].state \notin {"none", "waiting"} => fut'[i] = fut[i]
<1>1. Inv /\ [Next]_vars => [Stays]_fut
  <2> SUFFICES ASSUME Inv, [Next]_vars, NEW i \in Id, fut[i].state \notin {"none", "waiting"}
               PROVE  fut'[i] = fut[i]
    OBVIOUS
  <2>1. fut \in [Id -> Future] /\ fut[i] # Waiting
    BY DEF Inv, TypeInv, Waiting
  <2>2. ASSUME NEW t \in Task, NEW n \in 1..MaxSize, NEW kind \in {"call", "batch"}, Start(t, kind, n)
        PROVE  fut'[i] = fut[i]
    <3>1. i < nextId
      BY CallsAssumption DEF Inv, TypeInv, FuturesInv, NoFuture, Id
    <3>2. i \notin nextId .. nextId + n - 1
      BY <3>1, CallsAssumption DEF Inv, TypeInv, Id
    <3>3. QED
      BY <2>2, <3>2 DEF Start
  <2>3. ASSUME NEW t \in Task, SendDone(t) \/ SendFails(t) \/ Resume(t) \/ CallAgain(t)
        PROVE  fut'[i] = fut[i]
    BY <2>3 DEF SendDone, SendFails, Resume, CallAgain
  <2>4. ASSUME NEW t \in Task, Timeout(t)
        PROVE  fut'[i] = fut[i]
    BY <2>1, <2>4 DEF Timeout, AllSettled
  <2>5. ASSUME NEW t \in Task, Cancel(t)
        PROVE  fut'[i] = fut[i]
    <3>1. [fut[i] EXCEPT !.state = fut[i].state] = fut[i]
      BY <2>1 DEF Future, NoFuture, Waiting
    <3>2. fut[i].state # "waiting"
      OBVIOUS
    <3>3. fut' = fut \/ fut' = Settled(Awaited(t), "cancelled")
      BY <2>5 DEF Cancel
    <3>4. Settled(Awaited(t), "cancelled")[i] = fut[i]
      BY <2>1, <3>1, <3>2 DEF Settled
    <3>5. QED
      BY <3>3, <3>4
  <2>6. ASSUME NEW k \in DOMAIN requests, NEW failed, Serve(k, failed)
        PROVE  fut'[i] = fut[i]
    BY <2>6 DEF Serve
  <2>7. ASSUME Deliver
        PROVE  fut'[i] = fut[i]
    BY <2>1, <2>7 DEF Deliver
  <2>8. ASSUME NEW stays \in BOOLEAN, ReceiverEnds(stays)
        PROVE  fut'[i] = fut[i]
    BY <2>1, <2>8 DEF ReceiverEnds, Failed, AllSettled
  <2>9. ASSUME Close \/ CloseDone \/ UNCHANGED vars
        PROVE  fut'[i] = fut[i]
    BY <2>1, <2>9 DEF Close, CloseDone, AllSettled, vars
  <2>10. QED
    BY <2>2, <2>3, <2>4, <2>5, <2>6, <2>7, <2>8, <2>9, NextCases
<1>2. QED
  BY <1>1, InvHolds, PTL DEF Spec, SettledOnce

\* The calls in the run of the connections are a behaviour of WsCalls, in the other
\* parts they stand still: what the run checks of calls follows.
THEOREM CallsOfConnections ==
  ConnectionsSpec => []RightAnswer /\ []EntryHasOwner /\ SettledOnce
<1>1. ConnectionsInit => Init
  BY DEF ConnectionsInit
<1>2. [ConnectionsNext]_<<part, vars, serverVars, chunkVars, httpVars>> => [Next]_vars
  BY DEF ConnectionsNext
<1>3. ConnectionsSpec => Spec
  BY <1>1, <1>2, PTL DEF ConnectionsSpec, Spec
<1>4. QED
  BY <1>3, AnswersCorrect, OwnersCorrect, SettledCorrect
=================================================================================
