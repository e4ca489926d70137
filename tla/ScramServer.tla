----------------------------- MODULE ScramServer -----------------------------
(***************************************************************************)
(* The SCRAM handshake table and the bearer tokens of an HTTP server:      *)
(* src/hs_py/_scram_core.py behind ScramAuthMiddleware, with the           *)
(* credentials of StorageAuthenticator.                                    *)
(*                                                                         *)
(* Only the HELLO waits, for the user store; the other requests run to     *)
(* their end in one step. A random token or nonce is the number of its     *)
(* draw, so no two are equal and their order is the order of insertion.    *)
(* Requests may be lost, repeated or late: any request about a token ever  *)
(* handed out may arrive at any time. A proof is told apart by the nonce   *)
(* and the password it was computed from.                                  *)
(***************************************************************************)
EXTENDS Integers, FiniteSets

CONSTANTS
  User, Password, None,
  Call,              \* HELLO requests that can wait at the same time
  HandshakeTimeout,  \* HANDSHAKE_TIMEOUT
  TokenLifetime,     \* TOKEN_LIFETIME
  MaxHandshakes,     \* MAX_HANDSHAKES
  MaxTokens          \* MAX_TOKENS

Credentials == [password : Password, enabled : BOOLEAN]
HelloCall == [user : User, password : Password]

ASSUME LimitsAssumption ==
  /\ HandshakeTimeout \in Nat /\ TokenLifetime \in Nat
  /\ MaxHandshakes \in Nat \ {0} /\ MaxTokens \in Nat \ {0}
ASSUME NoneAssumption == None \notin Credentials /\ None \notin HelloCall

VARIABLES
  now,         \* time.monotonic()
  users,       \* the user store
  hellos,      \* HELLO calls that have read the credentials
  handshakes,  \* _handshakes, with the key of each entry in it, and for the
               \* properties the draw (hello) and the time (begun) of its HELLO
  tokens,      \* _tokens, likewise
  fresh,       \* number of random strings drawn
  issued       \* every token ever issued, and the handshake it came from

vars == <<now, users, hellos, handshakes, tokens, fresh, issued>>

Handshake == [token : Nat, hello : Nat, user : User, password : Password,
              step : {1, 2}, nonce : Nat, created : Nat, begun : Nat]
TokenEntry == [token : Nat, user : User, created : Nat]
Issue == [token : Nat, hello : Nat, user : User, created : Nat, begun : Nat]

TypeOK ==
  /\ now \in Nat
  /\ users \in [User -> {None} \union Credentials]
  /\ hellos \in [Call -> {None} \union HelloCall]
  /\ handshakes \in SUBSET Handshake
  /\ tokens \in SUBSET TokenEntry
  /\ fresh \in Nat
  /\ issued \in SUBSET Issue

Init ==
  /\ now = 0
  /\ users \in [User -> {None} \union Credentials]
  /\ hellos = [c \in Call |-> None]
  /\ handshakes = {} /\ tokens = {} /\ issued = {}
  /\ fresh = 0

Tick ==
  /\ now' = now + 1
  /\ UNCHANGED <<users, hellos, handshakes, tokens, fresh, issued>>

\* create_user, update_user (password, enabled) and delete_user of the store.
ChangeUser(u, r) ==
  /\ users' = [users EXCEPT ![u] = r]
  /\ UNCHANGED <<now, hellos, handshakes, tokens, fresh, issued>>

-----------------------------------------------------------------------------
(* HELLO                                                                   *)

HandshakeAlive(h) == now - h.created <= HandshakeTimeout
TokenAlive(t) == now - t.created <= TokenLifetime

\* StorageAuthenticator.scram_credentials: None for a missing or disabled user.
HelloReads(c, u) ==
  /\ hellos[c] = None
  /\ users[u] # None /\ users[u].enabled
  /\ hellos' = [hellos EXCEPT ![c] = [user |-> u, password |-> users[u].password]]
  /\ UNCHANGED <<now, users, handshakes, tokens, fresh, issued>>

\* purge_expired_handshakes
PurgedEarly == {h \in handshakes : now - h.created < HandshakeTimeout}          \* mutant
PurgedHandshakes == {h \in handshakes : HandshakeAlive(h)}

\* The rest of scram_hello, after the credentials came back.
RoomAllowsOneMore == Cardinality(PurgedHandshakes) <= MaxHandshakes             \* mutant
RoomForHandshake == Cardinality(PurgedHandshakes) < MaxHandshakes

NewHandshake(c) ==
  [token |-> fresh + 1, hello |-> fresh + 1, user |-> hellos[c].user,
   password |-> hellos[c].password, step |-> 1, nonce |-> 0, created |-> now, begun |-> now]

HelloAdmitted(c) ==
  /\ hellos[c] # None
  /\ RoomForHandshake
  /\ handshakes' = PurgedHandshakes \union {NewHandshake(c)}
  /\ fresh' = fresh + 1
  /\ hellos' = [hellos EXCEPT ![c] = None]
  /\ UNCHANGED <<now, users, tokens, issued>>

HelloRefused(c) ==
  /\ hellos[c] # None
  /\ ~ RoomForHandshake
  /\ handshakes' = PurgedHandshakes
  /\ hellos' = [hellos EXCEPT ![c] = None]
  /\ UNCHANGED <<now, users, tokens, fresh, issued>>

-----------------------------------------------------------------------------
(* SCRAM: handle_scram for the handshake h the request names. A request    *)
(* that names no handshake of the table changes nothing.                   *)

Drop(h) ==
  /\ handshakes' = handshakes \ {h}
  /\ UNCHANGED <<now, users, hellos, tokens, fresh, issued>>

\* An expired handshake, data that cannot be decoded, or in step 2 a message
\* without a proof, with another nonce or binding, or with the wrong proof.
ScramExpired(h) == ~ HandshakeAlive(h) /\ Drop(h)
ScramGarbled(h) == HandshakeAlive(h) /\ Drop(h)

\* scram_step1: any message with a nonce is taken as client-first. The key is
\* rotated; the time of the HELLO stays. Without a nonce nothing changes.
StepRestartsClock(h, t) == [h EXCEPT !.token = t, !.nonce = t, !.step = 2, !.created = now]  \* mutant
Advanced(h, t) == [h EXCEPT !.token = t, !.nonce = t, !.step = 2]

ClientFirst(h) ==
  /\ HandshakeAlive(h) /\ h.step = 1
  /\ handshakes' = (handshakes \ {h}) \union {Advanced(h, fresh + 1)}
  /\ fresh' = fresh + 1
  /\ UNCHANGED <<now, users, hellos, tokens, issued>>

\* scram_step2: room is made among the tokens that are still alive.
AliveTokens == {t \in tokens : TokenAlive(t)}

Newest(ts) == CHOOSE t \in ts : \A v \in ts : v.token <= t.token                \* mutant
Oldest(ts) ==
  CHOOSE t \in ts : \A v \in ts :
    t.created < v.created \/ (t.created = v.created /\ t.token <= v.token)

EvictsNewest ==                                                                 \* mutant
  IF Cardinality(AliveTokens) >= MaxTokens
  THEN AliveTokens \ {Newest(AliveTokens)} ELSE AliveTokens
KeptTokens ==
  IF Cardinality(AliveTokens) >= MaxTokens
  THEN AliveTokens \ {Oldest(AliveTokens)} ELSE AliveTokens

HandshakeKept(h) == handshakes                                                  \* mutant
HandshakeTaken(h) == handshakes \ {h}

ClientFinal(h, nonce, password) ==
  /\ HandshakeAlive(h) /\ h.step = 2
  /\ nonce = h.nonce /\ password = h.password
  /\ handshakes' = HandshakeTaken(h)
  /\ tokens' = KeptTokens \union {[token |-> fresh + 1, user |-> h.user, created |-> now]}
  /\ issued' = issued \union {[token |-> fresh + 1, hello |-> h.hello, user |-> h.user,
                               created |-> now, begun |-> h.begun]}
  /\ fresh' = fresh + 1
  /\ UNCHANGED <<now, users, hellos>>

WrongFinal(h, nonce, password) ==
  /\ HandshakeAlive(h) /\ h.step = 2
  /\ nonce # h.nonce \/ password # h.password
  /\ Drop(h)

\* validate_bearer: an expired token is dropped, and the request refused.
BearerExpired(t) ==
  /\ ~ TokenAlive(t)
  /\ tokens' = tokens \ {t}
  /\ UNCHANGED <<now, users, hellos, handshakes, fresh, issued>>

Next ==
  \/ Tick
  \/ \E u \in User, r \in {None} \union Credentials : ChangeUser(u, r)
  \/ \E c \in Call, u \in User : HelloReads(c, u)
  \/ \E c \in Call : HelloAdmitted(c) \/ HelloRefused(c)
  \/ \E h \in handshakes : ScramExpired(h) \/ ScramGarbled(h) \/ ClientFirst(h)
  \/ \E h \in handshakes, nonce \in 0 .. fresh, password \in Password :
       ClientFinal(h, nonce, password) \/ WrongFinal(h, nonce, password)
  \/ \E t \in tokens : BearerExpired(t)

Spec == Init /\ [][Next]_vars

-----------------------------------------------------------------------------
(* Properties                                                              *)

\* The tables never outgrow their limits, although HELLO calls that wait for
\* the user store at the same time all saw room (scram_hello, scram_step2).
TablesBounded ==
  /\ Cardinality(handshakes) <= MaxHandshakes
  /\ Cardinality(tokens) <= MaxTokens

\* A handshake yields one token at most, whatever is repeated, and within the
\* timeout counted from its HELLO (handle_scram, scram_step1, scram_step2).
OneTokenPerHandshake ==
  \A i, j \in issued : i.hello = j.hello => i = j

TokenInTime == \A i \in issued : i.created - i.begun <= HandshakeTimeout

\* A token is gone before its lifetime ends only when MaxTokens others were
\* issued after it ("evict oldest" of scram_step2, and validate_bearer).
LostToNewerTokens ==
  \A i \in issued :
    \/ ~ TokenAlive(i)
    \/ \E t \in tokens : t.token = i.token
    \/ Cardinality({j \in issued : j.token > i.token}) >= MaxTokens

\* A HELLO with good credentials is refused only while as many handshakes as
\* the table holds are younger than the timeout (scram_hello).
RefusedOnlyWhenBusy ==
  [][\A c \in Call :
       hellos[c] # None /\ hellos'[c] = None /\ fresh' = fresh
         => Cardinality({h \in handshakes : HandshakeAlive(h)}) >= MaxHandshakes]_vars

\* A HELLO never drops a handshake that handle_scram would still serve: the
\* boundary of the purge is the boundary of the check (scram_hello, handle_scram).
HelloSparesOthers ==
  [][hellos' # hellos => \A h \in handshakes : HandshakeAlive(h) => h \in handshakes']_vars

=============================================================================
