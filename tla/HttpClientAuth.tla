---------------------------- MODULE HttpClientAuth ----------------------------
(* The requests of one HTTP Client: the login before the first of them, the   *)
(* token they share, the one retry after a 401, and the client closed and     *)
(* opened again.  Requests of several tasks meet at every await; the server   *)
(* forgets tokens, loses and refuses handshakes and gets new passwords        *)
(* meanwhile, and any answer may be lost.                                     *)
EXTENDS Integers

CONSTANTS Task,              \* tasks that use the client
          MaxTokens,         \* a bound: tokens issued in a behaviour
          MaxCalls           \* a bound: requests of a task

ClientAssumption == MaxTokens \in Nat /\ MaxCalls \in Nat

VARIABLES secured,           \* the server has an authenticator
          session,           \* _session: "open", "closed" for None
          password,          \* _password: "secret", "" once it is cleared
          token,             \* _auth_token: NoToken, Open or the number of a token
          request,           \* task -> its request
          valid,             \* the tokens the server takes
          handshakes,        \* the tasks whose login the server remembers
          accepts,           \* the passwords the server takes
          admits,            \* the server opens a handshake for the user who says HELLO
          issued,            \* number of tokens issued
          happened           \* what has been taken from the client so far: by the server, or
                             \* by its own close

vars == <<secured, session, password, token, request, valid, handshakes, accepts, admits, issued,
          happened>>

NoToken == -2
Open == -1                   \* "", from a server without logins

\* at: where the request is; using: the token in its header; sent: how often it
\* was sent; ran: how often the server ran it; with: the password of its login.
NoRequest == [at |-> "idle", using |-> NoToken, with |-> "", sent |-> 0, ran |-> 0,
              out |-> "none", calls |-> 0]

Init ==
    /\ secured \in BOOLEAN
    /\ session = "open" /\ password = "secret"
    /\ accepts = "secret" /\ admits = TRUE
    /\ token = NoToken
    /\ request = [t \in Task |-> NoRequest]
    /\ valid = {} /\ handshakes = {} /\ issued = 0
    /\ happened = {}

ClearedEarly(pw) == ""                 \* mutant: the password is cleared when a login begins
PasswordDuring(pw) == pw

Becomes(t, r) == request' = [request EXCEPT ![t] = r]
Ended(r, out) == [r EXCEPT !.at = "done", !.out = out]

\* _ensure_auth: with a token the request goes out at once, without one the task
\* logs in with the password there is.
Ensured(r, tok) ==
    IF tok = NoToken THEN [r EXCEPT !.at = "hello", !.with = password]
                    ELSE [r EXCEPT !.at = "sending", !.using = tok]

Begin(t) ==
    /\ session = "open"
    /\ request[t].at \in {"idle", "done"} /\ request[t].calls < MaxCalls
    /\ Becomes(t, Ensured([NoRequest EXCEPT !.calls = request[t].calls + 1], token))
    /\ password' = IF token = NoToken THEN PasswordDuring(password) ELSE password
    /\ UNCHANGED <<secured, session, token, valid, handshakes, accepts, admits, issued,
                   happened>>

\* The login is done: the token is shared, the password cleared, and the header
\* is made without another await.
LoggedIn(t, tok) ==
    /\ token' = tok /\ password' = ""
    /\ Becomes(t, [request[t] EXCEPT !.at = "sending", !.using = tok])

\* authenticate: HELLO.  A server without an authenticator answers 200.  One that
\* opens no handshake, for a user unknown or disabled or with its table full,
\* answers with a challenge that names none, which the client goes on with all the
\* same; any other status is an AuthError at once.
Hello(t) ==
    /\ request[t].at = "hello"
    /\ \/ /\ ~secured
          /\ LoggedIn(t, Open)
          /\ UNCHANGED handshakes
       \/ /\ secured
          /\ handshakes' = IF admits THEN handshakes \cup {t} ELSE handshakes \ {t}
          /\ Becomes(t, [request[t] EXCEPT !.at = "scram"])
          /\ UNCHANGED <<password, token>>
       \/ /\ ~admits
          /\ Becomes(t, Ended(request[t], "AuthError"))
          /\ UNCHANGED <<password, token, handshakes>>
    /\ UNCHANGED <<secured, session, valid, accepts, admits, issued, happened>>

\* _scram_auth: client-first and client-final; every other answer is an AuthError.
Scram(t) ==
    LET proved == t \in handshakes /\ request[t].with = accepts IN
    /\ request[t].at = "scram"
    /\ handshakes' = handshakes \ {t}
    /\ IF proved
       THEN /\ issued < MaxTokens
            /\ issued' = issued + 1 /\ valid' = valid \cup {issued}
            /\ LoggedIn(t, issued)
       ELSE Becomes(t, Ended(request[t], "AuthError")) /\ UNCHANGED <<password, token, valid, issued>>
    /\ UNCHANGED <<secured, session, accepts, admits, happened>>

RetriedAlsoWhenLost == {"401", "lost"} \* mutant: a lost answer is taken for a 401
Retried == {"401"}

\* The server runs the operation of a request it lets in.  A 401 is followed by
\* the end of the shared token, a login and one retry.
Send(t, lost) ==
    LET in == ~secured \/ request[t].using \in valid
        answer == IF lost THEN "lost" ELSE IF in THEN "ok" ELSE "401"
        r == [request[t] EXCEPT !.sent = @ + 1, !.ran = IF in THEN @ + 1 ELSE @]
        again == answer \in Retried /\ request[t].sent = 0 IN
    /\ request[t].at = "sending"
    /\ Becomes(t, CASE again -> Ensured(r, NoToken)
                    [] answer = "ok" -> Ended(r, "ok")
                    [] answer = "lost" /\ ~again -> Ended(r, "NetworkError")
                    [] answer = "401" /\ ~again -> Ended(r, "AuthError"))
    /\ token' = IF again THEN NoToken ELSE token
    /\ UNCHANGED <<secured, session, password, valid, handshakes, accepts, admits, issued,
                   happened>>

\* A connection fails in a login: a ClientError, unless it is the second login.
LoginLost(t) ==
    /\ request[t].at \in {"hello", "scram"}
    /\ Becomes(t, Ended(request[t], IF request[t].sent = 0 THEN "ClientError" ELSE "NetworkError"))
    /\ UNCHANGED <<secured, session, password, token, valid, handshakes, accepts, admits, issued,
                   happened>>

\* Client.close, whose own request has ended, whatever came of it.  The token goes;
\* a password that a login has cleared does not come back.  Requests of other tasks
\* fail with their session, or end by an answer that had come: each of their steps
\* is still possible, but no request begins.
Close(t) ==
    /\ session = "open" /\ request[t].at = "done"
    /\ session' = "closed" /\ token' = NoToken
    /\ happened' = IF password = "" THEN happened \cup {"closed"} ELSE happened
    /\ UNCHANGED <<secured, password, request, valid, handshakes, accepts, admits, issued>>

\* __aenter__ once more.
Reopen ==
    /\ session = "closed"
    /\ session' = "open"
    /\ UNCHANGED <<secured, password, token, request, valid, handshakes, accepts, admits, issued,
                   happened>>

\* A token expires or is thrown out; a handshake times out; the server restarts;
\* an administrator gives the user a new password, or disables it for a while, or
\* other clients fill the table of handshakes.
Expire(tok) ==
    /\ valid' = valid \ {tok}
    /\ happened' = happened \cup {"expiry"}
    /\ UNCHANGED <<secured, session, password, token, request, handshakes, accepts, admits, issued>>
Forget ==
    /\ handshakes # {}
    /\ handshakes' = {}
    /\ happened' = happened \cup {"lost handshake"}
    /\ UNCHANGED <<secured, session, password, token, request, valid, accepts, admits, issued>>
NewPassword ==
    /\ accepts = "secret"
    /\ accepts' = "new"
    /\ happened' = happened \cup {"new password"}
    /\ UNCHANGED <<secured, session, password, token, request, valid, handshakes, admits, issued>>

Refuse ==
    /\ admits
    /\ admits' = FALSE
    /\ happened' = happened \cup {"refusal"}
    /\ UNCHANGED <<secured, session, password, token, request, valid, handshakes, accepts, issued>>
Admit ==
    /\ ~admits
    /\ admits' = TRUE
    /\ UNCHANGED <<secured, session, password, token, request, valid, handshakes, accepts, issued,
                   happened>>

Next ==
    \/ \E t \in Task : Begin(t) \/ Hello(t) \/ Scram(t) \/ LoginLost(t) \/ Close(t)
    \/ Reopen \/ Refuse \/ Admit
    \/ \E t \in Task, lost \in BOOLEAN : Send(t, lost)
    \/ \E tok \in valid : Expire(tok)
    \/ Forget \/ NewPassword

Spec == Init /\ [][Next]_vars

------------------------------------------------------------------------------
\* However often it is sent, the server runs a request once: a write is not
\* doubled by the retry, nor by an answer that was lost.
RunOnce == \A t \in Task : request[t].ran <= 1

\* Tasks that log in at the same time do not make each other fail, nor does a login
\* a later one: an AuthError needs a token, a handshake or a password that the
\* server no longer takes, a server that opened no handshake, or a client closed
\* after a login.
AuthErrorHasCause == \A t \in Task : request[t].out = "AuthError" => happened # {}

\* docs/guide/client-guide.rst:114: "If the server returns a 401 during normal
\* operation, the client re-authenticates and retries the request once."
ExpiryIsSurvived == \A t \in Task : request[t].out = "AuthError" => happened # {"expiry"}
==============================================================================
