------------------------------- MODULE UserStore -------------------------------
(* The users of a server: the user routes of the FastAPI application, the     *)
(* three stores they write to, and ensure_superuser when a server starts.     *)
(* A route asks the store who its caller is and then acts in later steps, of  *)
(* which the Redis and TimescaleDB stores need two.                           *)
EXTENDS FiniteSets, Naturals

CONSTANTS Name,              \* usernames
          Superuser,         \* HS_SUPERUSER_USERNAME
          Task,              \* requests under way at the same time
          Server,            \* servers that start on the store
          MaxRequests        \* a bound: requests in a behaviour

ASSUME UsersAssumption == Superuser \in Name /\ MaxRequests \in Nat

VARIABLES store,             \* the adapter: "memory", "redis" or "timescale"
          environment,       \* the two environment variables are set
          users,             \* name -> user, or NoUser
          request,           \* task -> its request
          requests,          \* number of requests so far
          start              \* server -> how far its start is

vars == <<store, environment, users, request, requests, start>>

NoUser == [role |-> "none", enabled |-> FALSE]
User == [role : {"admin", "viewer"}, enabled : BOOLEAN]
Field == {"role", "enabled"}

IsAdmin(u) == u.role = "admin" /\ u.enabled
Admins == {n \in Name : IsAdmin(users[n])}

Idle == [at |-> "idle", op |-> "none", caller |-> Superuser, target |-> Superuser,
         fields |-> {}, to |-> NoUser, read |-> NoUser]
Down == [at |-> "down", left |-> {}, found |-> FALSE, disturbed |-> FALSE]

Init ==
    /\ store \in {"memory", "redis", "timescale"}
    /\ environment \in BOOLEAN
    /\ users \in [Name -> User \cup {NoUser}]
    /\ request = [t \in Task |-> Idle]
    /\ requests = 0
    /\ start = [s \in Server |-> Down]

\* An administrator who goes away disturbs every server that is starting.
Written(n, u) ==
    /\ users' = [users EXCEPT ![n] = u]
    /\ start' = [s \in Server |-> IF IsAdmin(users[n]) /\ ~IsAdmin(u) /\ start[s].at # "down"
                                  THEN [start[s] EXCEPT !.disturbed = TRUE] ELSE start[s]]

NotWritten == UNCHANGED <<users, start>>
Step(t, at) == request' = [request EXCEPT ![t].at = at]
Done(t) == request' = [request EXCEPT ![t] = Idle]

------------------------------------------------------------------------------
(* The user routes.                                                           *)

AnyTarget(op, caller, target) == TRUE  \* mutant: an administrator may delete himself
MayTarget(op, caller, target) == op = "delete" => target # caller

\* _require_admin, and the body of the request; an update without fields stands
\* for one of the other fields, like the names or the password.
Ask(t, op, caller, target, fields, to) ==
    /\ request[t].at = "idle" /\ requests < MaxRequests
    /\ \E s \in Server : start[s].at = "up"
    /\ IsAdmin(users[caller]) /\ MayTarget(op, caller, target)
    /\ request' = [request EXCEPT ![t] = [at |-> "checked", op |-> op, caller |-> caller,
                                          target |-> target, fields |-> fields, to |-> to,
                                          read |-> NoUser]]
    /\ requests' = requests + 1
    /\ NotWritten /\ UNCHANGED <<store, environment>>

Merged(old, fields, to) == [f \in Field |-> IF f \in fields THEN to[f] ELSE old[f]]
\* The bodies of an update: it names some of the fields.
Updates == {[fields |-> fields, to |-> Merged(NoUser, fields, u)] :
               fields \in SUBSET Field, u \in User}

\* create_user: Redis looks first and sets later; the others do both at once.
Create(t) ==
    LET r == request[t] IN
    /\ r.at = "checked" /\ r.op = "create"
    /\ IF users[r.target] # NoUser THEN Done(t) /\ NotWritten
       ELSE IF store = "redis" THEN Step(t, "setting") /\ NotWritten
       ELSE Done(t) /\ Written(r.target, r.to)
    /\ UNCHANGED <<store, environment, requests>>

\* update_user: only the memory store merges and writes in one step.
Update(t) ==
    LET r == request[t]  old == users[r.target] IN
    /\ r.at = "checked" /\ r.op = "update"
    /\ IF old = NoUser THEN Done(t) /\ NotWritten
       ELSE IF store = "memory" THEN Done(t) /\ Written(r.target, Merged(old, r.fields, r.to))
       ELSE /\ request' = [request EXCEPT ![t].at = "setting", ![t].read = old]
            /\ NotWritten
    /\ UNCHANGED <<store, environment, requests>>

Delete(t) ==
    /\ request[t].at = "checked" /\ request[t].op = "delete"
    /\ Done(t) /\ Written(request[t].target, NoUser)
    /\ UNCHANGED <<store, environment, requests>>

WritesAnyhow(target) == TRUE           \* mutant: the update inserts the row it misses
\* JSON.SET writes whatever is there, UPDATE ... WHERE only a row that is there.
Writes(target) == store = "redis" \/ users[target] # NoUser

Set(t) ==
    LET r == request[t] IN
    /\ r.at = "setting"
    /\ Done(t)
    /\ IF Writes(r.target)
       THEN Written(r.target, IF r.op = "create" THEN r.to ELSE Merged(r.read, r.fields, r.to))
       ELSE NotWritten
    /\ UNCHANGED <<store, environment, requests>>

------------------------------------------------------------------------------
(* ensure_superuser.                                                          *)

HasRole(u) == u.role = "admin"         \* mutant: a disabled administrator will do
Found(u) == u.role = "admin" /\ u.enabled

Goes(s, at) == start' = [start EXCEPT ![s].at = at]

\* A store in memory belongs to one server.
Begin(s) ==
    /\ start[s].at = "down"
    /\ store = "memory" => \A other \in Server : start[other].at = "down"
    /\ start' = [start EXCEPT ![s] = [at |-> "listing", left |-> Name, found |-> FALSE,
                                      disturbed |-> FALSE]]
    /\ UNCHANGED <<store, environment, users, request, requests>>

\* list_users: Redis reads one key after the other.
List(s, names) ==
    /\ start[s].at = "listing" /\ names \subseteq start[s].left
    /\ IF store = "redis" THEN Cardinality(names) = 1 ELSE names = start[s].left
    /\ start' = [start EXCEPT ![s].left = @ \ names,
                              ![s].found = @ \/ \E n \in names : Found(users[n]),
                              ![s].at = IF start[s].left = names THEN "listed" ELSE @]
    /\ UNCHANGED <<store, environment, users, request, requests>>

\* An administrator was found, or is made; a user of that name, or a missing
\* variable, ends the start.
Seed(s) ==
    /\ start[s].at = "listed"
    /\ CASE start[s].found -> Goes(s, "up") /\ UNCHANGED users
         [] ~start[s].found /\ (~environment \/ users[Superuser] # NoUser) ->
               Goes(s, "failed") /\ UNCHANGED users
         [] OTHER -> IF store = "redis" THEN Goes(s, "seeding") /\ UNCHANGED users
                     ELSE /\ Goes(s, "up")
                          /\ users' = [users EXCEPT ![Superuser] = [role |-> "admin", enabled |-> TRUE]]
    /\ UNCHANGED <<store, environment, request, requests>>

SeedSet(s) ==
    /\ start[s].at = "seeding"
    /\ Goes(s, "up")
    /\ users' = [users EXCEPT ![Superuser] = [role |-> "admin", enabled |-> TRUE]]
    /\ UNCHANGED <<store, environment, request, requests>>

Next ==
    \/ \E t \in Task, caller, target \in Name :
          \/ \E to \in User : Ask(t, "create", caller, target, {}, to)
          \/ \E w \in Updates : Ask(t, "update", caller, target, w.fields, w.to)
          \/ Ask(t, "delete", caller, target, {}, NoUser)
    \/ \E t \in Task : Create(t) \/ Update(t) \/ Delete(t) \/ Set(t)
    \/ \E s \in Server : Begin(s) \/ Seed(s) \/ SeedSet(s)
    \/ \E s \in Server : \E names \in SUBSET Name : List(s, names)

Spec == Init /\ [][Next]_vars

------------------------------------------------------------------------------
\* The last administrator goes only by a request that sets his own record, or by
\* one whose caller was an administrator when it began and is none any more: nobody
\* can delete himself, and whoever acts on others while he is in office remains.
LastAdminGoes ==
    [][Admins # {} /\ Admins' = {} =>
          \E t \in Task : /\ request'[t] # request[t]
                          /\ \/ request[t].caller \notin Admins
                             \/ request[t].op # "delete" /\ request[t].caller = request[t].target]_vars

\* A user that was deleted comes back by a new create_user only; with Redis also
\* by an update that read him before and writes him after.
DeletedStaysDeleted ==
    [][\A n \in Name : users[n] = NoUser /\ users'[n] # NoUser =>
          \/ \E s \in Server : start[s].at # "up" /\ start'[s].at = "up"
          \/ \E t \in Task : /\ request'[t] # request[t] /\ request[t].target = n
                             /\ request[t].op = "update" => store = "redis"]_vars

\* bootstrap.py:4: a server that comes up has an enabled administrator, unless a
\* request took one away during its start.
StartsWithAdmin ==
    [][\A s \in Server : start[s].at # "up" /\ start'[s].at = "up" =>
          Admins' # {} \/ start[s].disturbed]_vars
==============================================================================
