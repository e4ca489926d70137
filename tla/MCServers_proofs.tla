-------------------------- MODULE MCServers_proofs --------------------------
(***************************************************************************)
(* Proofs about the parts of the run "servers": ScramServer, for every set *)
(* of users, passwords and waiting HELLO calls and for every limit and     *)
(* timeout; RedisWatch, for any number of entities, watches, requests,     *)
(* changes and commands that go unanswered.                                *)
(***************************************************************************)
EXTENDS MCServers, FiniteSetTheorems, WellFoundedInduction, TLAPS

\* The actions as one disjunction, for the proofs by cases below.
LEMMA NextCases ==
  ASSUME [Next]_vars
  PROVE  \/ Tick
         \/ \E u \in User, r \in {None} \union Credentials : ChangeUser(u, r)
         \/ \E c \in Call, u \in User : HelloReads(c, u)
         \/ \E c \in Call : HelloAdmitted(c)
         \/ \E c \in Call : HelloRefused(c)
         \/ \E h \in handshakes : Drop(h)
         \/ \E h \in handshakes : ClientFirst(h)
         \/ \E h \in handshakes, nonce \in 0 .. fresh, password \in Password :
              ClientFinal(h, nonce, password)
         \/ \E t \in tokens : BearerExpired(t)
         \/ UNCHANGED vars
BY DEF Next, ScramExpired, ScramGarbled, WrongFinal

LEMMA NewHandshakeType ==
  ASSUME TypeOK, NEW c \in Call, hellos[c] # None
  PROVE  NewHandshake(c) \in Handshake
<1>1. hellos[c] \in HelloCall
  BY DEF TypeOK
<1>2. QED
  BY <1>1 DEF TypeOK, NewHandshake, Handshake, HelloCall

LEMMA AdvancedType ==
  ASSUME TypeOK, NEW h \in handshakes
  PROVE  /\ Advanced(h, fresh + 1) \in Handshake
         /\ Advanced(h, fresh + 1).token = fresh + 1
         /\ Advanced(h, fresh + 1).hello = h.hello
         /\ Advanced(h, fresh + 1).created = h.created
         /\ Advanced(h, fresh + 1).begun = h.begun
<1>1. h \in Handshake /\ fresh + 1 \in Nat
  BY DEF TypeOK
<1>2. Advanced(h, fresh + 1) \in Handshake
  BY <1>1 DEF Advanced, Handshake
<1>3. Advanced(h, fresh + 1).token = fresh + 1
  BY <1>1 DEF Advanced, Handshake
<1>4. /\ Advanced(h, fresh + 1).hello = h.hello
      /\ Advanced(h, fresh + 1).created = h.created
      /\ Advanced(h, fresh + 1).begun = h.begun
  BY <1>1 DEF Advanced, Handshake
<1>5. QED
  BY <1>2, <1>3, <1>4

\* The variables of ScramServer keep their types.
THEOREM TypeCorrect == Spec => []TypeOK
<1>1. Init => TypeOK
  BY DEF Init, TypeOK
<1>2. TypeOK /\ [Next]_vars => TypeOK'
  <2> SUFFICES ASSUME TypeOK, [Next]_vars PROVE TypeOK'
    OBVIOUS
  <2>1. CASE Tick
    BY <2>1 DEF TypeOK, Tick
  <2>2. ASSUME NEW u \in User, NEW r \in {None} \union Credentials, ChangeUser(u, r)
        PROVE  TypeOK'
    BY <2>2 DEF TypeOK, ChangeUser
  <2>3. ASSUME NEW c \in Call, NEW u \in User, HelloReads(c, u) PROVE TypeOK'
    <3>1. users[u] \in Credentials
      BY <2>3 DEF TypeOK, HelloReads
    <3>2. [user |-> u, password |-> users[u].password] \in HelloCall
      BY <3>1 DEF Credentials, HelloCall
    <3>3. hellos' \in [Call -> {None} \union HelloCall]
      BY <2>3, <3>2 DEF TypeOK, HelloReads
    <3>4. QED
      BY <2>3, <3>3 DEF TypeOK, HelloReads
  <2>4. ASSUME NEW c \in Call, HelloAdmitted(c) PROVE TypeOK'
    BY <2>4, NewHandshakeType DEF TypeOK, HelloAdmitted, PurgedHandshakes
  <2>5. ASSUME NEW c \in Call, HelloRefused(c) PROVE TypeOK'
    BY <2>5 DEF TypeOK, HelloRefused, PurgedHandshakes
  <2>6. ASSUME NEW h \in handshakes, Drop(h) PROVE TypeOK'
    BY <2>6 DEF TypeOK, Drop
  <2>7. ASSUME NEW h \in handshakes, ClientFirst(h) PROVE TypeOK'
    BY <2>7, AdvancedType DEF TypeOK, ClientFirst
  <2>8. ASSUME NEW h \in handshakes, NEW nonce \in 0 .. fresh, NEW password \in Password,
               ClientFinal(h, nonce, password)
        PROVE  TypeOK'
    <3>1. h \in Handshake
      BY DEF TypeOK
    <3>2. [token |-> fresh + 1, user |-> h.user, created |-> now] \in TokenEntry
      BY <3>1 DEF TypeOK, Handshake, TokenEntry
    <3>3. [token |-> fresh + 1, hello |-> h.hello, user |-> h.user,
           created |-> now, begun |-> h.begun] \in Issue
      BY <3>1 DEF TypeOK, Handshake, Issue
    <3>4. KeptTokens \subseteq tokens
      BY DEF KeptTokens, AliveTokens
    <3>5. tokens' \in SUBSET TokenEntry /\ issued' \in SUBSET Issue
      BY <2>8, <3>2, <3>3, <3>4 DEF TypeOK, ClientFinal
    <3>6. QED
      BY <2>8, <3>5 DEF TypeOK, ClientFinal, HandshakeTaken
  <2>9. ASSUME NEW t \in tokens, BearerExpired(t) PROVE TypeOK'
    BY <2>9 DEF TypeOK, BearerExpired
  <2>10. CASE UNCHANGED vars
    BY <2>10 DEF TypeOK, vars
  <2>11. QED
    BY <2>1, <2>2, <2>3, <2>4, <2>5, <2>6, <2>7, <2>8, <2>9, <2>10, NextCases
<1>3. QED
  BY <1>1, <1>2, PTL DEF Spec

-----------------------------------------------------------------------------
(* The limits                                                              *)

TablesFinite == IsFiniteSet(handshakes) /\ IsFiniteSet(tokens)

\* Putting one element for another, or one more, into a finite set.
LEMMA Replaced ==
  ASSUME NEW S, IsFiniteSet(S), NEW x \in S, NEW y, NEW n \in Nat, Cardinality(S) <= n
  PROVE  /\ IsFiniteSet((S \ {x}) \union {y})
         /\ Cardinality((S \ {x}) \union {y}) <= n
<1>1. IsFiniteSet(S \ {x}) /\ Cardinality(S \ {x}) = Cardinality(S) - 1
  BY FS_RemoveElement
<1>2. Cardinality(S) \in Nat
  BY FS_CardinalityType
<1>3. CASE y \in S \ {x}
  <2>1. (S \ {x}) \union {y} = S \ {x}
    BY <1>3
  <2>2. QED
    BY <1>1, <1>2, <2>1
<1>4. CASE y \notin S \ {x}
  <2>1. IsFiniteSet((S \ {x}) \union {y}) /\ Cardinality((S \ {x}) \union {y}) = Cardinality(S \ {x}) + 1
    BY <1>1, <1>4, FS_AddElement
  <2>2. QED
    BY <1>1, <1>2, <2>1
<1>5. QED
  BY <1>3, <1>4

LEMMA Added ==
  ASSUME NEW S, IsFiniteSet(S), NEW y, NEW n \in Nat, Cardinality(S) < n
  PROVE  IsFiniteSet(S \union {y}) /\ Cardinality(S \union {y}) <= n
<1>1. Cardinality(S) \in Nat
  BY FS_CardinalityType
<1>2. IsFiniteSet(S \union {y})
      /\ (Cardinality(S \union {y}) = Cardinality(S) \/ Cardinality(S \union {y}) = Cardinality(S) + 1)
  BY FS_AddElement
<1>3. QED
  BY <1>1, <1>2

LEMMA Shrunk ==
  ASSUME NEW S, IsFiniteSet(S), NEW T \in SUBSET S, NEW n \in Nat, Cardinality(S) <= n
  PROVE  IsFiniteSet(T) /\ Cardinality(T) <= n
BY FS_Subset, FS_CardinalityType

\* Of finitely many tokens one is the oldest: take one with a smallest set of
\* older ones.
LEMMA OldestExists ==
  ASSUME NEW T \in SUBSET TokenEntry, IsFiniteSet(T), T # {}
  PROVE  /\ Oldest(T) \in T
         /\ \A v \in T :
              Oldest(T).created < v.created
                \/ (Oldest(T).created = v.created /\ Oldest(T).token <= v.token)
<1> DEFINE Older(t) == {v \in T : \/ v.created < t.created
                                  \/ v.created = t.created /\ v.token < t.token}
           Family == {Older(t) : t \in T}
           Subset == StrictSubsetOrdering(T)
<1>1. Family \subseteq FiniteSubsetsOf(T) /\ Family # {}
  <2>1. \A t \in T : Older(t) \in SUBSET T
    OBVIOUS
  <2>2. \A t \in T : Older(t) \in FiniteSubsetsOf(T)
    BY <2>1, FS_Subset DEF FiniteSubsetsOf
  <2> HIDE DEF Older
  <2>3. QED
    BY <2>2
<1>2. PICK S \in Family : \A R \in Family : <<R, S>> \notin Subset
  <2> HIDE DEF Family, Subset
  <2>1. IsWellFoundedOn(Subset, FiniteSubsetsOf(T))
    BY FS_StrictSubsetOrderingWellFounded DEF Subset
  <2>2. QED
    BY <1>1, <2>1, WFMin
<1>3. PICK t \in T : S = Older(t)
  OBVIOUS
<1>4. ASSUME NEW v \in T, v \in Older(t) PROVE FALSE
  <2>1. v \in TokenEntry /\ t \in TokenEntry
    OBVIOUS
  <2>2. Older(v) \subseteq Older(t)
    BY <1>4, <2>1 DEF TokenEntry
  <2>3. v \notin Older(v)
    BY <2>1 DEF TokenEntry
  <2>4. <<Older(v), Older(t)>> \in Subset
    BY <1>4, <2>2, <2>3 DEF StrictSubsetOrdering
  <2>5. QED
    BY <1>2, <1>3, <2>4
<1>5. \A v \in T : t.created < v.created \/ (t.created = v.created /\ t.token <= v.token)
  BY <1>4 DEF TokenEntry
<1> HIDE DEF Older, Family, Subset
<1>6. QED
  BY <1>5, Zenon DEF Oldest

\* Making room in the token table leaves space for one more.
LEMMA RoomIsMade ==
  ASSUME TypeOK, TablesFinite, TablesBounded
  PROVE  IsFiniteSet(KeptTokens) /\ Cardinality(KeptTokens) < MaxTokens
<1>1. IsFiniteSet(AliveTokens) /\ Cardinality(AliveTokens) <= MaxTokens
  BY Shrunk, LimitsAssumption DEF AliveTokens, TablesFinite, TablesBounded
<1>2. Cardinality(AliveTokens) \in Nat
  BY <1>1, FS_CardinalityType
<1>3. CASE Cardinality(AliveTokens) >= MaxTokens
  <2>1. AliveTokens # {}
    BY <1>2, <1>3, LimitsAssumption, FS_EmptySet
  <2>2. Oldest(AliveTokens) \in AliveTokens
    <3>1. AliveTokens \in SUBSET TokenEntry
      BY DEF AliveTokens, TypeOK
    <3>2. QED
      BY <1>1, <2>1, <3>1, OldestExists
  <2>3. Cardinality(AliveTokens \ {Oldest(AliveTokens)}) = Cardinality(AliveTokens) - 1
        /\ IsFiniteSet(AliveTokens \ {Oldest(AliveTokens)})
    BY <1>1, <2>2, FS_RemoveElement
  <2>4. KeptTokens = AliveTokens \ {Oldest(AliveTokens)}
    BY <1>3 DEF KeptTokens
  <2>5. QED
    BY <1>1, <1>2, <1>3, <2>3, <2>4, LimitsAssumption
<1>4. CASE Cardinality(AliveTokens) < MaxTokens
  BY <1>1, <1>2, <1>4, LimitsAssumption DEF KeptTokens
<1>5. QED
  BY <1>2, <1>3, <1>4, LimitsAssumption

LEMMA TablesInvariant == Spec => [](TablesFinite /\ TablesBounded)
<1>1. Init => TablesFinite /\ TablesBounded
  BY FS_EmptySet, LimitsAssumption DEF Init, TablesFinite, TablesBounded
<1>2. TypeOK /\ TablesFinite /\ TablesBounded /\ [Next]_vars
        => TablesFinite' /\ TablesBounded'
  <2> SUFFICES ASSUME TypeOK, TablesFinite, TablesBounded, [Next]_vars
               PROVE  TablesFinite' /\ TablesBounded'
    OBVIOUS
  <2> USE LimitsAssumption
  <2>1. ASSUME tokens' \subseteq tokens, handshakes' \subseteq handshakes
        PROVE  TablesFinite' /\ TablesBounded'
    BY <2>1, Shrunk DEF TablesFinite, TablesBounded
  <2>2. ASSUME UNCHANGED tokens,
               IsFiniteSet(handshakes'), Cardinality(handshakes') <= MaxHandshakes
        PROVE  TablesFinite' /\ TablesBounded'
    BY <2>2 DEF TablesFinite, TablesBounded
  <2>3. ASSUME NEW c \in Call, HelloAdmitted(c) PROVE TablesFinite' /\ TablesBounded'
    <3>1. IsFiniteSet(PurgedHandshakes)
      BY FS_Subset DEF PurgedHandshakes, TablesFinite
    <3>2. IsFiniteSet(handshakes') /\ Cardinality(handshakes') <= MaxHandshakes
      BY <2>3, <3>1, Added DEF HelloAdmitted, RoomForHandshake
    <3>3. QED
      BY <2>2, <2>3, <3>2 DEF HelloAdmitted
  <2>4. ASSUME NEW c \in Call, HelloRefused(c) PROVE TablesFinite' /\ TablesBounded'
    BY <2>1, <2>4 DEF HelloRefused, PurgedHandshakes
  <2>5. ASSUME NEW h \in handshakes, Drop(h) PROVE TablesFinite' /\ TablesBounded'
    BY <2>1, <2>5 DEF Drop
  <2>6. ASSUME NEW h \in handshakes, ClientFirst(h) PROVE TablesFinite' /\ TablesBounded'
    <3>1. IsFiniteSet(handshakes') /\ Cardinality(handshakes') <= MaxHandshakes
      BY <2>6, Replaced DEF ClientFirst, TablesFinite, TablesBounded
    <3>2. QED
      BY <2>2, <2>6, <3>1 DEF ClientFirst
  <2>7. ASSUME NEW h \in handshakes, NEW nonce \in 0 .. fresh, NEW password \in Password,
               ClientFinal(h, nonce, password)
        PROVE  TablesFinite' /\ TablesBounded'
    <3>1. IsFiniteSet(tokens') /\ Cardinality(tokens') <= MaxTokens
      BY <2>7, RoomIsMade, Added DEF ClientFinal
    <3>2. IsFiniteSet(handshakes') /\ Cardinality(handshakes') <= MaxHandshakes
      BY <2>7, Shrunk DEF ClientFinal, HandshakeTaken, TablesFinite, TablesBounded
    <3>3. QED
      BY <3>1, <3>2 DEF TablesFinite, TablesBounded
  <2>8. ASSUME NEW t \in tokens, BearerExpired(t) PROVE TablesFinite' /\ TablesBounded'
    BY <2>1, <2>8 DEF BearerExpired
  <2>9. ASSUME UNCHANGED <<handshakes, tokens>> PROVE TablesFinite' /\ TablesBounded'
    BY <2>1, <2>9
  <2>10. QED
    BY <2>3, <2>4, <2>5, <2>6, <2>7, <2>8, <2>9, NextCases
       DEF Tick, ChangeUser, HelloReads, vars
<1>3. QED
  BY <1>1, <1>2, TypeCorrect, PTL DEF Spec

\* The handshake and token tables never outgrow their limits.
THEOREM BoundsCorrect == Spec => []TablesBounded
<1>1. QED
  BY TablesInvariant, PTL

-----------------------------------------------------------------------------
(* Handshakes and the tokens they yield                                    *)

\* A handshake of the table, under whatever token it goes, has not yielded a
\* token, and its HELLO is the draw that named it first.
HandshakesDistinct ==
  /\ \A h \in handshakes : h.token <= fresh /\ h.hello <= fresh /\ h.begun = h.created
  /\ \A i \in issued : i.hello <= fresh
  /\ \A g, h \in handshakes : g.hello = h.hello => g = h
  /\ \A h \in handshakes, i \in issued : h.hello # i.hello

OneTokenInv == HandshakesDistinct /\ OneTokenPerHandshake /\ TokenInTime

LEMMA OneTokenInductive == TypeOK /\ OneTokenInv /\ [Next]_vars => OneTokenInv'
<1> SUFFICES ASSUME TypeOK, OneTokenInv, [Next]_vars PROVE OneTokenInv'
  OBVIOUS
<1> USE DEF OneTokenInv, HandshakesDistinct, OneTokenPerHandshake, TokenInTime
<1>1. ASSUME handshakes' \subseteq handshakes, UNCHANGED <<fresh, issued>> PROVE OneTokenInv'
  BY <1>1
<1>2. ASSUME NEW c \in Call, HelloAdmitted(c) PROVE OneTokenInv'
  <2> DEFINE new == NewHandshake(c)
  <2>1. new.token = fresh + 1 /\ new.hello = fresh + 1 /\ new.begun = new.created
    BY DEF NewHandshake
  <2>2. handshakes' \subseteq handshakes \union {new}
        /\ issued' = issued /\ fresh' = fresh + 1 /\ fresh \in Nat
    BY <1>2 DEF HelloAdmitted, PurgedHandshakes, TypeOK
  <2>3. \A h \in handshakes : h.hello \in Nat /\ h.token \in Nat
    BY DEF TypeOK, Handshake
  <2>4. \A i \in issued : i.hello \in Nat
    BY DEF TypeOK, Issue
  <2> HIDE DEF new
  <2>5. QED
    BY <2>1, <2>2, <2>3, <2>4
<1>3. ASSUME NEW h \in handshakes, ClientFirst(h) PROVE OneTokenInv'
  <2> DEFINE new == Advanced(h, fresh + 1)
  <2>1. new.token = fresh + 1 /\ new.hello = h.hello /\ new.begun = new.created
    BY AdvancedType
  <2>2. handshakes' = (handshakes \ {h}) \union {new}
        /\ issued' = issued /\ fresh' = fresh + 1 /\ fresh \in Nat
    BY <1>3 DEF ClientFirst, TypeOK
  <2>3. \A g \in handshakes : g.hello \in Nat /\ g.token \in Nat
    BY DEF TypeOK, Handshake
  <2>4. \A i \in issued : i.hello \in Nat
    BY DEF TypeOK, Issue
  <2> HIDE DEF new
  <2>5. QED
    BY <2>1, <2>2, <2>3, <2>4
<1>4. ASSUME NEW h \in handshakes, NEW nonce \in 0 .. fresh, NEW password \in Password,
             ClientFinal(h, nonce, password)
      PROVE  OneTokenInv'
  <2> DEFINE new == [token |-> fresh + 1, hello |-> h.hello, user |-> h.user,
                     created |-> now, begun |-> h.begun]
  <2>1. new.hello = h.hello /\ new.created - new.begun <= HandshakeTimeout
    BY <1>4 DEF ClientFinal, HandshakeAlive
  <2>2. handshakes' = handshakes \ {h} /\ issued' = issued \union {new}
        /\ fresh' = fresh + 1 /\ fresh \in Nat
    BY <1>4 DEF ClientFinal, HandshakeTaken, TypeOK
  <2>3. \A g \in handshakes : g.hello \in Nat /\ g.token \in Nat
    BY DEF TypeOK, Handshake
  <2>4. \A i \in issued : i.hello \in Nat
    BY DEF TypeOK, Issue
  <2> HIDE DEF new
  <2>5. QED
    BY <2>1, <2>2, <2>3, <2>4
<1>5. QED
  BY <1>1, <1>2, <1>3, <1>4, NextCases
     DEF Tick, ChangeUser, HelloReads, HelloRefused, PurgedHandshakes, Drop, BearerExpired, vars

\* A handshake yields one token at most, and within the timeout of its HELLO.
THEOREM OneTokenCorrect == Spec => [](OneTokenPerHandshake /\ TokenInTime)
<1>1. Init => OneTokenInv
  BY DEF Init, OneTokenInv, HandshakesDistinct, OneTokenPerHandshake, TokenInTime
<1>2. OneTokenInv => OneTokenPerHandshake /\ TokenInTime
  BY DEF OneTokenInv
<1>3. QED
  BY <1>1, <1>2, OneTokenInductive, TypeCorrect, PTL DEF Spec

\* A HELLO never drops a handshake that would still be served.
THEOREM SparesCorrect == Spec => HelloSparesOthers
<1>1. [Next]_vars => [hellos' # hellos => \A h \in handshakes : HandshakeAlive(h) => h \in handshakes']_vars
  BY NextCases DEF Tick, ChangeUser, HelloReads, HelloAdmitted, HelloRefused, PurgedHandshakes,
     Drop, ClientFirst, ClientFinal, BearerExpired, vars
<1>2. QED
  BY <1>1, PTL DEF Spec, HelloSparesOthers

\* A HELLO with good credentials is refused only while the table is full of
\* handshakes younger than the timeout.
THEOREM RefusalCorrect == Spec => RefusedOnlyWhenBusy
<1> DEFINE Busy == \A c \in Call : hellos[c] # None /\ hellos'[c] = None /\ fresh' = fresh
                     => Cardinality({h \in handshakes : HandshakeAlive(h)}) >= MaxHandshakes
<1>1. TypeOK /\ TablesFinite /\ [Next]_vars => [Busy]_vars
  <2> SUFFICES ASSUME TypeOK, TablesFinite, [Next]_vars PROVE Busy \/ UNCHANGED vars
    OBVIOUS
  <2> SUFFICES ASSUME ~ UNCHANGED vars, NEW c \in Call,
                      hellos[c] # None, hellos'[c] = None, fresh' = fresh
               PROVE  Cardinality({h \in handshakes : HandshakeAlive(h)}) >= MaxHandshakes
    OBVIOUS
  <2>1. Cardinality(PurgedHandshakes) \in Nat
    BY FS_Subset, FS_CardinalityType DEF PurgedHandshakes, TablesFinite
  <2>2. ASSUME NEW d \in Call, NEW u \in User, HelloReads(d, u) PROVE FALSE
    <3>1. users[u] \in Credentials
      BY <2>2 DEF TypeOK, HelloReads
    <3>2. [user |-> u, password |-> users[u].password] # None
      BY <3>1, NoneAssumption DEF Credentials, HelloCall
    <3>3. QED
      BY <2>2, <3>2 DEF HelloReads, TypeOK
  <2>3. ASSUME NEW d \in Call, HelloAdmitted(d) PROVE FALSE
    BY <2>3 DEF HelloAdmitted, TypeOK
  <2>4. PICK d \in Call : HelloRefused(d)
    BY <2>2, <2>3, NextCases DEF Tick, ChangeUser, Drop, ClientFirst, ClientFinal, BearerExpired
  <2>5. QED
    BY <2>1, <2>4, LimitsAssumption DEF HelloRefused, RoomForHandshake, PurgedHandshakes
<1>2. QED
  BY <1>1, TypeCorrect, TablesInvariant, PTL DEF Spec, RefusedOnlyWhenBusy

-----------------------------------------------------------------------------
(* Tokens lost before their time                                           *)

Later(i) == {j \in issued : j.token > i.token}

\* The token table is a part of what was issued, in order of time.
TokensAreIssued ==
  /\ IsFiniteSet(issued)
  /\ \A t \in tokens : \E i \in issued : i.token = t.token /\ i.created = t.created
  /\ \A t, v \in tokens : t.token = v.token => t = v
  /\ \A i \in issued : i.token <= fresh /\ i.created <= now
  /\ \A i, j \in issued : i.token = j.token => i = j
  /\ \A i, j \in issued : i.token < j.token => i.created <= j.created

LossInv == TokensAreIssued /\ LostToNewerTokens

\* Every other token that is alive was issued after the oldest one.
LEMMA OldestIsFirst ==
  ASSUME TypeOK, TokensAreIssued, IsFiniteSet(tokens), AliveTokens # {},
         NEW v \in AliveTokens, v # Oldest(AliveTokens)
  PROVE  v.token > Oldest(AliveTokens).token
<1> DEFINE o == Oldest(AliveTokens)
<1>1. AliveTokens \in SUBSET TokenEntry /\ IsFiniteSet(AliveTokens)
  BY FS_Subset DEF AliveTokens, TypeOK
<1>2. o \in AliveTokens
      /\ (o.created < v.created \/ (o.created = v.created /\ o.token <= v.token))
  BY <1>1, OldestExists
<1> HIDE DEF o
<1>3. o \in tokens /\ v \in tokens /\ o \in TokenEntry /\ v \in TokenEntry /\ o # v
  BY <1>1, <1>2 DEF AliveTokens, o
<1>4. PICK i \in issued : i.token = o.token /\ i.created = o.created
  BY <1>3 DEF TokensAreIssued
<1>5. PICK j \in issued : j.token = v.token /\ j.created = v.created
  BY <1>3 DEF TokensAreIssued
<1>6. o.token # v.token
  BY <1>3 DEF TokensAreIssued
<1>7. ~ (j.token < i.token) \/ j.created <= i.created
  BY DEF TokensAreIssued
<1>8. QED
  BY <1>2, <1>3, <1>4, <1>5, <1>6, <1>7 DEF TokenEntry, o

\* So MaxTokens - 1 tokens were issued after the one that is evicted.
LEMMA EnoughLater ==
  ASSUME TypeOK, TokensAreIssued, IsFiniteSet(tokens),
         Cardinality(AliveTokens) >= MaxTokens,
         NEW i \in issued, i.token = Oldest(AliveTokens).token
  PROVE  IsFiniteSet(Later(i)) /\ Cardinality(Later(i)) >= MaxTokens - 1
<1> DEFINE o == Oldest(AliveTokens)
           others == AliveTokens \ {o}
           issueOf == [v \in others |-> CHOOSE j \in issued : j.token = v.token]
<1>1. IsFiniteSet(AliveTokens) /\ AliveTokens \in SUBSET TokenEntry
      /\ Cardinality(AliveTokens) \in Nat
  BY FS_Subset, FS_CardinalityType DEF AliveTokens, TypeOK
<1>2. AliveTokens # {}
  BY <1>1, FS_EmptySet, LimitsAssumption
<1>3. o \in AliveTokens
  BY <1>1, <1>2, OldestExists
<1>4. IsFiniteSet(others) /\ Cardinality(others) = Cardinality(AliveTokens) - 1
  BY <1>1, <1>3, FS_RemoveElement
<1>5. IsFiniteSet(Later(i))
  BY FS_Subset DEF Later, TokensAreIssued
<1>6. ASSUME NEW v \in others
      PROVE  issueOf[v] \in issued /\ issueOf[v].token = v.token /\ v.token > i.token
  <2>1. v \in tokens /\ v \in AliveTokens /\ v # o
    BY DEF AliveTokens
  <2>2. \E j \in issued : j.token = v.token
    BY <2>1 DEF TokensAreIssued
  <2>3. v.token > i.token
    BY <1>2, <2>1, OldestIsFirst
  <2>4. QED
    BY <2>2, <2>3
<1>7. issueOf \in Injection(others, Later(i))
  <2>1. issueOf \in [others -> Later(i)]
    BY <1>6 DEF Later
  <2>2. ASSUME NEW v \in others, NEW w \in others, issueOf[v] = issueOf[w] PROVE v = w
    BY <1>6, <2>2 DEF AliveTokens, TokensAreIssued
  <2> HIDE DEF issueOf, others
  <2>3. QED
    BY <2>1, <2>2 DEF Injection, IsInjective
<1>8. Cardinality(others) <= Cardinality(Later(i))
  <2> HIDE DEF issueOf, others
  <2>1. QED
    BY <1>5, <1>7, FS_Injection
<1>9. Cardinality(Later(i)) \in Nat
  BY <1>5, FS_CardinalityType
<1>10. QED
  BY <1>1, <1>4, <1>5, <1>8, <1>9, LimitsAssumption

LEMMA LossInductive ==
  TypeOK /\ TablesFinite /\ TablesBounded /\ LossInv /\ [Next]_vars => LossInv'
<1> SUFFICES ASSUME TypeOK, TablesFinite, TablesBounded, LossInv, [Next]_vars PROVE LossInv'
  OBVIOUS
<1>a. now \in Nat /\ fresh \in Nat /\ tokens \in SUBSET TokenEntry /\ issued \in SUBSET Issue
  BY DEF TypeOK
<1>1. ASSUME issued' = issued, tokens' \subseteq tokens,
             now' \in Nat, now' >= now, fresh' \in Nat, fresh' >= fresh,
             \A t \in tokens : TokenAlive(t) => t \in tokens'
      PROVE  LossInv'
  <2>1. TokensAreIssued'
    BY <1>1, <1>a DEF LossInv, TokensAreIssued, Issue
  <2>2. ASSUME NEW i \in issued, i.created \in Nat, now' - i.created <= TokenLifetime
        PROVE  \/ \E t \in tokens' : t.token = i.token
               \/ Cardinality(Later(i)) >= MaxTokens
    <3>1. TokenAlive(i)
      BY <1>1, <1>a, <2>2, LimitsAssumption DEF TokenAlive
    <3>2. CASE Cardinality(Later(i)) >= MaxTokens
      BY <3>2
    <3>3. ASSUME NEW t \in tokens, t.token = i.token PROVE t \in tokens'
      <4>1. PICK j \in issued : j.token = t.token /\ j.created = t.created
        BY DEF LossInv, TokensAreIssued
      <4>2. j = i
        BY <3>3, <4>1 DEF LossInv, TokensAreIssued
      <4>3. QED
        BY <1>1, <3>1, <4>1, <4>2 DEF TokenAlive
    <3>4. QED
      BY <3>1, <3>2, <3>3 DEF LossInv, LostToNewerTokens, Later
  <2>3. \A i \in issued : i.created \in Nat
    BY <1>a DEF Issue
  <2>4. LostToNewerTokens'
    BY <1>1, <2>2, <2>3 DEF LostToNewerTokens, Later, TokenAlive
  <2>5. QED
    BY <2>1, <2>4 DEF LossInv
<1>2. ASSUME NEW h \in handshakes, NEW nonce \in 0 .. fresh, NEW password \in Password,
             ClientFinal(h, nonce, password)
      PROVE  LossInv'
  <2> DEFINE entry == [token |-> fresh + 1, user |-> h.user, created |-> now]
             new == [token |-> fresh + 1, hello |-> h.hello, user |-> h.user,
                     created |-> now, begun |-> h.begun]
  <2>1. tokens' = KeptTokens \union {entry} /\ issued' = issued \union {new}
        /\ now' = now /\ fresh' = fresh + 1
    BY <1>2 DEF ClientFinal
  <2>2. entry.token = fresh + 1 /\ entry.created = now
        /\ new.token = fresh + 1 /\ new.created = now
    OBVIOUS
  <2> HIDE DEF entry, new
  <2>3. KeptTokens \subseteq AliveTokens /\ AliveTokens \subseteq tokens
    BY DEF KeptTokens, AliveTokens
  <2>4. ASSUME NEW i \in issued
        PROVE  i.token \in Nat /\ i.created \in Nat /\ i.token <= fresh /\ i.created <= now
    BY <1>a DEF Issue, LossInv, TokensAreIssued
  <2>5. ASSUME NEW t \in tokens
        PROVE  t.token \in Nat /\ t.token <= fresh
    BY <1>a, <2>4 DEF LossInv, TokensAreIssued
  <2>6. IsFiniteSet(issued')
    BY <2>1, FS_AddElement DEF LossInv, TokensAreIssued
  <2>7. TokensAreIssued'
    BY <1>a, <2>1, <2>2, <2>3, <2>4, <2>5, <2>6 DEF LossInv, TokensAreIssued
  <2>8. ASSUME NEW i \in issued, TokenAlive(i)
        PROVE  \/ \E t \in tokens' : t.token = i.token
               \/ Cardinality({j \in issued' : j.token > i.token}) >= MaxTokens
    <3> DEFINE later == {j \in issued' : j.token > i.token}
    <3>1. IsFiniteSet(Later(i)) /\ later = Later(i) \union {new} /\ new \notin Later(i)
      BY <1>a, <2>1, <2>2, <2>4, FS_Subset DEF Later, LossInv, TokensAreIssued
    <3>2. Cardinality(later) = Cardinality(Later(i)) + 1 /\ Cardinality(Later(i)) \in Nat
      BY <3>1, FS_AddElement, FS_CardinalityType
    <3>3. CASE Cardinality(Later(i)) >= MaxTokens
      BY <3>2, <3>3, LimitsAssumption
    <3>4. ASSUME NEW t \in tokens, t.token = i.token, t \notin tokens'
          PROVE  Cardinality(later) >= MaxTokens
      <4>1. PICK j \in issued : j.token = t.token /\ j.created = t.created
        BY DEF LossInv, TokensAreIssued
      <4>2. j = i
        BY <3>4, <4>1 DEF LossInv, TokensAreIssued
      <4>3. t \in AliveTokens
        BY <2>8, <4>1, <4>2 DEF AliveTokens, TokenAlive
      <4>4. Cardinality(AliveTokens) >= MaxTokens /\ t = Oldest(AliveTokens)
        BY <2>1, <3>4, <4>3 DEF KeptTokens
      <4>5. Cardinality(Later(i)) >= MaxTokens - 1
        BY <3>4, <4>4, EnoughLater DEF LossInv, TablesFinite
      <4>6. QED
        BY <3>2, <4>5, LimitsAssumption
    <3>5. QED
      BY <2>8, <3>3, <3>4 DEF LossInv, LostToNewerTokens, Later
  <2>9. \E t \in tokens' : t.token = new.token
    BY <2>1, <2>2
  <2>10. LostToNewerTokens'
    BY <2>1, <2>8, <2>9 DEF LostToNewerTokens, TokenAlive
  <2>11. QED
    BY <2>7, <2>10 DEF LossInv
<1>3. ASSUME NEW t \in tokens, BearerExpired(t) PROVE LossInv'
  BY <1>1, <1>3, <1>a DEF BearerExpired
<1>4. CASE Tick
  BY <1>1, <1>4, <1>a DEF Tick
<1>5. ASSUME issued' = issued, tokens' = tokens, now' = now, fresh' \in {fresh, fresh + 1}
      PROVE  LossInv'
  BY <1>1, <1>5, <1>a
<1>6. QED
  BY <1>2, <1>3, <1>4, <1>5, NextCases
     DEF ChangeUser, HelloReads, HelloAdmitted, HelloRefused, Drop, ClientFirst, vars

\* A token is lost before its lifetime ends only to MaxTokens newer ones.
THEOREM LossCorrect == Spec => []LostToNewerTokens
<1>1. Init => LossInv
  BY FS_EmptySet DEF Init, LossInv, TokensAreIssued, LostToNewerTokens
<1>2. LossInv => LostToNewerTokens
  BY DEF LossInv
<1>3. QED
  BY <1>1, <1>2, LossInductive, TypeCorrect, TablesInvariant, PTL DEF Spec

-----------------------------------------------------------------------------
(* The watches of the Redis adapter                                        *)

\* The holder of w waits for the request.
Awaited(t, w) == task[t] # None /\ task[t].awaited /\ task[t].w = w

\* An answer on its way that tells w the current version of e.
Answers(t, w, e) ==
  /\ Awaited(t, w) /\ e \in task[t].es
  /\ task[t].op \in {"sub", "poll", "refresh"}
  /\ task[t].step = "load" \/ (task[t].step = "reply" /\ task[t].rows[e] = entities[e])

\* No change is missed, by a request that has loaded or is about to: one that
\* has yet to add or to poll may fail without a trace.
Known(w, e) ==
  \/ view[w][e] = entities[e] \/ e \in dirty[w] \union unmarked \union lost[w]
  \/ \E t \in Task : Answers(t, w, e)

\* Nobody is ahead of the store, and an answer is not behind what was told.
VersionsInOrder ==
  /\ \A w \in WatchId, e \in Entity : view[w][e] <= entities[e]
  /\ \A t \in Task : task[t] # None =>
       /\ \A e \in Entity : task[t].rows[e] <= entities[e]
       /\ task[t].awaited =>
            \A e \in Entity : task[t].rows[e] # 0 => view[task[t].w][e] <= task[t].rows[e]

OneAwaited == \A w \in WatchId : \A t, u \in Task : Awaited(t, w) /\ Awaited(u, w) => t = u

\* Who adds to a watch found it, or has been raced by a close.
Racing ==
  /\ \A t \in Task : task[t] # None /\ task[t].step = "sadd" => task[t].w \in watches \union raced
  /\ \A c \in late : c.op = "sadd" => c.w \in watches \union raced

RedisInv ==
  /\ Redis!TypeOK
  /\ VersionsInOrder /\ OneAwaited
  /\ \A w \in WatchId, e \in Entity : e \in ids[w] => Known(w, e)
  /\ Racing /\ LeftoverOnlyByRace

LEMMA RequestFields ==
  /\ None \notin Redis!Request
  /\ \A r \in Redis!Request :
       /\ r.w \in WatchId /\ r.es \in SUBSET Entity /\ r.rows \in [Entity -> Nat]
       /\ r.op \in Redis!Op /\ r.awaited \in BOOLEAN
       /\ r.step \in {"hset", "sadd", "multi", "load", "reply"}
<1>1. None \notin Redis!Request
  BY ServersAssumption DEF Redis!NoneAssumption
<1>2. QED
  BY <1>1 DEF Redis!Request

LEMMA RedisInitInv == Redis!Init => RedisInv
<1> SUFFICES ASSUME Redis!Init PROVE RedisInv
  OBVIOUS
<1> USE DEF Redis!Init, Redis!NoRows
<1>1. Redis!TypeOK
  BY DEF Redis!TypeOK
<1>2. VersionsInOrder /\ OneAwaited
  BY DEF VersionsInOrder, OneAwaited, Awaited
<1>3. \A w \in WatchId, e \in Entity : e \in ids[w] => Known(w, e)
  BY DEF Known
<1>4. Racing /\ LeftoverOnlyByRace
  BY DEF Racing, Redis!At, LeftoverOnlyByRace, Redis!LeftoverOnlyByRace
<1>5. QED
  BY <1>1, <1>2, <1>3, <1>4 DEF RedisInv

\* A request that begins.
LEMMA RedisBegin ==
  ASSUME RedisInv, NEW t \in Task, NEW op \in Redis!Op, NEW w \in WatchId,
         NEW es \in SUBSET Entity, NEW step \in {"hset", "sadd", "multi"},
         Redis!Begin(t, op, w, es, step), step = "sadd" => w \in watches,
         UNCHANGED <<entities, watches, ids, dirty, told, view, unmarked, lost, raced, late>>,
         drawn' \in SUBSET WatchId
  PROVE  RedisInv'
<1> DEFINE r == [op |-> op, w |-> w, es |-> es, step |-> step, rows |-> Redis!NoRows,
                 awaited |-> TRUE]
<1>1. /\ task[t] = None /\ Redis!HolderFree(w) /\ task' = [task EXCEPT ![t] = r]
      /\ Redis!TypeOK /\ task \in [Task -> {None} \union Redis!Request]
  BY DEF Redis!Begin, RedisInv, Redis!TypeOK
<1>2. r \in Redis!Request /\ r # None /\ \A e \in Entity : r.rows[e] = 0
  <2>1. r \in Redis!Request /\ \A e \in Entity : r.rows[e] = 0
    BY DEF Redis!Request, Redis!NoRows, Redis!Op
  <2>2. QED
    BY <2>1, RequestFields
<1>3. /\ r.w = w /\ r.es = es /\ r.op = op /\ r.step = step /\ r.awaited
      /\ task'[t] = r /\ \A u \in Task \ {t} : task'[u] = task[u]
      /\ task' \in [Task -> {None} \union Redis!Request]
  BY <1>1, <1>2
<1> HIDE DEF r
<1>4. Redis!TypeOK'
  BY <1>1, <1>3 DEF Redis!TypeOK
<1>5. VersionsInOrder'
  <2>1. entities \in [Entity -> Nat]
    BY <1>1 DEF Redis!TypeOK
  <2>2. ASSUME NEW u \in Task, task'[u] # None
        PROVE  /\ \A e \in Entity : task'[u].rows[e] <= entities[e]
               /\ task'[u].awaited =>
                    \A e \in Entity : task'[u].rows[e] # 0 => view[task'[u].w][e] <= task'[u].rows[e]
    BY <1>2, <1>3, <2>1, <2>2 DEF RedisInv, VersionsInOrder
  <2>3. \A v \in WatchId, e \in Entity : view'[v][e] <= entities'[e]
    BY DEF RedisInv, VersionsInOrder
  <2>4. entities' = entities /\ view' = view
    OBVIOUS
  <2>5. QED
    BY <2>2, <2>3, <2>4 DEF VersionsInOrder
<1>6. OneAwaited'
  BY <1>1, <1>2, <1>3 DEF RedisInv, OneAwaited, Awaited, Redis!HolderFree
<1>7. ASSUME NEW v \in WatchId, NEW e \in ids[v] PROVE Known(v, e)'
  <2>1. Known(v, e)
    BY <1>7, <1>1 DEF RedisInv, Redis!TypeOK
  <2>2. ASSUME NEW u \in Task, Answers(u, v, e) PROVE Answers(u, v, e)'
    BY <1>1, <1>3, <2>2 DEF Answers, Awaited
  <2>3. QED
    BY <2>1, <2>2 DEF Known
<1>8. Racing' /\ LeftoverOnlyByRace'
  BY <1>3 DEF RedisInv, Racing, Redis!At, LeftoverOnlyByRace, Redis!LeftoverOnlyByRace
<1>9. QED
  BY <1>1, <1>4, <1>5, <1>6, <1>7, <1>8 DEF RedisInv, Redis!TypeOK

\* The task of a request, after a step of it.
LEMMA Moved ==
  ASSUME RedisInv, NEW t \in Task, NEW r \in {None} \union Redis!Request,
         task' = [task EXCEPT ![t] = r]
  PROVE  /\ task' \in [Task -> {None} \union Redis!Request]
         /\ task'[t] = r /\ \A u \in Task \ {t} : task'[u] = task[u]
BY DEF RedisInv, Redis!TypeOK

\* The holder waits for no more requests than before.
LEMMA OneAwaitedKept ==
  ASSUME RedisInv, NEW t \in Task, NEW r \in {None} \union Redis!Request,
         task' = [task EXCEPT ![t] = r],
         r # None /\ r.awaited => Awaited(t, r.w)
  PROVE  OneAwaited'
<1>1. \A w \in WatchId : \A u \in Task : Awaited(u, w)' => Awaited(u, w)
  BY Moved DEF Awaited
<1>2. QED
  BY <1>1 DEF RedisInv, OneAwaited

\* An entity is stored.
LEMMA RedisChange ==
  ASSUME RedisInv, NEW e \in Entity, Redis!Change(e)
  PROVE  RedisInv'
<1>1. /\ entities' = [entities EXCEPT ![e] = entities[e] + 1] /\ unmarked' = unmarked \union {e}
      /\ UNCHANGED <<watches, ids, dirty, drawn, told, task, view, lost, raced, late>>
  BY DEF Redis!Change
<1>2. Redis!TypeOK /\ entities \in [Entity -> Nat] /\ view \in [WatchId -> [Entity -> Nat]]
      /\ task \in [Task -> {None} \union Redis!Request]
  BY DEF RedisInv, Redis!TypeOK
<1>3. \A d \in Entity : entities[d] <= entities'[d] /\ (d # e => entities'[d] = entities[d])
  BY <1>1, <1>2
<1>4. Redis!TypeOK'
  BY <1>1, <1>2 DEF Redis!TypeOK
<1>5. VersionsInOrder'
  <2>1. \A w \in WatchId, d \in Entity : view'[w][d] <= entities'[d]
    BY <1>1, <1>2, <1>3, <1>4 DEF RedisInv, VersionsInOrder, Redis!TypeOK
  <2>2. ASSUME NEW u \in Task, task[u] # None, NEW d \in Entity PROVE task[u].rows[d] <= entities'[d]
    <3>1. task[u].rows[d] \in Nat /\ task[u].rows[d] <= entities[d] /\ entities'[d] \in Nat
      BY <1>2, <1>4, <2>2, RequestFields DEF RedisInv, VersionsInOrder, Redis!TypeOK
    <3>2. QED
      BY <1>2, <1>3, <3>1
  <2>3. QED
    BY <1>1, <2>1, <2>2 DEF RedisInv, VersionsInOrder
<1>6. OneAwaited' /\ Racing' /\ LeftoverOnlyByRace'
  BY <1>1 DEF RedisInv, OneAwaited, Awaited, Racing, Redis!At, LeftoverOnlyByRace,
              Redis!LeftoverOnlyByRace
<1>7. ASSUME NEW w \in WatchId, NEW d \in Entity, d \in ids[w] PROVE Known(w, d)'
  <2>1. CASE d = e
    BY <1>1, <2>1 DEF Known
  <2>2. CASE d # e
    <3>1. Known(w, d) /\ entities'[d] = entities[d]
      BY <1>3, <1>7, <2>2 DEF RedisInv
    <3>2. \A u \in Task : Answers(u, w, d) => Answers(u, w, d)'
      BY <1>1, <3>1 DEF Answers, Awaited
    <3>3. QED
      BY <1>1, <3>1, <3>2 DEF Known
  <2>3. QED
    BY <2>1, <2>2
<1>8. QED
  BY <1>1, <1>4, <1>5, <1>6, <1>7 DEF RedisInv

\* An entity is put into the dirty sets.
LEMMA RedisMarks ==
  ASSUME RedisInv, NEW e \in Entity, Redis!MarkDirty(e)
  PROVE  RedisInv'
<1>1. /\ dirty' = [w \in WatchId |-> IF e \in ids[w] THEN dirty[w] \union {e} ELSE dirty[w]]
      /\ unmarked' = unmarked \ {e}
      /\ UNCHANGED <<entities, watches, ids, drawn, told, task, view, lost, raced, late>>
  BY DEF Redis!MarkDirty
<1>2. Redis!TypeOK'
  BY <1>1 DEF RedisInv, Redis!TypeOK
<1>3. VersionsInOrder' /\ OneAwaited' /\ Racing' /\ LeftoverOnlyByRace'
  BY <1>1 DEF RedisInv, VersionsInOrder, OneAwaited, Awaited, Racing, Redis!At,
              LeftoverOnlyByRace, Redis!LeftoverOnlyByRace
<1>4. ASSUME NEW w \in WatchId, NEW d \in Entity, d \in ids[w] PROVE Known(w, d)'
  <2>1. Known(w, d)
    BY <1>4 DEF RedisInv
  <2>2. \A u \in Task : Answers(u, w, d) => Answers(u, w, d)'
    BY <1>1 DEF Answers, Awaited
  <2>3. d \in dirty[w] \union unmarked => d \in dirty'[w] \union unmarked'
    BY <1>1, <1>4
  <2>4. QED
    BY <1>1, <2>1, <2>2, <2>3 DEF Known
<1>5. QED
  BY <1>1, <1>2, <1>3, <1>4 DEF RedisInv

\* A watch_sub creates its watch.
LEMMA RedisCreates ==
  ASSUME RedisInv, NEW t \in Task, Redis!SubCreates(t)
  PROVE  RedisInv'
<1> DEFINE r == [task[t] EXCEPT !.step = "sadd"]
<1>1. /\ task[t] # None /\ task[t].op = "sub" /\ task[t].step = "hset"
      /\ watches' = watches \union {task[t].w} /\ task' = [task EXCEPT ![t] = r]
      /\ UNCHANGED <<entities, ids, dirty, drawn, told, view, unmarked, lost, raced, late>>
  BY DEF Redis!SubCreates, Redis!At, Redis!Goto, Redis!SubStepAfter
<1>2. task[t] \in Redis!Request
  BY <1>1 DEF RedisInv, Redis!TypeOK
<1>3. /\ r \in Redis!Request /\ r.w = task[t].w /\ r.op = task[t].op /\ r.es = task[t].es
      /\ r.rows = task[t].rows /\ r.awaited = task[t].awaited /\ r.step = "sadd"
  BY <1>2 DEF Redis!Request
<1> HIDE DEF r
<1>4. /\ task' \in [Task -> {None} \union Redis!Request] /\ r # None
      /\ task'[t] = r /\ \A u \in Task \ {t} : task'[u] = task[u]
  BY <1>1, <1>3, Moved, RequestFields
<1>5. Redis!TypeOK' /\ view' = view /\ entities' = entities
  BY <1>1, <1>2, <1>4, RequestFields DEF RedisInv, Redis!TypeOK
<1>6. VersionsInOrder'
  BY <1>1, <1>3, <1>4, <1>5 DEF RedisInv, VersionsInOrder
<1>7. OneAwaited'
  BY <1>1, <1>3, <1>4, OneAwaitedKept DEF Awaited
<1>8. ASSUME NEW w \in WatchId, NEW e \in Entity, e \in ids[w] PROVE Known(w, e)'
  <2>1. Known(w, e)
    BY <1>8 DEF RedisInv
  <2>2. \A u \in Task : Answers(u, w, e) => Answers(u, w, e)'
    BY <1>1, <1>3, <1>4 DEF Answers, Awaited
  <2>3. QED
    BY <1>1, <2>1, <2>2 DEF Known
<1>9. Racing' /\ LeftoverOnlyByRace'
  BY <1>1, <1>3, <1>4 DEF RedisInv, Racing, Redis!At, LeftoverOnlyByRace, Redis!LeftoverOnlyByRace
<1>10. QED
  BY <1>1, <1>5, <1>6, <1>7, <1>8, <1>9 DEF RedisInv

\* A watch_sub adds its ids.
LEMMA RedisAdds ==
  ASSUME RedisInv, NEW t \in Task, Redis!SubAdds(t)
  PROVE  RedisInv'
<1> DEFINE r == [task[t] EXCEPT !.step = "load"]
<1>1. /\ task[t] # None /\ task[t].op = "sub" /\ task[t].step = "sadd"
      /\ ids' = [ids EXCEPT ![task[t].w] = @ \union task[t].es]
      /\ lost' = IF task[t].awaited THEN lost ELSE [lost EXCEPT ![task[t].w] = @ \union task[t].es]
      /\ task' = [task EXCEPT ![t] = r]
      /\ UNCHANGED <<entities, watches, dirty, drawn, told, view, unmarked, raced, late>>
  BY DEF Redis!SubAdds, Redis!At, Redis!Goto, Redis!SubStepAfter, Redis!Untold
<1>2. task[t] \in Redis!Request /\ Redis!TypeOK
  BY <1>1 DEF RedisInv, Redis!TypeOK
<1>3. /\ r \in Redis!Request /\ r.w = task[t].w /\ r.op = task[t].op /\ r.es = task[t].es
      /\ r.rows = task[t].rows /\ r.awaited = task[t].awaited /\ r.step = "load"
  BY <1>2 DEF Redis!Request
<1> HIDE DEF r
<1>4. /\ task' \in [Task -> {None} \union Redis!Request] /\ r # None
      /\ task'[t] = r /\ \A u \in Task \ {t} : task'[u] = task[u]
  BY <1>1, <1>3, Moved, RequestFields
<1>5. Redis!TypeOK' /\ view' = view /\ entities' = entities
  BY <1>1, <1>2, <1>4, RequestFields DEF Redis!TypeOK
<1>6. VersionsInOrder'
  BY <1>1, <1>3, <1>4, <1>5 DEF RedisInv, VersionsInOrder
<1>7. OneAwaited'
  BY <1>1, <1>3, <1>4, OneAwaitedKept DEF Awaited
<1>8. ASSUME NEW w \in WatchId, NEW e \in Entity, e \in ids'[w] PROVE Known(w, e)'
  <2>1. CASE e \in ids[w]
    <3>1. Known(w, e)
      BY <2>1 DEF RedisInv
    <3>2. \A u \in Task : Answers(u, w, e) => Answers(u, w, e)'
      BY <1>1, <1>3, <1>4 DEF Answers, Awaited
    <3>3. lost[w] \subseteq lost'[w]
      BY <1>1, <1>2 DEF Redis!TypeOK
    <3>4. QED
      BY <1>1, <3>1, <3>2, <3>3 DEF Known
  <2>2. CASE e \notin ids[w]
    <3>1. w = task[t].w /\ e \in task[t].es
      BY <1>1, <1>2, <1>8, <2>2 DEF Redis!TypeOK
    <3>2. CASE task[t].awaited
      BY <1>1, <1>3, <1>4, <3>1, <3>2 DEF Known, Answers, Awaited
    <3>3. CASE ~ task[t].awaited
      BY <1>1, <1>2, <3>1, <3>3 DEF Known, Redis!TypeOK
    <3>4. QED
      BY <3>2, <3>3
  <2>3. QED
    BY <2>1, <2>2
<1>9. Racing'
  BY <1>1, <1>3, <1>4 DEF RedisInv, Racing, Redis!At
<1>10. LeftoverOnlyByRace'
  <2>1. task[t].w \in watches \union raced
    BY <1>1 DEF RedisInv, Racing, Redis!At
  <2>2. QED
    BY <1>1, <1>2, <2>1 DEF RedisInv, LeftoverOnlyByRace, Redis!LeftoverOnlyByRace, Redis!TypeOK
<1>11. QED
  BY <1>1, <1>5, <1>6, <1>7, <1>8, <1>9, <1>10 DEF RedisInv, Redis!TypeOK

\* The rows are loaded.
LEMMA RedisLoads ==
  ASSUME RedisInv, NEW t \in Task, Redis!LoadRows(t)
  PROVE  RedisInv'
<1> DEFINE r == [task[t] EXCEPT
                   !.rows = [e \in Entity |-> IF e \in task[t].es THEN entities[e] ELSE 0],
                   !.step = "reply"]
<1>1. /\ task[t] # None /\ task[t].step = "load" /\ task' = [task EXCEPT ![t] = r]
      /\ UNCHANGED <<entities, watches, ids, dirty, drawn, told, view, unmarked, lost, raced, late>>
  BY DEF Redis!LoadRows, Redis!SubStepAfter
<1>2. /\ task[t] \in Redis!Request /\ Redis!TypeOK
      /\ entities \in [Entity -> Nat] /\ view \in [WatchId -> [Entity -> Nat]]
  BY <1>1 DEF RedisInv, Redis!TypeOK
<1>3. /\ r \in Redis!Request /\ r.w = task[t].w /\ r.op = task[t].op /\ r.es = task[t].es
      /\ r.awaited = task[t].awaited /\ r.step = "reply"
      /\ \A e \in Entity : r.rows[e] = IF e \in task[t].es THEN entities[e] ELSE 0
  BY <1>2 DEF Redis!Request
<1> HIDE DEF r
<1>4. /\ task' \in [Task -> {None} \union Redis!Request] /\ r # None
      /\ task'[t] = r /\ \A u \in Task \ {t} : task'[u] = task[u]
  BY <1>1, <1>3, Moved, RequestFields
<1>5. Redis!TypeOK' /\ view' = view /\ entities' = entities
  BY <1>1, <1>2, <1>4 DEF Redis!TypeOK
<1>6. VersionsInOrder'
  <2>1. \A e \in Entity : r.rows[e] <= entities[e]
    BY <1>2, <1>3
  <2>2. \A e \in Entity : r.rows[e] # 0 => view[r.w][e] <= r.rows[e]
    BY <1>2, <1>3, RequestFields DEF RedisInv, VersionsInOrder
  <2>3. QED
    BY <1>4, <1>5, <2>1, <2>2 DEF RedisInv, VersionsInOrder
<1>7. OneAwaited'
  BY <1>1, <1>3, <1>4, OneAwaitedKept DEF Awaited
<1>8. ASSUME NEW w \in WatchId, NEW e \in Entity, e \in ids[w] PROVE Known(w, e)'
  <2>1. Known(w, e)
    BY <1>8 DEF RedisInv
  <2>2. \A u \in Task : Answers(u, w, e) => Answers(u, w, e)'
    BY <1>1, <1>3, <1>4 DEF Answers, Awaited
  <2>3. QED
    BY <1>1, <2>1, <2>2 DEF Known
<1>9. Racing' /\ LeftoverOnlyByRace'
  BY <1>1, <1>3, <1>4 DEF RedisInv, Racing, Redis!At, LeftoverOnlyByRace, Redis!LeftoverOnlyByRace
<1>10. QED
  BY <1>1, <1>5, <1>6, <1>7, <1>8, <1>9 DEF RedisInv

\* Whatever a request of its own ends, the others are as they were.
LEMMA Ended ==
  ASSUME RedisInv, NEW t \in Task, Redis!End(t)
  PROVE  /\ task' \in [Task -> {None} \union Redis!Request]
         /\ task'[t] = None /\ \A u \in Task \ {t} : task'[u] = task[u]
         /\ OneAwaited'
<1>1. task' = [task EXCEPT ![t] = None]
  BY DEF Redis!End
<1>2. QED
  BY <1>1, Moved, OneAwaitedKept

\* watch_unsub takes ids out of a watch.
LEMMA RedisRemoves ==
  ASSUME RedisInv, NEW t \in Task, Redis!Removes(t)
  PROVE  RedisInv'
<1>1. /\ task[t] # None /\ task[t].op = "remove" /\ Redis!End(t)
      /\ ids' = [ids EXCEPT ![task[t].w] = @ \ task[t].es]
      /\ dirty' = [dirty EXCEPT ![task[t].w] = @ \ task[t].es]
      /\ view' = [view EXCEPT ![task[t].w] =
                    [e \in Entity |-> IF e \in task[t].es THEN 0 ELSE view[task[t].w][e]]]
      /\ UNCHANGED <<entities, watches, drawn, told, unmarked, lost, raced, late>>
  BY DEF Redis!Removes, Redis!At, Redis!DirtyAfterRemove, Redis!Forgotten
<1>2. /\ task[t] \in Redis!Request /\ Redis!TypeOK /\ task[t].w \in WatchId
      /\ entities \in [Entity -> Nat] /\ view \in [WatchId -> [Entity -> Nat]]
      /\ ids \in [WatchId -> SUBSET Entity] /\ dirty \in [WatchId -> SUBSET Entity]
  BY <1>1, RequestFields DEF RedisInv, Redis!TypeOK
<1>3. /\ task' \in [Task -> {None} \union Redis!Request] /\ OneAwaited'
      /\ task'[t] = None /\ \A u \in Task \ {t} : task'[u] = task[u]
  BY <1>1, Ended
<1>4. \A w \in WatchId, e \in Entity :
        /\ view'[w][e] = IF w = task[t].w /\ e \in task[t].es THEN 0 ELSE view[w][e]
        /\ e \in ids'[w] <=> e \in ids[w] /\ ~ (w = task[t].w /\ e \in task[t].es)
        /\ e \in dirty'[w] <=> e \in dirty[w] /\ ~ (w = task[t].w /\ e \in task[t].es)
  BY <1>1, <1>2
<1>5. Redis!TypeOK'
  BY <1>1, <1>2, <1>3 DEF Redis!TypeOK
<1>6. VersionsInOrder'
  <2>1. ASSUME NEW w \in WatchId, NEW e \in Entity
        PROVE  view'[w][e] <= view[w][e] /\ view[w][e] \in Nat /\ view'[w][e] \in Nat
    <3>1. view[w][e] \in Nat
      BY <1>2
    <3>2. view'[w][e] = 0 \/ view'[w][e] = view[w][e]
      BY <1>4
    <3>3. QED
      BY <3>1, <3>2
  <2>2. \A w \in WatchId, e \in Entity : view'[w][e] <= entities[e]
    BY <1>2, <2>1 DEF RedisInv, VersionsInOrder
  <2>3. ASSUME NEW u \in Task, task'[u] # None, task[u].awaited,
               NEW e \in Entity, task[u].rows[e] # 0
        PROVE  view'[task[u].w][e] <= task[u].rows[e]
    <3>1. task'[u] = task[u] /\ task[u] \in Redis!Request
      BY <1>3, <2>3
    <3>2. view[task[u].w][e] <= task[u].rows[e] /\ task[u].rows[e] \in Nat
      BY <2>3, <3>1, RequestFields DEF RedisInv, VersionsInOrder
    <3>3. QED
      BY <2>1, <3>1, <3>2, RequestFields
  <2>4. QED
    BY <1>1, <1>3, <2>2, <2>3 DEF RedisInv, VersionsInOrder
<1>7. ASSUME NEW w \in WatchId, NEW e \in Entity, e \in ids'[w] PROVE Known(w, e)'
  <2>1. Known(w, e) /\ view'[w][e] = view[w][e] /\ (e \in dirty[w] => e \in dirty'[w])
    BY <1>4, <1>7 DEF RedisInv
  <2>2. \A u \in Task : Answers(u, w, e) => Answers(u, w, e)'
    BY <1>1, <1>3 DEF Answers, Awaited
  <2>3. QED
    BY <1>1, <2>1, <2>2 DEF Known
<1>8. Racing' /\ LeftoverOnlyByRace'
  BY <1>1, <1>2, <1>3
     DEF RedisInv, Racing, Redis!At, LeftoverOnlyByRace, Redis!LeftoverOnlyByRace
<1>9. QED
  BY <1>3, <1>5, <1>6, <1>7, <1>8 DEF RedisInv, Redis!TypeOK

\* watch_unsub closes a watch.
LEMMA RedisCloses ==
  ASSUME RedisInv, NEW t \in Task, Redis!Closes(t)
  PROVE  RedisInv'
<1>1. /\ task[t] # None /\ task[t].op = "close" /\ Redis!End(t)
      /\ watches' = watches \ {task[t].w}
      /\ ids' = [ids EXCEPT ![task[t].w] = {}]
      /\ dirty' = [dirty EXCEPT ![task[t].w] = {}]
      /\ view' = [view EXCEPT ![task[t].w] = [e \in Entity |-> 0]]
      /\ raced' = IF Redis!Adding(task[t].w) THEN raced \union {task[t].w} ELSE raced
      /\ UNCHANGED <<entities, drawn, told, unmarked, lost, late>>
  BY DEF Redis!Closes, Redis!At, Redis!IdsAfterClose, Redis!Forgotten, Redis!RacedByClose
<1>2. /\ task[t] \in Redis!Request /\ Redis!TypeOK /\ task[t].w \in WatchId
      /\ entities \in [Entity -> Nat] /\ view \in [WatchId -> [Entity -> Nat]]
      /\ ids \in [WatchId -> SUBSET Entity] /\ dirty \in [WatchId -> SUBSET Entity]
  BY <1>1, RequestFields DEF RedisInv, Redis!TypeOK
<1>3. /\ task' \in [Task -> {None} \union Redis!Request] /\ OneAwaited'
      /\ task'[t] = None /\ \A u \in Task \ {t} : task'[u] = task[u]
  BY <1>1, Ended
<1>4. /\ ids'[task[t].w] = {}
      /\ \A w \in WatchId \ {task[t].w} : ids'[w] = ids[w] /\ dirty'[w] = dirty[w] /\ view'[w] = view[w]
      /\ \A w \in WatchId, e \in Entity : view'[w][e] = 0 \/ view'[w][e] = view[w][e]
  BY <1>1, <1>2
<1>5. Redis!TypeOK'
  BY <1>1, <1>2, <1>3 DEF Redis!TypeOK
<1>6. VersionsInOrder'
  <2>1. ASSUME NEW w \in WatchId, NEW e \in Entity
        PROVE  view'[w][e] <= view[w][e] /\ view[w][e] \in Nat /\ view'[w][e] \in Nat
    <3>1. view[w][e] \in Nat
      BY <1>2
    <3>2. view'[w][e] = 0 \/ view'[w][e] = view[w][e]
      BY <1>4
    <3>3. QED
      BY <3>1, <3>2
  <2>2. \A w \in WatchId, e \in Entity : view'[w][e] <= entities[e]
    BY <1>2, <2>1 DEF RedisInv, VersionsInOrder
  <2>3. ASSUME NEW u \in Task, task'[u] # None, task[u].awaited,
               NEW e \in Entity, task[u].rows[e] # 0
        PROVE  view'[task[u].w][e] <= task[u].rows[e]
    <3>1. task'[u] = task[u] /\ task[u] \in Redis!Request
      BY <1>3, <2>3
    <3>2. view[task[u].w][e] <= task[u].rows[e] /\ task[u].rows[e] \in Nat
      BY <2>3, <3>1, RequestFields DEF RedisInv, VersionsInOrder
    <3>3. QED
      BY <2>1, <3>1, <3>2, RequestFields
  <2>4. QED
    BY <1>1, <1>3, <2>2, <2>3 DEF RedisInv, VersionsInOrder
<1>7. ASSUME NEW w \in WatchId, NEW e \in Entity, e \in ids'[w] PROVE Known(w, e)'
  <2>1. w # task[t].w /\ Known(w, e)
    BY <1>4, <1>7 DEF RedisInv
  <2>2. \A u \in Task : Answers(u, w, e) => Answers(u, w, e)'
    BY <1>1, <1>3, <2>1 DEF Answers, Awaited
  <2>3. QED
    BY <1>1, <1>4, <2>1, <2>2 DEF Known
<1>8. Racing'
  <2>1. ASSUME NEW u \in Task, task'[u] # None, task'[u].step = "sadd"
        PROVE  task'[u].w \in watches' \union raced'
    <3>1. u # t /\ task'[u] = task[u] /\ task[u] # None /\ task[u].step = "sadd"
      BY <1>3, <2>1
    <3>2. task[u].w \in watches \union raced
      BY <3>1 DEF RedisInv, Racing
    <3>3. QED
      BY <1>1, <3>1, <3>2 DEF Redis!Adding
  <2>2. ASSUME NEW c \in late, c.op = "sadd" PROVE c.w \in watches' \union raced'
    BY <1>1, <2>2 DEF RedisInv, Racing, Redis!Adding
  <2>3. QED
    BY <1>1, <2>1, <2>2 DEF Racing
<1>9. LeftoverOnlyByRace'
  BY <1>1, <1>2, <1>4 DEF RedisInv, LeftoverOnlyByRace, Redis!LeftoverOnlyByRace
<1>10. QED
  BY <1>3, <1>5, <1>6, <1>7, <1>8, <1>9 DEF RedisInv, Redis!TypeOK

\* watch_poll takes the dirty ids, or all of them.
LEMMA RedisPolls ==
  ASSUME RedisInv, NEW t \in Task, Redis!Polls(t)
  PROVE  RedisInv'
<1> DEFINE P == Redis!PolledIds(t)
           r == [task[t] EXCEPT !.es = P, !.step = IF P = {} THEN "reply" ELSE "load"]
<1>1. /\ task[t] # None /\ task[t].op \in {"poll", "refresh"} /\ task[t].step = "multi"
      /\ dirty' = [dirty EXCEPT ![task[t].w] = {}]
      /\ task' = [task EXCEPT ![t] = r]
      /\ lost' = IF task[t].awaited THEN lost ELSE [lost EXCEPT ![task[t].w] = @ \union P]
      /\ UNCHANGED <<entities, watches, ids, drawn, told, view, unmarked, raced, late>>
  BY DEF Redis!Polls, Redis!At, Redis!DirtyAfterPoll, Redis!Untold
<1>2. /\ task[t] \in Redis!Request /\ Redis!TypeOK /\ task[t].w \in WatchId
      /\ ids \in [WatchId -> SUBSET Entity] /\ dirty \in [WatchId -> SUBSET Entity]
      /\ lost \in [WatchId -> SUBSET Entity]
  BY <1>1, RequestFields DEF RedisInv, Redis!TypeOK
<1>3. P \in SUBSET Entity /\ \A e \in ids[task[t].w] : e \in dirty[task[t].w] => e \in P
  BY <1>2 DEF Redis!PolledIds
<1> HIDE DEF P
<1>4. /\ r \in Redis!Request /\ r.w = task[t].w /\ r.op = task[t].op /\ r.es = P
      /\ r.rows = task[t].rows /\ r.awaited = task[t].awaited
      /\ r.step = IF P = {} THEN "reply" ELSE "load"
  BY <1>2, <1>3 DEF Redis!Request
<1> HIDE DEF r
<1>5. /\ task' \in [Task -> {None} \union Redis!Request] /\ r # None
      /\ task'[t] = r /\ \A u \in Task \ {t} : task'[u] = task[u]
  BY <1>1, <1>4, Moved, RequestFields
<1>6. Redis!TypeOK' /\ view' = view /\ entities' = entities
  BY <1>1, <1>2, <1>3, <1>5 DEF Redis!TypeOK
<1>7. VersionsInOrder'
  BY <1>1, <1>4, <1>5, <1>6 DEF RedisInv, VersionsInOrder
<1>8. OneAwaited'
  BY <1>1, <1>4, <1>5, OneAwaitedKept DEF Awaited
<1>9. ASSUME NEW w \in WatchId, NEW e \in Entity, e \in ids[w] PROVE Known(w, e)'
  <2>1. Known(w, e)
    BY <1>9 DEF RedisInv
  <2>2. \A u \in Task : Answers(u, w, e) => Answers(u, w, e)'
    BY <1>1, <1>5 DEF Answers, Awaited
  <2>3. lost[w] \subseteq lost'[w]
    BY <1>1, <1>2
  <2>4. CASE e \in dirty[w] /\ w = task[t].w
    <3>1. e \in P /\ P # {}
      BY <1>3, <1>9, <2>4
    <3>2. CASE task[t].awaited
      <4>1. Answers(t, w, e)'
        BY <1>1, <1>4, <1>5, <2>4, <3>1, <3>2 DEF Answers, Awaited
      <4>2. QED
        BY <4>1 DEF Known
    <3>3. CASE ~ task[t].awaited
      BY <1>1, <1>2, <2>4, <3>1, <3>3 DEF Known
    <3>4. QED
      BY <3>2, <3>3
  <2>5. CASE ~ (e \in dirty[w] /\ w = task[t].w)
    <3>1. e \in dirty[w] => e \in dirty'[w]
      BY <1>1, <1>2, <2>5
    <3>2. QED
      BY <1>1, <2>1, <2>2, <2>3, <3>1 DEF Known
  <2>6. QED
    BY <2>4, <2>5
<1>10. Racing' /\ LeftoverOnlyByRace'
  BY <1>1, <1>4, <1>5 DEF RedisInv, Racing, Redis!At, LeftoverOnlyByRace, Redis!LeftoverOnlyByRace
<1>11. QED
  BY <1>1, <1>6, <1>7, <1>8, <1>9, <1>10 DEF RedisInv

\* A holder is answered, or its server comes too late for that.
LEMMA RedisReplies ==
  ASSUME RedisInv, NEW t \in Task, Redis!Replies(t)
  PROVE  RedisInv'
<1>1. /\ task[t] # None /\ task[t].step = "reply" /\ Redis!End(t)
      /\ UNCHANGED <<entities, watches, ids, dirty, drawn, unmarked, raced, late>>
      /\ \/ /\ task[t].awaited
            /\ view' = [view EXCEPT ![task[t].w] =
                 [e \in Entity |-> IF task[t].rows[e] # 0 THEN task[t].rows[e] ELSE view[task[t].w][e]]]
            /\ lost' = [lost EXCEPT ![task[t].w] = @ \ {e \in Entity : task[t].rows[e] = entities[e]}]
            /\ told' = told \union {task[t].w}
         \/ ~ task[t].awaited /\ UNCHANGED <<view, lost, told>>
  BY DEF Redis!Replies
<1>2. /\ task[t] \in Redis!Request /\ Redis!TypeOK /\ task[t].w \in WatchId
      /\ task[t].rows \in [Entity -> Nat] /\ task[t].es \in SUBSET Entity
      /\ entities \in [Entity -> Nat] /\ view \in [WatchId -> [Entity -> Nat]]
      /\ lost \in [WatchId -> SUBSET Entity] /\ told \in SUBSET WatchId
  BY <1>1, RequestFields DEF RedisInv, Redis!TypeOK
<1>3. /\ task' \in [Task -> {None} \union Redis!Request] /\ OneAwaited'
      /\ task'[t] = None /\ \A u \in Task \ {t} : task'[u] = task[u]
  BY <1>1, Ended
<1>4. Racing' /\ LeftoverOnlyByRace'
  BY <1>1, <1>3 DEF RedisInv, Racing, Redis!At, LeftoverOnlyByRace, Redis!LeftoverOnlyByRace
<1>5. CASE ~ task[t].awaited
  <2>1. Redis!TypeOK'
    BY <1>1, <1>2, <1>3, <1>5 DEF Redis!TypeOK
  <2>2. VersionsInOrder'
    BY <1>1, <1>3, <1>5 DEF RedisInv, VersionsInOrder
  <2>3. ASSUME NEW w \in WatchId, NEW e \in Entity, e \in ids[w] PROVE Known(w, e)'
    <3>1. Known(w, e)
      BY <2>3 DEF RedisInv
    <3>2. \A u \in Task : Answers(u, w, e) => Answers(u, w, e)'
      BY <1>1, <1>3, <1>5 DEF Answers, Awaited
    <3>3. QED
      BY <1>1, <1>5, <3>1, <3>2 DEF Known
  <2>4. QED
    BY <1>1, <1>3, <1>4, <2>1, <2>2, <2>3 DEF RedisInv
<1>6. CASE task[t].awaited
  <2>1. /\ view' \in [WatchId -> [Entity -> Nat]]
        /\ \A w \in WatchId, e \in Entity :
             view'[w][e] = IF w = task[t].w /\ task[t].rows[e] # 0 THEN task[t].rows[e] ELSE view[w][e]
    <3>1. PICK v \in [Entity -> Nat] :
            /\ v = [e \in Entity |-> IF task[t].rows[e] # 0 THEN task[t].rows[e] ELSE view[task[t].w][e]]
            /\ view' = [view EXCEPT ![task[t].w] = v]
      BY <1>1, <1>2, <1>6
    <3>2. \A w \in WatchId : view'[w] = IF w = task[t].w THEN v ELSE view[w]
      BY <1>2, <3>1
    <3>3. view' \in [WatchId -> [Entity -> Nat]]
      BY <1>2, <3>1
    <3>4. QED
      BY <3>1, <3>2, <3>3
  <2>2. /\ lost' \in [WatchId -> SUBSET Entity]
        /\ \A w \in WatchId, e \in Entity :
             e \in lost'[w] <=> e \in lost[w] /\ ~ (w = task[t].w /\ task[t].rows[e] = entities[e])
    BY <1>1, <1>2, <1>6
  <2>3. Redis!TypeOK'
    BY <1>1, <1>2, <1>3, <1>6, <2>1, <2>2 DEF Redis!TypeOK
  <2>4. \A e \in Entity :
          /\ task[t].rows[e] <= entities[e] /\ view[task[t].w][e] <= entities[e]
          /\ task[t].rows[e] \in Nat /\ entities[e] \in Nat /\ view[task[t].w][e] \in Nat
          /\ task[t].rows[e] # 0 => view[task[t].w][e] <= task[t].rows[e]
    BY <1>1, <1>2, <1>6 DEF RedisInv, VersionsInOrder
  <2>5. ASSUME NEW u \in Task \ {t}, task[u] # None, task[u].awaited PROVE task[u].w # task[t].w
    BY <1>1, <1>2, <1>6, <2>5 DEF RedisInv, OneAwaited, Awaited
  <2>6. VersionsInOrder'
    <3>1. \A w \in WatchId, e \in Entity : view'[w][e] <= entities[e]
      BY <2>1, <2>4 DEF RedisInv, VersionsInOrder
    <3>2. ASSUME NEW u \in Task, task'[u] # None
          PROVE  /\ u # t /\ task'[u] = task[u] /\ task[u].w \in WatchId
                 /\ task[u].awaited => task[u].w # task[t].w
      BY <1>3, <2>5, <3>2, RequestFields
    <3>3. ASSUME NEW u \in Task, task'[u] # None, task[u].awaited,
                 NEW e \in Entity, task[u].rows[e] # 0
          PROVE  view'[task[u].w][e] <= task[u].rows[e]
      BY <2>1, <3>2, <3>3 DEF RedisInv, VersionsInOrder
    <3>4. QED
      BY <1>1, <3>1, <3>2, <3>3 DEF RedisInv, VersionsInOrder
  <2>7. ASSUME NEW w \in WatchId, NEW e \in Entity, e \in ids[w], w = task[t].w PROVE Known(w, e)'
    <3>1. Known(w, e)
      BY <2>7 DEF RedisInv
    <3>2. CASE task[t].rows[e] = entities[e]
      <4>1. view'[w][e] = entities[e]
        BY <2>1, <2>4, <2>7, <3>2
      <4>2. QED
        BY <1>1, <4>1 DEF Known
    <3>3. CASE task[t].rows[e] # entities[e]
      <4>1. e \in lost[w] => e \in lost'[w]
        BY <2>2, <3>3
      <4>2. \A u \in Task : ~ Answers(u, w, e)
        BY <1>1, <2>5, <2>7, <3>3 DEF Answers, Awaited
      <4>3. ~ task[t].rows[e] # 0 => view'[w][e] = view[w][e]
        BY <2>1
      <4>4. ASSUME view[w][e] = entities[e], task[t].rows[e] # 0 PROVE FALSE
        BY <2>4, <2>7, <3>3, <4>4
      <4>5. QED
        BY <1>1, <3>1, <4>1, <4>2, <4>3, <4>4 DEF Known
    <3>4. QED
      BY <3>2, <3>3
  <2>8. ASSUME NEW w \in WatchId, NEW e \in Entity, e \in ids[w], w # task[t].w PROVE Known(w, e)'
    <3>1. Known(w, e) /\ view'[w][e] = view[w][e] /\ (e \in lost[w] => e \in lost'[w])
      BY <2>1, <2>2, <2>8 DEF RedisInv
    <3>2. \A u \in Task : Answers(u, w, e) => Answers(u, w, e)'
      BY <1>1, <1>3, <2>8 DEF Answers, Awaited
    <3>3. QED
      BY <1>1, <3>1, <3>2 DEF Known
  <2>9. QED
    BY <1>1, <1>3, <1>4, <2>3, <2>6, <2>7, <2>8 DEF RedisInv
<1>7. QED
  BY <1>5, <1>6

\* What a request that ends without an answer would have told is lost.
LEMMA LostByEnd ==
  ASSUME RedisInv, NEW t \in Task, task[t] # None, lost' = Redis!LossOf(t),
         UNCHANGED <<entities, ids, dirty, view, unmarked>>,
         \A u \in Task \ {t} : task'[u] = task[u],
         NEW w \in WatchId, NEW e \in Entity, e \in ids[w]
  PROVE  Known(w, e)'
<1>1. task[t] \in Redis!Request /\ task[t].w \in WatchId /\ lost \in [WatchId -> SUBSET Entity]
  BY RequestFields DEF RedisInv, Redis!TypeOK
<1>2. Known(w, e)
  BY DEF RedisInv
<1>3. lost[w] \subseteq lost'[w]
  BY <1>1 DEF Redis!LossOf
<1>4. CASE Answers(t, w, e)
  BY <1>1, <1>4 DEF Known, Answers, Awaited, Redis!LossOf
<1>5. CASE ~ Answers(t, w, e)
  <2>1. \A u \in Task : Answers(u, w, e) => Answers(u, w, e)'
    BY <1>5 DEF Answers, Awaited
  <2>2. QED
    BY <1>2, <1>3, <2>1 DEF Known
<1>6. QED
  BY <1>4, <1>5

\* A command fails.
LEMMA RedisFails ==
  ASSUME RedisInv, NEW t \in Task, Redis!Fails(t)
  PROVE  RedisInv'
<1>1. /\ task[t] # None /\ lost' = Redis!LossOf(t) /\ Redis!End(t)
      /\ UNCHANGED <<entities, watches, ids, dirty, drawn, told, view, unmarked, raced, late>>
  BY DEF Redis!Fails
<1>2. /\ task' \in [Task -> {None} \union Redis!Request] /\ OneAwaited'
      /\ task'[t] = None /\ \A u \in Task \ {t} : task'[u] = task[u]
  BY <1>1, Ended
<1>3. Redis!TypeOK'
  <2>1. task[t] \in Redis!Request /\ task[t].es \in SUBSET Entity /\ task[t].w \in WatchId
    BY <1>1, RequestFields DEF RedisInv, Redis!TypeOK
  <2>2. QED
    BY <1>1, <1>2, <2>1 DEF RedisInv, Redis!TypeOK, Redis!LossOf
<1>4. VersionsInOrder' /\ Racing' /\ LeftoverOnlyByRace'
  BY <1>1, <1>2 DEF RedisInv, VersionsInOrder, Racing, Redis!At, LeftoverOnlyByRace,
                    Redis!LeftoverOnlyByRace
<1>5. \A w \in WatchId, e \in Entity : e \in ids'[w] => Known(w, e)'
  BY <1>1, <1>2, LostByEnd
<1>6. QED
  BY <1>2, <1>3, <1>4, <1>5 DEF RedisInv

\* A holder stops waiting.
LEMMA RedisGivesUp ==
  ASSUME RedisInv, NEW t \in Task, Redis!HolderGivesUp(t)
  PROVE  RedisInv'
<1> DEFINE r == [task[t] EXCEPT !.awaited = FALSE]
<1>1. /\ task[t] # None /\ lost' = Redis!LossOf(t) /\ task' = [task EXCEPT ![t] = r]
      /\ UNCHANGED <<entities, watches, ids, dirty, drawn, told, view, unmarked, raced, late>>
  BY DEF Redis!HolderGivesUp
<1>2. task[t] \in Redis!Request /\ Redis!TypeOK
  BY <1>1 DEF RedisInv, Redis!TypeOK
<1>3. /\ r \in Redis!Request /\ r.w = task[t].w /\ r.op = task[t].op /\ r.es = task[t].es
      /\ r.rows = task[t].rows /\ ~ r.awaited /\ r.step = task[t].step
  BY <1>2 DEF Redis!Request
<1> HIDE DEF r
<1>4. /\ task' \in [Task -> {None} \union Redis!Request] /\ r # None
      /\ task'[t] = r /\ \A u \in Task \ {t} : task'[u] = task[u]
  BY <1>1, <1>3, Moved, RequestFields
<1>5. Redis!TypeOK'
  <2>1. task[t].es \in SUBSET Entity /\ task[t].w \in WatchId
    BY <1>2, RequestFields
  <2>2. QED
    BY <1>1, <1>2, <1>4, <2>1 DEF Redis!TypeOK, Redis!LossOf
<1>6. VersionsInOrder'
  BY <1>1, <1>3, <1>4 DEF RedisInv, VersionsInOrder
<1>7. OneAwaited'
  BY <1>1, <1>3, <1>4, OneAwaitedKept
<1>8. \A w \in WatchId, e \in Entity : e \in ids'[w] => Known(w, e)'
  BY <1>1, <1>4, LostByEnd
<1>9. Racing' /\ LeftoverOnlyByRace'
  BY <1>1, <1>3, <1>4 DEF RedisInv, Racing, Redis!At, LeftoverOnlyByRace, Redis!LeftoverOnlyByRace
<1>10. QED
  BY <1>5, <1>6, <1>7, <1>8, <1>9 DEF RedisInv

\* A command is not answered in time.
LEMMA RedisUnanswered ==
  ASSUME RedisInv, NEW t \in Task, Redis!Unanswered(t)
  PROVE  RedisInv'
<1> DEFINE c == Redis!Sent(t)
<1>1. /\ task[t] # None /\ task[t].step \in {"hset", "sadd", "multi"}
      /\ late' = late \union {c} /\ (task' = task \/ Redis!End(t))
      /\ UNCHANGED <<entities, watches, ids, dirty, drawn, told, view, unmarked, lost, raced>>
  BY DEF Redis!Unanswered
<1>2. Redis!TypeOK /\ task[t] \in Redis!Request
  BY <1>1 DEF RedisInv, Redis!TypeOK
<1>3. c.w = task[t].w /\ (c.op = "sadd" => task[t].step = "sadd")
  BY <1>1, <1>2, RequestFields DEF Redis!Sent, Redis!Op
<1>4. c \in Redis!Command
  BY <1>1, <1>2, RequestFields DEF Redis!Sent, Redis!Command
<1> HIDE DEF c
<1>5. OneAwaited' /\ \A u \in Task : task'[u] = task[u] \/ (u = t /\ task'[u] = None)
  <2>1. CASE task' = task
    BY <1>1, <2>1 DEF RedisInv, OneAwaited, Awaited
  <2>2. CASE Redis!End(t)
    BY <2>2, Ended
  <2>3. QED
    BY <1>1, <2>1, <2>2
<1>6. task' \in [Task -> {None} \union Redis!Request]
  <2>1. CASE task' = task
    BY <1>2, <2>1 DEF Redis!TypeOK
  <2>2. CASE Redis!End(t)
    BY <2>2, Ended
  <2>3. QED
    BY <1>1, <2>1, <2>2
<1>7. Redis!TypeOK'
  BY <1>1, <1>2, <1>4, <1>6 DEF Redis!TypeOK
<1>8. VersionsInOrder'
  BY <1>1, <1>5 DEF RedisInv, VersionsInOrder
<1>9. ASSUME NEW w \in WatchId, NEW e \in Entity, e \in ids[w] PROVE Known(w, e)'
  <2>1. Known(w, e)
    BY <1>9 DEF RedisInv
  <2>2. \A u \in Task : Answers(u, w, e) => Answers(u, w, e)'
    BY <1>1, <1>5 DEF Answers, Awaited
  <2>3. QED
    BY <1>1, <2>1, <2>2 DEF Known
<1>10. Racing'
  BY <1>1, <1>3, <1>5 DEF RedisInv, Racing
<1>11. LeftoverOnlyByRace'
  BY <1>1 DEF RedisInv, LeftoverOnlyByRace, Redis!LeftoverOnlyByRace
<1>12. QED
  BY <1>1, <1>5, <1>7, <1>8, <1>9, <1>10, <1>11 DEF RedisInv

\* A command that was not answered changes neither the requests nor what they
\* or the holders know.
LEMMA LateInv ==
  ASSUME RedisInv, Redis!TypeOK', UNCHANGED <<entities, drawn, told, task, view, unmarked, late>>,
         \A w \in WatchId : lost[w] \subseteq lost'[w],
         \A w \in WatchId : \A e \in ids'[w] :
           e \in lost'[w] \/ (e \in ids[w] /\ (e \in dirty[w] => e \in dirty'[w])),
         Racing', LeftoverOnlyByRace'
  PROVE  RedisInv'
<1>1. VersionsInOrder' /\ OneAwaited'
  BY DEF RedisInv, VersionsInOrder, OneAwaited, Awaited
<1>2. ASSUME NEW w \in WatchId, NEW e \in Entity, e \in ids'[w] PROVE Known(w, e)'
  <2>1. CASE e \in lost'[w]
    BY <2>1 DEF Known
  <2>2. CASE e \notin lost'[w]
    <3>1. e \in ids[w] /\ (e \in dirty[w] => e \in dirty'[w]) /\ Known(w, e)
      BY <1>2, <2>2 DEF RedisInv
    <3>2. \A u \in Task : Answers(u, w, e) => Answers(u, w, e)'
      BY DEF Answers, Awaited
    <3>3. QED
      BY <3>1, <3>2 DEF Known
  <2>3. QED
    BY <2>1, <2>2
<1>3. QED
  BY <1>1, <1>2 DEF RedisInv

\* A command that was not answered runs: one step for each command.
LEMMA RedisRunsLate ==
  ASSUME RedisInv, NEW c \in late, Redis!RunsLate(c)
  PROVE  RedisInv'
<1>1. UNCHANGED <<entities, drawn, told, task, view, unmarked, late>>
  BY DEF Redis!RunsLate
<1>2. /\ Redis!TypeOK /\ c \in Redis!Command /\ c.w \in WatchId /\ c.es \in SUBSET Entity
      /\ ids \in [WatchId -> SUBSET Entity] /\ dirty \in [WatchId -> SUBSET Entity]
      /\ lost \in [WatchId -> SUBSET Entity] /\ watches \in SUBSET WatchId /\ raced \in SUBSET WatchId
  BY DEF RedisInv, Redis!TypeOK, Redis!Command
<1>3. CASE Redis!LateCreates(c)
  <2>1. watches' = watches \union {c.w} /\ UNCHANGED <<ids, dirty, lost, raced>>
    BY <1>3 DEF Redis!LateCreates
  <2>2. Redis!TypeOK'
    BY <1>1, <1>2, <2>1 DEF Redis!TypeOK
  <2>3. Racing' /\ LeftoverOnlyByRace'
    BY <1>1, <2>1 DEF RedisInv, Racing, LeftoverOnlyByRace, Redis!LeftoverOnlyByRace
  <2>4. QED
    BY <1>1, <2>1, <2>2, <2>3, LateInv
<1>4. CASE Redis!LateAdds(c)
  <2>1. /\ c.op = "sadd" /\ ids' = [ids EXCEPT ![c.w] = @ \union c.es]
        /\ lost' = [lost EXCEPT ![c.w] = @ \union (c.es \ ids[c.w])]
        /\ UNCHANGED <<watches, dirty, raced>>
    BY <1>4 DEF Redis!LateAdds
  <2>2. Redis!TypeOK'
    BY <1>1, <1>2, <2>1 DEF Redis!TypeOK
  <2>3. Racing' /\ c.w \in watches \union raced
    BY <1>1, <2>1 DEF RedisInv, Racing
  <2>4. LeftoverOnlyByRace'
    BY <1>1, <1>2, <2>1, <2>3 DEF RedisInv, LeftoverOnlyByRace, Redis!LeftoverOnlyByRace
  <2>5. \A w \in WatchId : lost[w] \subseteq lost'[w]
    BY <1>2, <2>1
  <2>6. \A w \in WatchId : \A e \in ids'[w] : e \in lost'[w] \/ e \in ids[w]
    BY <1>2, <2>1
  <2>7. QED
    BY <1>1, <2>1, <2>2, <2>3, <2>4, <2>5, <2>6, LateInv
<1>5. CASE Redis!LateRemoves(c)
  <2>1. /\ ids' = [ids EXCEPT ![c.w] = @ \ c.es] /\ dirty' = [dirty EXCEPT ![c.w] = @ \ c.es]
        /\ UNCHANGED <<watches, lost, raced>>
    BY <1>5 DEF Redis!LateRemoves
  <2>2. Redis!TypeOK'
    BY <1>1, <1>2, <2>1 DEF Redis!TypeOK
  <2>3. Racing' /\ LeftoverOnlyByRace'
    BY <1>1, <1>2, <2>1 DEF RedisInv, Racing, LeftoverOnlyByRace, Redis!LeftoverOnlyByRace
  <2>4. \A w \in WatchId : \A e \in ids'[w] : e \in ids[w] /\ (e \in dirty[w] => e \in dirty'[w])
    BY <1>2, <2>1
  <2>5. QED
    BY <1>1, <2>1, <2>2, <2>3, <2>4, LateInv
<1>6. CASE Redis!LateCloses(c)
  <2>1. /\ watches' = watches \ {c.w} /\ ids' = [ids EXCEPT ![c.w] = {}]
        /\ dirty' = [dirty EXCEPT ![c.w] = {}]
        /\ raced' = IF Redis!Adding(c.w) THEN raced \union {c.w} ELSE raced
        /\ UNCHANGED lost
    BY <1>6 DEF Redis!LateCloses, Redis!IdsAfterClose, Redis!RacedByClose
  <2>2. Redis!TypeOK'
    BY <1>1, <1>2, <2>1 DEF Redis!TypeOK
  <2>3. Racing'
    BY <1>1, <2>1 DEF RedisInv, Racing, Redis!Adding
  <2>4. LeftoverOnlyByRace'
    BY <1>1, <1>2, <2>1 DEF RedisInv, LeftoverOnlyByRace, Redis!LeftoverOnlyByRace
  <2>5. \A w \in WatchId : \A e \in ids'[w] : e \in ids[w] /\ (e \in dirty[w] => e \in dirty'[w])
    BY <1>2, <2>1
  <2>6. QED
    BY <1>1, <2>1, <2>2, <2>3, <2>4, <2>5, LateInv
<1>7. CASE Redis!LatePolls(c)
  <2>1. /\ dirty' = [dirty EXCEPT ![c.w] = {}]
        /\ lost' = [lost EXCEPT ![c.w] = @ \union (dirty[c.w] \intersect ids[c.w])]
        /\ UNCHANGED <<watches, ids, raced>>
    BY <1>7 DEF Redis!LatePolls, Redis!DirtyAfterPoll
  <2>2. Redis!TypeOK'
    BY <1>1, <1>2, <2>1 DEF Redis!TypeOK
  <2>3. Racing' /\ LeftoverOnlyByRace'
    BY <1>1, <2>1 DEF RedisInv, Racing, LeftoverOnlyByRace, Redis!LeftoverOnlyByRace
  <2>4. \A w \in WatchId : lost[w] \subseteq lost'[w]
    BY <1>2, <2>1
  <2>5. \A w \in WatchId : \A e \in ids'[w] :
          e \in lost'[w] \/ (e \in ids[w] /\ (e \in dirty[w] => e \in dirty'[w]))
    BY <1>2, <2>1
  <2>6. QED
    BY <1>1, <2>1, <2>2, <2>3, <2>4, <2>5, LateInv
<1>8. QED
  BY <1>3, <1>4, <1>5, <1>6, <1>7 DEF Redis!RunsLate

LEMMA RedisNextInv == RedisInv /\ [Redis!Next]_redisVars => RedisInv'
<1> SUFFICES ASSUME RedisInv, [Redis!Next]_redisVars PROVE RedisInv'
  OBVIOUS
<1>1. ASSUME NEW e \in Entity, Redis!Change(e) \/ Redis!MarkDirty(e) PROVE RedisInv'
  BY <1>1, RedisChange, RedisMarks
<1>2. ASSUME NEW t \in Task, NEW w \in WatchId, NEW es \in SUBSET Entity, Redis!SubExtends(t, w, es)
      PROVE  RedisInv'
  <2>1. /\ "sub" \in Redis!Op /\ w \in watches /\ Redis!Begin(t, "sub", w, es, "sadd")
        /\ UNCHANGED <<entities, watches, ids, dirty, drawn, told, view, unmarked, lost, raced, late>>
    BY <1>2 DEF Redis!SubExtends, Redis!SubStepAfter, Redis!Op
  <2>2. drawn' \in SUBSET WatchId
    BY <2>1 DEF RedisInv, Redis!TypeOK
  <2>3. QED
    BY <2>1, <2>2, RedisBegin
<1>3. ASSUME NEW t \in Task, NEW w \in WatchId, NEW es \in SUBSET Entity, Redis!SubDraws(t, w, es)
      PROVE  RedisInv'
  <2>1. /\ "sub" \in Redis!Op /\ drawn' = drawn \union {w} /\ Redis!Begin(t, "sub", w, es, "hset")
        /\ UNCHANGED <<entities, watches, ids, dirty, told, view, unmarked, lost, raced, late>>
    BY <1>3 DEF Redis!SubDraws, Redis!Op
  <2>2. drawn' \in SUBSET WatchId
    BY <2>1 DEF RedisInv, Redis!TypeOK
  <2>3. QED
    BY <2>1, <2>2, RedisBegin
<1>4. ASSUME NEW t \in Task, NEW w \in WatchId, NEW op \in {"remove", "close", "poll", "refresh"},
             NEW es \in SUBSET Entity, Redis!UnsubOrPollFinds(t, op, w, es)
      PROVE  RedisInv'
  <2>1. /\ op \in Redis!Op /\ Redis!Begin(t, op, w, es, "multi")
        /\ UNCHANGED <<entities, watches, ids, dirty, drawn, told, view, unmarked, lost, raced, late>>
    BY <1>4 DEF Redis!UnsubOrPollFinds, Redis!Op
  <2>2. drawn' \in SUBSET WatchId
    BY <2>1 DEF RedisInv, Redis!TypeOK
  <2>3. QED
    BY <2>1, <2>2, RedisBegin
<1>5. ASSUME NEW t \in Task, \/ Redis!SubCreates(t) \/ Redis!SubAdds(t) \/ Redis!LoadRows(t)
                             \/ Redis!Removes(t) \/ Redis!Closes(t) \/ Redis!Polls(t)
                             \/ Redis!Replies(t) \/ Redis!Fails(t) \/ Redis!HolderGivesUp(t)
                             \/ Redis!Unanswered(t)
      PROVE  RedisInv'
  BY <1>5, RedisCreates, RedisAdds, RedisLoads, RedisRemoves, RedisCloses, RedisPolls,
     RedisReplies, RedisFails, RedisGivesUp, RedisUnanswered
<1>6. CASE UNCHANGED redisVars
  BY <1>6 DEF redisVars, RedisInv, Redis!TypeOK, VersionsInOrder, OneAwaited, Awaited, Known,
              Answers, Racing, Redis!At, LeftoverOnlyByRace, Redis!LeftoverOnlyByRace
<1>7. {} \in SUBSET Entity /\ SUBSET Entity \ {{}} \subseteq SUBSET Entity
  OBVIOUS
<1>8. QED
  BY <1>1, <1>2, <1>3, <1>4, <1>5, <1>6, <1>7, RedisRunsLate DEF Redis!Next

LEMMA RedisInvAlways == ServersSpec => []RedisInv
<1>1. ServersInit => RedisInv
  BY RedisInitInv DEF ServersInit
<1>2. RedisInv /\ [ServersNext]_allVars => RedisInv'
  <2>1. ASSUME [ServersNext]_allVars
        PROVE  [Redis!Next]_redisVars
    BY <2>1 DEF ServersNext, allVars, redisVars
  <2>2. QED
    BY <2>1, RedisNextInv
<1>3. QED
  BY <1>1, <1>2, PTL DEF ServersSpec

\* Of the changes of a watched entity the holder of a Redis watch misses only
\* those whose answer got lost (watch_poll, watch_sub).
THEOREM NoChangeMissedCorrect == ServersSpec => []NoChangeMissed
<1>1. RedisInv => NoChangeMissed
  <2> SUFFICES ASSUME RedisInv, NEW w \in watches, NEW e \in Entity, e \in ids[w]
               PROVE  \/ view[w][e] = entities[e] \/ e \in dirty[w] \union unmarked \union lost[w]
                      \/ Redis!Coming(w, e)
    BY DEF NoChangeMissed, Redis!NoChangeMissed
  <2>1. Known(w, e)
    BY DEF RedisInv, Redis!TypeOK
  <2>2. \A t \in Task : Answers(t, w, e) => Redis!Coming(w, e)
    BY DEF Answers, Awaited, Redis!Coming
  <2>3. QED
    BY <2>1, <2>2 DEF Known
<1>2. QED
  BY RedisInvAlways, <1>1, PTL

\* A closed Redis watch leaves ids behind only when a watch_sub raced the close.
THEOREM LeftoverCorrect == ServersSpec => []LeftoverOnlyByRace
<1>1. RedisInv => LeftoverOnlyByRace
  BY DEF RedisInv
<1>2. QED
  BY RedisInvAlways, <1>1, PTL

=============================================================================
