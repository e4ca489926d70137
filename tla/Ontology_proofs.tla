---------------------------- MODULE Ontology_proofs ----------------------------
(* Proofs about Ontology for every set of libs, every entity and any number of  *)
(* libs loaded.  The walks of the taxonomy are recursive functions over levels: *)
(* what they compute is proved by induction over the levels.                    *)
EXTENDS Ontology, FiniteSetTheorems, SequenceTheorems, WellFoundedInduction, TLAPS

\* Induction over 0 .. N for a set: a least number outside of S would have a
\* predecessor in S.
LEMMA UpToN ==
  ASSUME NEW N \in Nat, NEW S, 0 \in S, \A n \in 1 .. N : n - 1 \in S => n \in S
  PROVE  0 .. N \subseteq S
<1> DEFINE T == (0 .. N) \ S
<1>1. SUFFICES ASSUME T # {} PROVE FALSE
  OBVIOUS
<1>2. T \subseteq Nat
  OBVIOUS
<1>3. PICK n \in T : \A m \in T : ~ (<<m, n>> \in OpToRel(<, Nat))
  <2> HIDE DEF T
  <2>1. QED
    BY <1>1, <1>2, NatLessThanWellFounded, WFMin
<1>4. n \in 1 .. N /\ n \notin S
  OBVIOUS
<1>5. n - 1 \in T
  BY <1>4
<1>6. <<n - 1, n>> \in OpToRel(<, Nat)
  BY <1>4 DEF OpToRel
<1>7. QED
  BY <1>3, <1>5, <1>6

\* step says for each of N levels what it makes of a value in V.
Steps(N, V, step) == step \in [1 .. N -> [V -> V]]
\* f holds the values of the N levels from a on.
Stepwise(f, N, V, a, step) ==
  f \in [0 .. N -> V] /\ f[0] = a /\ \A n \in 1 .. N : f[n] = step[n][f[n - 1]]

\* A recursive function over levels exists when each step stays in V: the CHOOSE
\* that stands for it in IndexAfter and in Visited has something to choose.
LEMMA Recursion ==
  ASSUME NEW N \in Nat, NEW V, NEW a \in V, NEW step, Steps(N, V, step)
  PROVE  \E f : Stepwise(f, N, V, a, step)
<1> USE DEF Steps
<1> DEFINE Good(f, k) == f[0] = a /\ \A n \in 1 .. k : f[n] = step[n][f[n - 1]]
           S == {k \in 0 .. N : \E f \in [0 .. k -> V] : Good(f, k)}
<1>1. 0 \in S
  <2> DEFINE g == [n \in 0 .. 0 |-> a]
  <2>1. g \in [0 .. 0 -> V] /\ Good(g, 0)
    OBVIOUS
  <2> HIDE DEF g
  <2>2. \E f \in [0 .. 0 -> V] : Good(f, 0)
    BY <2>1
  <2>3. QED
    BY <2>2
<1>2. ASSUME NEW k \in 1 .. N, k - 1 \in S
      PROVE  k \in S
  <2>1. PICK f \in [0 .. k - 1 -> V] : Good(f, k - 1)
    BY <1>2
  <2> DEFINE g == [n \in 0 .. k |-> IF n = k THEN step[k][f[k - 1]] ELSE f[n]]
  <2>2. g \in [0 .. k -> V]
    BY <2>1
  <2>3. Good(g, k)
    <3>1. g[0] = a
      BY <2>1
    <3>2. ASSUME NEW n \in 1 .. k PROVE g[n] = step[n][g[n - 1]]
      <4>1. CASE n = k
        BY <4>1
      <4>2. CASE n # k
        <5>1. n \in 1 .. k - 1 /\ n \in 0 .. k /\ n - 1 \in 0 .. k /\ n - 1 # k
          BY <4>2
        <5>2. QED
          BY <5>1, <4>2, <2>1
      <4>3. QED
        BY <4>1, <4>2
    <3>3. QED
      BY <3>1, <3>2
  <2> HIDE DEF g
  <2>4. \E h \in [0 .. k -> V] : Good(h, k)
    BY <2>2, <2>3
  <2>5. QED
    BY <2>4
<1>3. N \in S
  <2> HIDE DEF S
  <2>1. 0 .. N \subseteq S
    BY <1>1, <1>2, UpToN
  <2>2. QED
    BY <2>1
<1>4. QED
  BY <1>3 DEF Stepwise

\* f holds the symbols that are reached from s in at most 0 .. N levels.
UpTo(index, s, N, f) ==
  f = [n \in 0 .. N |-> IF n = 0 THEN {s} ELSE f[n - 1] \cup Ups(index, f[n - 1])]

\* The levels of a walk exist for every index.
LEMMA UpToExists ==
  ASSUME NEW index, NEW s, NEW N \in Nat
  PROVE  \E f : UpTo(index, s, N, f)
<1> DEFINE V == SUBSET ({s} \cup Ups(index, DOMAIN index))
           first == {s}
           step == [n \in 1 .. N |-> [v \in V |-> v \cup Ups(index, v)]]
<1>1. first \in V
  OBVIOUS
<1>2. Steps(N, V, step)
  BY DEF Ups, Steps
<1>3. PICK f : Stepwise(f, N, V, first, step)
  <2> HIDE DEF V, first, step
  <2>1. QED
    BY <1>1, <1>2, Recursion
<1>4. \A n \in 1 .. N : n \in 0 .. N /\ n - 1 \in 0 .. N /\ f[n] = f[n - 1] \cup Ups(index, f[n - 1])
  <2>1. TAKE n \in 1 .. N
  <2>2. n \in 0 .. N /\ n - 1 \in 0 .. N /\ f[n - 1] \in V
    BY <1>3 DEF Stepwise
  <2>3. step[n][f[n - 1]] = f[n - 1] \cup Ups(index, f[n - 1])
    BY <2>2
  <2>4. QED
    BY <1>3, <2>2, <2>3 DEF Stepwise
<1>5. \A n \in 0 .. N : f[n] = IF n = 0 THEN {s} ELSE f[n - 1] \cup Ups(index, f[n - 1])
  BY <1>3, <1>4 DEF Stepwise
<1>6. QED
  BY <1>3, <1>5 DEF UpTo, Stepwise

\* Visited is the last of as many levels as the index has names.
LEMMA VisitedIs ==
  ASSUME NEW index, NEW s, Cardinality(DOMAIN index) \in Nat
  PROVE  \E f : UpTo(index, s, Cardinality(DOMAIN index), f)
                /\ Visited(index, s) = f[Cardinality(DOMAIN index)]
<1> DEFINE N == Cardinality(DOMAIN index)
           f == CHOOSE g : UpTo(index, s, N, g)
<1>1. UpTo(index, s, N, f)
  BY UpToExists
<1>2. Visited(index, s) = f[N]
  BY Zenon DEF Visited, UpTo
<1>3. QED
  BY <1>1, <1>2

\* The walk has visited its start, it has visited everything above what it has
\* visited, and nothing that a set closed under Ups leaves out: as many levels as
\* there are names are enough, for each but the last adds a name.
LEMMA VisitedFacts ==
  ASSUME NEW index, NEW s, IsFiniteSet(DOMAIN index)
  PROVE  /\ s \in Visited(index, s)
         /\ Ups(index, Visited(index, s)) \subseteq Visited(index, s)
         /\ \A C : s \in C /\ Ups(index, C) \subseteq C => Visited(index, s) \subseteq C
<1> DEFINE D == DOMAIN index
           N == Cardinality(D)
<1>1. N \in Nat
  BY FS_CardinalityType
<1>2. PICK f : UpTo(index, s, N, f) /\ Visited(index, s) = f[N]
  BY <1>1, VisitedIs
<1>3. f[0] = {s} /\ \A n \in 1 .. N : f[n] = f[n - 1] \cup Ups(index, f[n - 1])
  <2>1. \A n \in 0 .. N : f[n] = IF n = 0 THEN {s} ELSE f[n - 1] \cup Ups(index, f[n - 1])
    BY <1>2 DEF UpTo
  <2>2. \A n \in 1 .. N : n \in 0 .. N /\ n # 0
    BY <1>1
  <2>3. 0 \in 0 .. N
    BY <1>1
  <2> HIDE DEF N
  <2>4. QED
    BY <2>1, <2>2, <2>3
<1>4. \A n \in 0 .. N : IsFiniteSet(f[n] \cap D) /\ Cardinality(f[n] \cap D) \in Nat
                        /\ Cardinality(f[n] \cap D) <= N
  <2>1. TAKE n \in 0 .. N
  <2>2. f[n] \cap D \in SUBSET D
    OBVIOUS
  <2>3. IsFiniteSet(f[n] \cap D) /\ Cardinality(f[n] \cap D) <= N
    BY <2>2, FS_Subset
  <2>4. QED
    BY <2>3, FS_CardinalityType
<1> DEFINE Has == {n \in 0 .. N : s \in f[n]}
           Full == {n \in 0 .. N : Ups(index, f[n]) \subseteq f[n] \/ Cardinality(f[n] \cap D) >= n + 1}
<1>5. 0 .. N \subseteq Has
  <2>1. 0 \in Has
    BY <1>1, <1>3
  <2>2. \A n \in 1 .. N : n - 1 \in Has => n \in Has
    BY <1>1, <1>3
  <2> HIDE DEF Has
  <2>3. QED
    BY <1>1, <2>1, <2>2, UpToN
<1>6. 0 .. N \subseteq Full
  <2>1. 0 \in Full
    <3>1. CASE s \in D
      <4>1. f[0] \cap D = {s}
        BY <1>3, <3>1
      <4>2. Cardinality(f[0] \cap D) = 1
        BY <4>1, FS_Singleton
      <4>3. QED
        BY <4>2, <1>1
    <3>2. CASE s \notin D
      <4>1. Ups(index, f[0]) = {}
        BY <1>3, <3>2 DEF Ups
      <4>2. QED
        BY <4>1, <1>1
    <3>3. QED
      BY <3>1, <3>2
  <2>2. ASSUME NEW n \in 1 .. N, n - 1 \in Full
        PROVE  n \in Full
    <3> DEFINE a == f[n - 1]
               b == f[n]
    <3>1. b = a \cup Ups(index, a) /\ n - 1 \in 0 .. N /\ n \in 0 .. N
      BY <1>1, <1>3
    <3>2. CASE Ups(index, a) \subseteq a
      <4>1. b = a
        BY <3>1, <3>2
      <4>2. QED
        BY <4>1, <3>1, <3>2
    <3>3. CASE a \cap D = b \cap D
      <4>1. Ups(index, b) = Ups(index, a)
        BY <3>3 DEF Ups
      <4>2. Ups(index, b) \subseteq b
        BY <4>1, <3>1
      <4>3. QED
        BY <4>2, <3>1
    <3>4. CASE ~ (Ups(index, a) \subseteq a) /\ a \cap D # b \cap D
      <4>1. Cardinality(a \cap D) >= n
        BY <2>2, <3>4, <1>1
      <4>2. a \cap D \in SUBSET (b \cap D)
        BY <3>1
      <4>3. IsFiniteSet(b \cap D) /\ Cardinality(b \cap D) \in Nat /\ Cardinality(a \cap D) \in Nat
        BY <1>4, <3>1
      <4>4. Cardinality(a \cap D) <= Cardinality(b \cap D) /\ Cardinality(b \cap D) # Cardinality(a \cap D)
        BY <4>2, <4>3, <3>4, FS_Subset
      <4>5. Cardinality(b \cap D) >= n + 1
        BY <4>1, <4>3, <4>4
      <4>6. QED
        BY <4>5, <3>1
    <3>5. QED
      BY <3>2, <3>3, <3>4
  <2> HIDE DEF Full
  <2>3. QED
    BY <1>1, <2>1, <2>2, UpToN
<1>7. s \in f[N] /\ Ups(index, f[N]) \subseteq f[N]
  <2>1. N \in Has /\ N \in Full
    BY <1>1, <1>5, <1>6
  <2>2. N \in 0 .. N
    BY <1>1
  <2>3. Cardinality(f[N] \cap D) \in Nat /\ Cardinality(f[N] \cap D) <= N
    BY <1>4, <2>2
  <2>4. s \in f[N] /\ (Ups(index, f[N]) \subseteq f[N] \/ Cardinality(f[N] \cap D) >= N + 1)
    BY <2>1
  <2> HIDE DEF N, D
  <2>5. QED
    BY <2>3, <2>4, <1>1
<1>8. ASSUME NEW C, s \in C, Ups(index, C) \subseteq C
      PROVE  f[N] \subseteq C
  <2> DEFINE In == {n \in 0 .. N : f[n] \subseteq C}
  <2>1. 0 \in In
    BY <1>1, <1>3, <1>8
  <2>2. ASSUME NEW n \in 1 .. N, n - 1 \in In
        PROVE  n \in In
    <3>1. f[n] = f[n - 1] \cup Ups(index, f[n - 1]) /\ f[n - 1] \subseteq C
      BY <1>3, <2>2
    <3>2. Ups(index, f[n - 1]) \subseteq Ups(index, C)
      BY <3>1 DEF Ups
    <3>3. QED
      BY <3>1, <3>2, <1>8
  <2> HIDE DEF In
  <2>3. 0 .. N \subseteq In
    BY <1>1, <2>1, <2>2, UpToN
  <2>4. N \in In
    BY <2>3, <1>1
  <2>5. QED
    BY <2>4 DEF In
<1>9. QED
  BY <1>2, <1>7, <1>8

\* What each def of a lib preserves, adding the lib preserves (the loop of
\* add_lib).
LEMMA IndexAfterIn ==
  ASSUME NEW index, NEW defs, Len(defs) \in Nat, NEW I, index \in I,
         \A i \in 1 .. Len(defs) : \A x \in I : Indexed(x, defs[i]) \in I
  PROVE  IndexAfter(index, defs) \in I
<1> DEFINE N == Len(defs)
           After(f) == f = [i \in 0 .. N |-> IF i = 0 THEN index ELSE Indexed(f[i - 1], defs[i])]
           step == [n \in 1 .. N |-> [x \in I |-> Indexed(x, defs[n])]]
<1>1. Steps(N, I, step)
  BY DEF Steps
<1>2. PICK f : Stepwise(f, N, I, index, step)
  <2> HIDE DEF step, N
  <2>1. N \in Nat
    BY DEF N
  <2>2. QED
    BY <1>1, <2>1, Recursion
<1>3. \A i \in 0 .. N : f[i] \in I /\ f[i] = IF i = 0 THEN index ELSE Indexed(f[i - 1], defs[i])
  <2>1. TAKE i \in 0 .. N
  <2>2. CASE i = 0
    BY <2>2, <1>2 DEF Stepwise
  <2>3. CASE i # 0
    <3>1. i \in 1 .. N /\ i - 1 \in 0 .. N
      BY <2>3
    <3>2. f[i - 1] \in I /\ f[i] \in I /\ f[i] = step[i][f[i - 1]]
      BY <1>2, <3>1 DEF Stepwise
    <3>3. step[i][f[i - 1]] = Indexed(f[i - 1], defs[i])
      BY <3>1, <3>2
    <3>4. QED
      BY <3>2, <3>3, <2>3
  <2>4. QED
    BY <2>2, <2>3
<1>4. After(f)
  BY <1>2, <1>3 DEF Stepwise
<1> DEFINE g == CHOOSE h : After(h)
<1>5. After(g)
  BY <1>4
<1>6. IndexAfter(index, defs) = g[N]
  BY Zenon DEF IndexAfter
<1>7. g[N] \in I
  <2> DEFINE In == {i \in 0 .. N : g[i] \in I}
  <2>1. N \in Nat
    OBVIOUS
  <2> HIDE DEF N, g
  <2>2. \A i \in 0 .. N : g[i] = IF i = 0 THEN index ELSE Indexed(g[i - 1], defs[i])
    BY <1>5
  <2>3. 0 \in In
    <3>1. 0 \in 0 .. N
      BY <2>1
    <3>2. g[0] = index
      BY <2>2, <3>1
    <3>3. QED
      BY <3>1, <3>2
  <2>4. ASSUME NEW n \in 1 .. N, n - 1 \in In
        PROVE  n \in In
    <3>1. n \in 0 .. N /\ n # 0 /\ g[n - 1] \in I
      BY <2>1, <2>4
    <3>2. g[n] = Indexed(g[n - 1], defs[n])
      BY <2>2, <3>1
    <3>3. \A x \in I : Indexed(x, defs[n]) \in I
      BY DEF N
    <3>4. QED
      BY <3>1, <3>2, <3>3
  <2> HIDE DEF In
  <2>5. 0 .. N \subseteq In
    BY <2>1, <2>3, <2>4, UpToN
  <2>6. N \in In
    BY <2>1, <2>5
  <2>7. QED
    BY <2>6 DEF In
<1>8. QED
  BY <1>6, <1>7

\* The symbols of defs, and those without a lib prefix.
AnySymbol == [lib : Seq(STRING), parts : Seq(STRING) \ {<<>>}]

\* Every name of the index is the symbol of its def or the unqualified form of it.
NamesDefs(index) ==
    /\ IsFiniteSet(DOMAIN index)
    /\ \A s \in DOMAIN index : /\ index[s].symbol \in AnySymbol
                               /\ index[s].symbol = s \/ Unqualified(index[s].symbol) = s

\* Every name leads to a def that the index has under its own symbol.
NoneStale(index) ==
    \A s \in DOMAIN index : /\ index[s].symbol \in DOMAIN index
                            /\ index[index[s].symbol] = index[s]

\* The functions into B from a part of A.
Partial(A, B) == UNION {[E -> B] : E \in SUBSET A}

\* What _by_name is after one def: its own symbol leads to it, its unqualified
\* name to it unless it led to another, and every other name where it led before.
LEMMA IndexedFacts ==
  ASSUME NEW A, NEW B, NEW index \in Partial(A, B), NEW d \in B,
         d.symbol \in A, Unqualified(d.symbol) \in A
  PROVE  /\ Indexed(index, d) \in Partial(A, B)
         /\ DOMAIN Indexed(index, d) = DOMAIN index \cup {d.symbol, Unqualified(d.symbol)}
         /\ Indexed(index, d)[d.symbol] = d
         /\ \A s \in DOMAIN Indexed(index, d) : s # d.symbol =>
               \/ s \in DOMAIN index /\ Indexed(index, d)[s] = index[s]
               \/ s = Unqualified(d.symbol) /\ s \notin DOMAIN index /\ Indexed(index, d)[s] = d
<1>1. PICK E \in SUBSET A : index \in [E -> B]
  BY DEF Partial
<1> DEFINE u == Unqualified(d.symbol)
           own == Put(index, d.symbol, d)
           both == Put(own, u, d)
<1>2. own = [s \in DOMAIN index \cup {d.symbol} |-> IF s = d.symbol THEN d ELSE index[s]]
  BY DEF Put
<1>3. own \in [E \cup {d.symbol} -> B] /\ DOMAIN own = E \cup {d.symbol}
  BY <1>1, <1>2
<1>4. both = [s \in DOMAIN own \cup {u} |-> IF s = u THEN d ELSE own[s]]
  <2> HIDE DEF own, u
  <2>1. QED
    BY DEF Put
<1>5. both \in [E \cup {d.symbol, u} -> B] /\ DOMAIN both = E \cup {d.symbol, u}
  <2> HIDE DEF own, u
  <2>1. QED
    BY <1>3, <1>4
<1>6. Indexed(index, d) = IF u \in DOMAIN own THEN own ELSE both
  BY DEF Indexed
<1> HIDE DEF u, both
<1>7. CASE u \in DOMAIN own
  <2>1. Indexed(index, d) = own
    BY <1>6, <1>7
  <2>2. E \cup {d.symbol} \in SUBSET A
    OBVIOUS
  <2>3. own \in Partial(A, B)
    BY <1>3, <2>2 DEF Partial
  <2>4. QED
    BY <2>1, <2>3, <1>1, <1>2, <1>3, <1>7 DEF u
<1>8. CASE u \notin DOMAIN own
  <2>1. Indexed(index, d) = both
    BY <1>6, <1>8
  <2>2. E \cup {d.symbol, u} \in SUBSET A
    BY DEF u
  <2>3. both \in Partial(A, B)
    BY <1>5, <2>2 DEF Partial
  <2>4. u # d.symbol /\ u \notin E
    BY <1>8, <1>3
  <2>5. \A s \in DOMAIN both : both[s] = IF s = u \/ s = d.symbol THEN d ELSE index[s]
    BY <1>1, <1>2, <1>3, <1>4, <1>5
  <2>6. QED
    BY <2>1, <2>3, <2>4, <2>5, <1>1, <1>5 DEF u
<1>9. QED
  BY <1>7, <1>8

\* A name without its prefix has no prefix to lose.
LEMMA Unqualifying ==
  ASSUME NEW s \in AnySymbol
  PROVE  /\ Unqualified(s) \in AnySymbol
         /\ Unqualified(s).lib = <<>>
         /\ Unqualified(Unqualified(s)) = Unqualified(s)
         /\ s.lib = <<>> => Unqualified(s) = s
<1> DEFINE P == Seq(STRING) \ {<<>>}
           L == Seq(STRING)
<1>1. s \in [lib : L, parts : P] /\ <<>> \in L
  BY DEF AnySymbol
<1>2. Unqualified(s) = [lib |-> <<>>, parts |-> s.parts]
  BY DEF Unqualified, Sym
<1> HIDE DEF P, L
<1>3. s = [lib |-> s.lib, parts |-> s.parts] /\ s.parts \in P
  BY <1>1
<1>4. Unqualified(s) \in [lib : L, parts : P]
  <2> DEFINE p == s.parts
  <2>1. p \in P /\ <<>> \in L
    BY <1>1, <1>3
  <2> HIDE DEF p
  <2>2. [lib |-> <<>>, parts |-> p] \in [lib : L, parts : P]
    BY <2>1
  <2>3. QED
    BY <2>2, <1>2, Zenon DEF p
<1>5. Unqualified(Unqualified(s)) = [lib |-> <<>>, parts |-> s.parts]
  BY <1>2 DEF Unqualified, Sym
<1>6. Unqualified(s).lib = <<>> /\ (s.lib = <<>> => Unqualified(s) = s)
  <2>1. [lib |-> <<>>, parts |-> s.parts].lib = <<>>
    OBVIOUS
  <2>2. s.lib = <<>> => s = [lib |-> <<>>, parts |-> s.parts]
    BY <1>3, Zenon
  <2>3. QED
    BY <2>1, <2>2, <1>2, Zenon
<1>7. QED
  BY <1>2, <1>4, <1>5, <1>6, Zenon DEF AnySymbol, P, L

\* The symbols of defs are symbols.
LEMMA SymbolsAreAny ==
  Symbol \subseteq AnySymbol
BY DEF Symbol, AnySymbol

\* A new Namespace has an index without names.
LEMMA EmptyIndex ==
  ASSUME NEW A, NEW B
  PROVE  NoDefs \in Partial(A, B) /\ NamesDefs(NoDefs) /\ NoneStale(NoDefs)
<1>1. NoDefs \in [{} -> B] /\ DOMAIN NoDefs = {}
  BY DEF NoDefs
<1>2. QED
  BY <1>1, FS_EmptySet DEF Partial, NamesDefs, NoneStale

\* A def that is added leaves every name with a def it names.
LEMMA IndexedNamesDefs ==
  ASSUME NEW B, NEW index \in Partial(AnySymbol, B), NamesDefs(index), NEW d \in B, d.symbol \in AnySymbol
  PROVE  Indexed(index, d) \in Partial(AnySymbol, B) /\ NamesDefs(Indexed(index, d))
<1> DEFINE y == Indexed(index, d)
           u == Unqualified(d.symbol)
<1>1. u \in AnySymbol
  BY Unqualifying
<1>2. /\ y \in Partial(AnySymbol, B)
      /\ DOMAIN y = DOMAIN index \cup {d.symbol, u}
      /\ y[d.symbol] = d
      /\ \A s \in DOMAIN y : s # d.symbol =>
            \/ s \in DOMAIN index /\ y[s] = index[s]
            \/ s = u /\ s \notin DOMAIN index /\ y[s] = d
  BY <1>1, IndexedFacts
<1> HIDE DEF y
<1>3. IsFiniteSet(DOMAIN y)
  <2>1. DOMAIN y = (DOMAIN index \cup {d.symbol}) \cup {u}
    BY <1>2
  <2>2. IsFiniteSet(DOMAIN index \cup {d.symbol})
    BY FS_AddElement DEF NamesDefs
  <2>3. IsFiniteSet((DOMAIN index \cup {d.symbol}) \cup {u})
    BY <2>2, FS_AddElement
  <2>4. QED
    BY <2>1, <2>3
<1>4. ASSUME NEW s \in DOMAIN y
      PROVE  y[s].symbol \in AnySymbol /\ (y[s].symbol = s \/ Unqualified(y[s].symbol) = s)
  BY <1>2, <1>4 DEF NamesDefs
<1>5. QED
  BY <1>2, <1>3, <1>4 DEF NamesDefs, y

\* So does a lib.
LEMMA IndexAfterNamesDefs ==
  ASSUME NEW B, NEW index \in Partial(AnySymbol, B), NamesDefs(index),
         NEW defs, Len(defs) \in Nat, \A i \in 1 .. Len(defs) : defs[i] \in B /\ defs[i].symbol \in AnySymbol
  PROVE  IndexAfter(index, defs) \in Partial(AnySymbol, B) /\ NamesDefs(IndexAfter(index, defs))
<1> DEFINE I == {x \in Partial(AnySymbol, B) : NamesDefs(x)}
<1>1. index \in I
  OBVIOUS
<1>2. \A i \in 1 .. Len(defs) : \A x \in I : Indexed(x, defs[i]) \in I
  BY IndexedNamesDefs
<1>3. IndexAfter(index, defs) \in I
  <2> HIDE DEF I
  <2>1. QED
    BY <1>1, <1>2, IndexAfterIn
<1>4. QED
  BY <1>3

\* If no two defs have one symbol, a def that is added takes no other's place
\* under that symbol, so that none is left under its unqualified name alone.
LEMMA IndexedNoneStale ==
  ASSUME NEW B, \A d, e \in B : d.symbol = e.symbol => d = e,
         NEW index \in Partial(AnySymbol, B), NoneStale(index), NEW d \in B, d.symbol \in AnySymbol
  PROVE  NoneStale(Indexed(index, d))
<1> DEFINE y == Indexed(index, d)
           u == Unqualified(d.symbol)
<1>1. u \in AnySymbol
  BY Unqualifying
<1>2. /\ DOMAIN y = DOMAIN index \cup {d.symbol, u}
      /\ y[d.symbol] = d
      /\ \A s \in DOMAIN y : s # d.symbol =>
            \/ s \in DOMAIN index /\ y[s] = index[s]
            \/ s = u /\ s \notin DOMAIN index /\ y[s] = d
  BY <1>1, IndexedFacts
<1>3. \A s \in DOMAIN index : index[s].symbol = d.symbol => index[s] = d
  BY DEF Partial
<1> HIDE DEF y
<1>4. ASSUME NEW s \in DOMAIN y
      PROVE  y[s].symbol \in DOMAIN y /\ y[y[s].symbol] = y[s]
  <2>1. CASE s \in DOMAIN index /\ y[s] = index[s]
    <3> DEFINE e == index[s].symbol
    <3>1. e \in DOMAIN index /\ index[e] = index[s]
      BY <2>1 DEF NoneStale
    <3>2. CASE e = d.symbol
      BY <3>2, <2>1, <1>3, <1>2
    <3>3. CASE e # d.symbol
      BY <3>1, <3>3, <1>2, <2>1
    <3>4. QED
      BY <3>2, <3>3
  <2>2. CASE y[s] = d
    BY <2>2, <1>2
  <2>3. QED
    BY <2>1, <2>2, <1>2
<1>5. QED
  BY <1>4 DEF NoneStale, y

\* An index built from nothing out of such defs has no stale name.
LEMMA IndexAfterNoneStale ==
  ASSUME NEW defs, Len(defs) \in Nat, \A i \in 1 .. Len(defs) : defs[i].symbol \in AnySymbol,
         \A i, j \in 1 .. Len(defs) : defs[i].symbol = defs[j].symbol => defs[i] = defs[j]
  PROVE  NoneStale(IndexAfter(NoDefs, defs))
<1> DEFINE B == {defs[i] : i \in 1 .. Len(defs)}
           I == {x \in Partial(AnySymbol, B) : NamesDefs(x) /\ NoneStale(x)}
<1>1. \A d, e \in B : d.symbol = e.symbol => d = e
  OBVIOUS
<1>2. \A i \in 1 .. Len(defs) : defs[i] \in B /\ defs[i].symbol \in AnySymbol
  OBVIOUS
<1> HIDE DEF B
<1>3. NoDefs \in I
  BY EmptyIndex
<1>4. \A i \in 1 .. Len(defs) : \A x \in I : Indexed(x, defs[i]) \in I
  <2>1. TAKE i \in 1 .. Len(defs)
  <2>2. TAKE x \in I
  <2>3. Indexed(x, defs[i]) \in Partial(AnySymbol, B) /\ NamesDefs(Indexed(x, defs[i]))
    BY <1>2, IndexedNamesDefs
  <2>4. NoneStale(Indexed(x, defs[i]))
    BY <1>1, <1>2, IndexedNoneStale
  <2>5. QED
    BY <2>3, <2>4
<1>5. IndexAfter(NoDefs, defs) \in I
  <2> HIDE DEF I
  <2>1. QED
    BY <1>3, <1>4, IndexAfterIn
<1>6. QED
  BY <1>5

\* The largest of some positions is one of them.
LEMMA MaxIn ==
  ASSUME NEW N \in Nat, NEW S \in SUBSET (1 .. N), S # {}
  PROVE  Max(S) \in S
<1> DEFINE T == {N - x : x \in S}
<1>1. T \subseteq Nat /\ T # {}
  <2>1. \A x \in S : x \in 1 .. N /\ N - x \in Nat
    OBVIOUS
  <2>2. QED
    BY <2>1
<1>2. PICK m \in T : \A k \in T : ~ (<<k, m>> \in OpToRel(<, Nat))
  <2> HIDE DEF T
  <2>1. QED
    BY <1>1, NatLessThanWellFounded, WFMin
<1>3. PICK x \in S : m = N - x
  OBVIOUS
<1>4. ASSUME NEW y \in S PROVE x >= y
  <2>1. N - y \in T /\ N - y \in Nat /\ m \in Nat
    OBVIOUS
  <2>2. ~ (N - y < m)
    BY <1>2, <2>1 DEF OpToRel
  <2>3. QED
    BY <1>3, <2>1, <2>2
<1>5. QED
  BY <1>4 DEF Max

\* The defs that compile_namespace indexes have their symbols, and two with one
\* symbol are the same def: the latest stands for all.
LEMMA RebuiltFacts ==
  ASSUME NEW defs \in Seq(Def)
  PROVE  /\ Len(Rebuilt(defs)) \in Nat /\ Len(Rebuilt(defs)) = Len(defs)
         /\ \A i \in 1 .. Len(defs) : Rebuilt(defs)[i].symbol \in AnySymbol
         /\ \A i, j \in 1 .. Len(defs) :
               Rebuilt(defs)[i].symbol = Rebuilt(defs)[j].symbol => Rebuilt(defs)[i] = Rebuilt(defs)[j]
<1> DEFINE index == IndexAfter(NoDefs, defs)
           same(d) == {i \in DOMAIN defs : defs[i].symbol = d.symbol}
           latest(d) == defs[Max(same(d))]
           n == Len(defs)
<1>1. Rebuilt(defs) = [i \in DOMAIN defs |-> Taxonified(index, latest(defs[i]))]
  BY DEF Rebuilt
<1>2. DOMAIN defs = 1 .. n /\ n \in Nat /\ \A i \in 1 .. n : defs[i] \in Def
  OBVIOUS
<1>3. ASSUME NEW i \in 1 .. n
      PROVE  latest(defs[i]) \in Def /\ latest(defs[i]).symbol = defs[i].symbol
  <2>1. i \in same(defs[i]) /\ same(defs[i]) \subseteq 1 .. n
    BY <1>2
  <2>2. Max(same(defs[i])) \in same(defs[i])
    <3> HIDE DEF same, n
    <3>1. QED
      BY <1>2, <2>1, MaxIn
  <2>3. QED
    BY <2>2, <1>2
<1>4. ASSUME NEW d \in Def
      PROVE  Taxonified(index, d).symbol = d.symbol
  <2> DEFINE isNew(p) == p \in DOMAIN index /\ p \notin Range(d.is)
             more == d.is \o SelectSeq(ConjunctParts(d.symbol), isNew)
  <2>1. Taxonified(index, d) = IF IsConjunct(d.symbol) THEN [d EXCEPT !.is = more] ELSE d
    BY DEF Taxonified
  <2> HIDE DEF more, index
  <2>2. [d EXCEPT !.is = more].symbol = d.symbol
    BY DEF Def
  <2>3. QED
    BY <2>1, <2>2
<1>5. \A d \in Def : d.symbol \in AnySymbol
  BY SymbolsAreAny DEF Def
<1>6. Len(Rebuilt(defs)) = n
  <2> DEFINE R == {Taxonified(index, latest(defs[i])) : i \in DOMAIN defs}
             r(i) == Taxonified(index, latest(defs[i]))
  <2>1. \A i \in 1 .. n : r(i) \in R
    BY <1>2
  <2> HIDE DEF r, R, n
  <2>2. [i \in 1 .. n |-> r(i)] \in Seq(R) /\ Len([i \in 1 .. n |-> r(i)]) = n
    BY <2>1, <1>2
  <2>3. Rebuilt(defs) = [i \in 1 .. n |-> r(i)]
    BY <1>1, <1>2 DEF r
  <2>4. QED
    BY <2>2, <2>3
<1> HIDE DEF index, n
<1>7. \A i \in 1 .. n : Rebuilt(defs)[i] = Taxonified(index, latest(defs[i]))
  BY <1>1, <1>2
<1>8. \A i \in 1 .. n : Rebuilt(defs)[i].symbol = defs[i].symbol
  <2> HIDE DEF latest
  <2>1. QED
    BY <1>3, <1>4, <1>7
<1>9. \A i, j \in 1 .. n : defs[i].symbol = defs[j].symbol => Rebuilt(defs)[i] = Rebuilt(defs)[j]
  <2>1. \A i, j \in 1 .. n : defs[i].symbol = defs[j].symbol => latest(defs[i]) = latest(defs[j])
    OBVIOUS
  <2> HIDE DEF latest
  <2>2. QED
    BY <1>7, <2>1
<1>10. QED
  BY <1>2, <1>5, <1>6, <1>8, <1>9 DEF n

\* The inductive invariant.  The cache of supertypes is what the walk would give
\* now (FitsIsSubtype needs it: fits reads the cache, is_subtype walks); a name
\* leads to a def it names; what was compiled is valid, and no def of it is reached
\* under its unqualified name only (_validate sees the others only).
OntologyInv ==
    /\ loads \in Nat
    /\ byName \in Partial(AnySymbol, {byName[s] : s \in Names})
    /\ NamesDefs(byName)
    /\ \A s \in DOMAIN supers : supers[s] = Walk(byName, s)
    /\ loads = 0 => Names = {} /\ DOMAIN supers = {}
    /\ compiled => Valid(byName) /\ NoneStale(byName)

\* A new Namespace.
LEMMA InitInv ==
  ASSUME Init PROVE OntologyInv
<1>1. Names = {} /\ DOMAIN supers = {}
  BY DEF Init, NoDefs, Names
<1>2. byName \in Partial(AnySymbol, {byName[s] : s \in Names}) /\ NamesDefs(byName)
  BY EmptyIndex DEF Init
<1>3. QED
  BY <1>1, <1>2 DEF Init, OntologyInv

\* add_lib: the supertypes of the index before are forgotten.
LEMMA AddLibInv ==
  ASSUME OntologyInv, OntologyAssumption, NEW defs \in Libs, AddLib(defs)
  PROVE  OntologyInv'
<1> DEFINE B == {byName[s] : s \in Names} \cup {defs[i] : i \in 1 .. Len(defs)}
<1>1. Len(defs) \in Nat /\ \A i \in 1 .. Len(defs) : defs[i] \in B /\ defs[i].symbol \in AnySymbol
  <2>1. defs \in Seq(Def)
    BY DEF OntologyAssumption
  <2>2. \A i \in 1 .. Len(defs) : defs[i] \in Def
    BY <2>1
  <2>3. QED
    BY <2>1, <2>2, SymbolsAreAny DEF Def
<1>2. byName \in Partial(AnySymbol, B) /\ NamesDefs(byName)
  BY DEF Partial, OntologyInv
<1>3. byName' \in Partial(AnySymbol, B) /\ NamesDefs(byName)'
  <2>1. byName' = IndexAfter(byName, defs)
    BY DEF AddLib
  <2> HIDE DEF B
  <2>2. IndexAfter(byName, defs) \in Partial(AnySymbol, B) /\ NamesDefs(IndexAfter(byName, defs))
    BY <1>1, <1>2, IndexAfterNamesDefs
  <2>3. QED
    BY <2>1, <2>2 DEF NamesDefs
<1>4. byName' \in Partial(AnySymbol, {byName'[s] : s \in DOMAIN byName'})
  <2> HIDE DEF B
  <2>1. QED
    BY <1>3 DEF Partial
<1>5. DOMAIN supers' = {} /\ loads' \in Nat /\ loads' # 0 /\ ~ compiled'
  BY DEF AddLib, SupersAfterLoad, NoDefs, OntologyInv
<1>6. QED
  BY <1>3, <1>4, <1>5 DEF OntologyInv, Names

\* compile_namespace: it starts from an empty namespace.
LEMMA CompileInv ==
  ASSUME OntologyInv, NEW defs \in Seq(Def), NEW libs \in {1, 2}, Compile(defs, libs)
  PROVE  OntologyInv'
<1> DEFINE r == Rebuilt(defs)
           B == {r[i] : i \in 1 .. Len(r)}
<1>1. byName' = IndexAfter(NoDefs, r) /\ Valid(IndexAfter(NoDefs, r))
  BY DEF Compile
<1>2. /\ Len(r) \in Nat /\ \A i \in 1 .. Len(r) : r[i] \in B /\ r[i].symbol \in AnySymbol
      /\ \A i, j \in 1 .. Len(r) : r[i].symbol = r[j].symbol => r[i] = r[j]
  BY RebuiltFacts
<1>3. IndexAfter(NoDefs, r) \in Partial(AnySymbol, B) /\ NamesDefs(IndexAfter(NoDefs, r))
  <2>1. NoDefs \in Partial(AnySymbol, B) /\ NamesDefs(NoDefs)
    BY EmptyIndex
  <2> HIDE DEF B, r
  <2>2. QED
    BY <1>2, <2>1, IndexAfterNamesDefs
<1>4. NoneStale(IndexAfter(NoDefs, r))
  <2> HIDE DEF r
  <2>1. QED
    BY <1>2, IndexAfterNoneStale
<1>5. byName' \in Partial(AnySymbol, {byName'[s] : s \in DOMAIN byName'})
  <2> HIDE DEF B, r
  <2>1. QED
    BY <1>1, <1>3 DEF Partial
<1>6. DOMAIN supers = {} /\ supers' = supers /\ loads' \in Nat /\ loads' # 0
  BY DEF Compile, OntologyInv
<1>7. NamesDefs(byName') /\ NoneStale(byName') /\ Valid(byName')
  <2> HIDE DEF r
  <2>1. QED
    BY <1>1, <1>3, <1>4
<1>8. QED
  <2>1. NamesDefs(byName)' /\ NoneStale(byName)' /\ Valid(byName)'
    BY <1>7 DEF NamesDefs, NoneStale, Valid, AllDefs, HasCycle, Reaches, Visited, Ups
  <2>2. QED
    BY <1>5, <1>6, <2>1 DEF OntologyInv, Names

\* all_supertypes and reflect: what they cache is what they walk.
LEMMA AskInv ==
  ASSUME OntologyInv, NEW symbols, Ask(symbols)
  PROVE  OntologyInv'
<1>1. byName' = byName /\ loads' = loads /\ compiled' = compiled
  BY DEF Ask
<1>2. loads # 0
  BY DEF Ask, OntologyInv
<1>3. \A s \in DOMAIN supers' : supers'[s] = Walk(byName, s)
  BY DEF Ask, OntologyInv, AllSupertypes
<1>4. QED
  BY <1>1, <1>2, <1>3 DEF OntologyInv, Names

\* Every step.
LEMMA StepInv ==
  ASSUME OntologyInv, OntologyAssumption, [Next]_vars
  PROVE  OntologyInv'
<1>1. ASSUME NEW defs \in Libs, AddLib(defs) PROVE OntologyInv'
  BY <1>1, AddLibInv
<1>2. ASSUME NEW first \in Libs, NEW second \in Libs, Compile(first, 1) \/ Compile(first \o second, 2)
      PROVE  OntologyInv'
  <2>1. first \in Seq(Def) /\ second \in Seq(Def)
    BY DEF OntologyAssumption
  <2>2. first \o second \in Seq(Def)
    BY <2>1, ConcatProperties
  <2>3. QED
    BY <1>2, <2>1, <2>2, CompileInv
<1>3. ASSUME NEW symbols, Ask(symbols) PROVE OntologyInv'
  BY <1>3, AskInv
<1>4. CASE UNCHANGED vars
  BY <1>4 DEF vars, OntologyInv, Names
<1>5. QED
  BY <1>1, <1>2, <1>3, <1>4 DEF Next

\* The invariant holds whatever libs are added or compiled, in any order with the
\* questions asked.
THEOREM OntologyInvariant ==
  ASSUME OntologyAssumption
  PROVE  Spec => []OntologyInv
<1>1. QED
  BY InitInv, StepInv, PTL DEF Spec

\* The walk of is_subtype, all_supertypes and _has_cycle is the transitive closure:
\* for every finite index, cyclic or not, it reaches what is in every set that holds
\* the supertypes of s and those of its members.
THEOREM ReachesIsAbove ==
  ASSUME NEW index, NEW s, NEW t, IsFiniteSet(DOMAIN index)
  PROVE  Reaches(index, s, t) <=>
            \A C : Ups(index, {s}) \subseteq C /\ Ups(index, C) \subseteq C => t \in C
<1> DEFINE V == Visited(index, s)
<1>1. s \in V /\ Ups(index, V) \subseteq V
  BY VisitedFacts
<1>2. \A C, D : C \subseteq D => Ups(index, C) \subseteq Ups(index, D)
  BY DEF Ups
<1>3. ASSUME t \in Ups(index, V),
             NEW C, Ups(index, {s}) \subseteq C, Ups(index, C) \subseteq C
      PROVE  t \in C
  <2>1. Ups(index, C \cup {s}) \subseteq C
    BY <1>3 DEF Ups
  <2>2. V \subseteq C \cup {s}
    BY <2>1, VisitedFacts
  <2>3. QED
    BY <1>2, <1>3, <2>1, <2>2
<1>4. ASSUME \A C : Ups(index, {s}) \subseteq C /\ Ups(index, C) \subseteq C => t \in C
      PROVE  t \in Ups(index, V)
  <2> HIDE DEF V
  <2>1. Ups(index, {s}) \subseteq Ups(index, V) /\ Ups(index, Ups(index, V)) \subseteq Ups(index, V)
    BY <1>1, <1>2
  <2>2. QED
    BY <1>4, <2>1
<1>5. QED
  BY <1>3, <1>4 DEF Reaches

\* The defs reflect starts from are those the markers of the entity say.
LEMMA ReflectedIsApplying ==
  ASSUME OntologyInv, OntologyAssumption, NEW markers \in Entities
  PROVE  {d.symbol : d \in Direct(markers)} = Applying(markers)
<1>1. \A m \in markers : m \in AnySymbol /\ m.lib = <<>>
  BY SymbolsAreAny DEF OntologyAssumption
<1>2. ASSUME NEW d \in AllDefs(byName)
      PROVE  d.symbol \in Names /\ byName[d.symbol] = d /\ d.symbol \in AnySymbol
  BY DEF AllDefs, Names, OntologyInv, NamesDefs
<1>3. ASSUME NEW d \in AllDefs(byName)
      PROVE  Range(ConjunctParts(d.symbol)) \subseteq markers <=>
                /\ d.symbol.lib = <<>>
                /\ \A i \in DOMAIN d.symbol.parts : OnePart(<<>>, d.symbol.parts[i]) \in markers
  <2> DEFINE p == d.symbol.parts
             l == d.symbol.lib
             before == IF l = <<>> THEN <<>> ELSE Front(l)
             rest == IF l = <<>> THEN <<>> ELSE <<Last(l)>>
             early == [i \in DOMAIN before |-> OnePart(<<>>, before[i])]
             late == [i \in DOMAIN p |-> OnePart(IF i = 1 THEN rest ELSE <<>>, p[i])]
  <2>1. l \in Seq(STRING) /\ p \in Seq(STRING) /\ p # <<>>
    <3> DEFINE P == Seq(STRING) \ {<<>>}
               L == Seq(STRING)
    <3>1. d.symbol \in [lib : L, parts : P]
      BY <1>2 DEF AnySymbol
    <3>2. p \in P /\ l \in L
      <4> HIDE DEF P, L
      <4>1. QED
        BY <3>1
    <3>3. QED
      BY <3>2
  <2>2. before \in Seq(STRING)
    <3>1. CASE l = <<>>
      BY <3>1
    <3>2. CASE l # <<>>
      <4>1. Len(l) \in Nat /\ Len(l) > 0
        BY <2>1, <3>2, EmptySeq, LenProperties
      <4>2. SubSeq(l, 1, Len(l) - 1) \in Seq(STRING)
        BY <2>1, <4>1, SubSeqProperties
      <4>3. QED
        BY <3>2, <4>2 DEF Front
    <3>3. QED
      BY <3>1, <3>2
  <2>3. ConjunctParts(d.symbol) = early \o late
    BY DEF ConjunctParts
  <2> HIDE DEF p, l, before, rest
  <2>4. /\ late \in Seq(Range(late)) /\ DOMAIN late = DOMAIN p /\ 1 \in DOMAIN p
        /\ early \in Seq(Range(early)) /\ DOMAIN early = DOMAIN before
    <3>1. DOMAIN p = 1 .. Len(p) /\ Len(p) \in Nat /\ Len(p) > 0
      BY <2>1, EmptySeq, LenProperties
    <3>2. DOMAIN before = 1 .. Len(before) /\ Len(before) \in Nat
      BY <2>2, LenProperties
    <3>3. QED
      BY <3>1, <3>2 DEF Range
  <2>5. Range(early \o late) = Range(early) \union Range(late)
    <3> DEFINE S == Range(early) \union Range(late)
    <3> HIDE DEF early, late
    <3>1. early \in Seq(S) /\ late \in Seq(S)
      BY <2>4, SeqMonotonic
    <3> HIDE DEF S
    <3>2. QED
      BY <3>1, RangeConcatenation
  <2>6. CASE l = <<>>
    <3>1. before = <<>> /\ rest = <<>>
      BY <2>6 DEF before, rest
    <3>2. Range(early) = {}
      BY <3>1 DEF Range
    <3>3. \A i \in DOMAIN p : late[i] = OnePart(<<>>, p[i])
      BY <3>1
    <3>4. Range(late) \subseteq markers <=> \A i \in DOMAIN p : OnePart(<<>>, p[i]) \in markers
      <4> HIDE DEF late
      <4>1. QED
        BY <2>4, <3>3 DEF Range
    <3>5. QED
      BY <2>3, <2>5, <2>6, <3>2, <3>4 DEF l, p
  <2>7. CASE l # <<>>
    <3>1. rest # <<>> /\ late[1] = OnePart(rest, p[1])
      BY <2>4, <2>7 DEF rest
    <3>2. late[1] \in Range(late) /\ late[1].lib # <<>>
      <4>1. late[1].lib = rest
        BY <3>1 DEF OnePart, Sym
      <4> HIDE DEF late
      <4>2. QED
        BY <2>4, <3>1, <4>1 DEF Range
    <3>3. QED
      BY <1>1, <2>3, <2>5, <2>7, <3>2 DEF l
  <2>8. QED
    BY <2>6, <2>7
<1>4. \A d \in AllDefs(byName) : d.symbol \in markers => d \in {byName[m] : m \in markers \cap Names}
  BY <1>2
<1> DEFINE Own == {byName[m] : m \in markers \cap Names}
           Conj == {c \in AllDefs(byName) : /\ IsConjunct(c.symbol) /\ c.symbol.lib = <<>>
                            /\ \A i \in DOMAIN c.symbol.parts : OnePart(<<>>, c.symbol.parts[i]) \in markers}
<1>5. FindConjuncts(markers) = {c \in Conj : c.symbol \notin markers}
  BY <1>3 DEF FindConjuncts
<1>6. \A c \in Conj : c \in FindConjuncts(markers) \/ c \in Own
  BY <1>4, <1>5
<1>7. Applying(markers) = {d.symbol : d \in Own} \cup {d.symbol : d \in Conj}
  BY DEF Applying
<1>8. Direct(markers) = Own \cup FindConjuncts(markers)
  BY DEF Direct
<1> HIDE DEF Own, Conj
<1>9. QED
  BY <1>5, <1>6, <1>7, <1>8

\* fits agrees with is_subtype, for every namespace.
THEOREM FitsIsSubtypeAlways ==
  ASSUME OntologyAssumption
  PROVE  Spec => []FitsIsSubtype
<1>1. ASSUME OntologyInv
      PROVE  FitsIsSubtype
  <2> SUFFICES ASSUME NEW markers \in Entities, NEW s \in Names
               PROVE  /\ (\E own \in Applying(markers) : IsSubtype(own, s)) => Fits(markers, s)
                      /\ Fits(markers, s) =>
                            \E own \in Applying(markers) : \E t \in Names \cup {own} :
                               Unqualified(t) = Unqualified(s) /\ IsSubtype(own, t)
    BY DEF FitsIsSubtype
  <2>1. Applying(markers) = {d.symbol : d \in Direct(markers)}
    BY <1>1, ReflectedIsApplying
  <2>2. \A own : AllSupertypes(own) =
            {byName[p] : p \in (Ups(byName, Visited(byName, own)) \cap Names) \ {own}}
    BY <1>1 DEF AllSupertypes, Walk, OntologyInv, Names
  <2>3. \A p \in Names : byName[p].symbol \in AnySymbol
                         /\ (byName[p].symbol = p \/ Unqualified(byName[p].symbol) = p)
    BY <1>1 DEF OntologyInv, NamesDefs, Names
  <2>4. ASSUME NEW own \in Applying(markers), IsSubtype(own, s)
        PROVE  Fits(markers, s)
    <3>1. PICK d \in Direct(markers) : d.symbol = own
      BY <2>1
    <3>2. CASE own = s
      BY <3>1, <3>2 DEF Fits, Reflected
    <3>3. CASE own # s
      <4>1. s \in Ups(byName, Visited(byName, own))
        BY <2>4, <3>3 DEF IsSubtype, Reaches
      <4>2. byName[s] \in AllSupertypes(d.symbol)
        BY <4>1, <3>1, <3>3, <2>2
      <4>3. byName[s] \in Reflected(markers)
        BY <4>2 DEF Reflected
      <4>4. QED
        BY <4>3, <2>3 DEF Fits
    <3>4. QED
      BY <3>2, <3>3
  <2>5. ASSUME Fits(markers, s)
        PROVE  \E own \in Applying(markers) : \E t \in Names \cup {own} :
                  Unqualified(t) = Unqualified(s) /\ IsSubtype(own, t)
    <3>1. PICK d \in Reflected(markers) : d.symbol = s \/ Unqualified(d.symbol) = s
      BY <2>5 DEF Fits
    <3>2. \A t \in AnySymbol : t = s \/ Unqualified(t) = s => Unqualified(t) = Unqualified(s)
      BY Unqualifying
    <3>3. CASE d \in Direct(markers)
      <4>1. d.symbol \in Applying(markers) /\ IsSubtype(d.symbol, d.symbol)
        BY <3>3, <2>1 DEF IsSubtype
      <4>2. d.symbol \in AnySymbol
        BY <3>3, <2>3 DEF Direct, FindConjuncts, AllDefs, Names
      <4>3. QED
        BY <4>1, <4>2, <3>1, <3>2
    <3>4. CASE d \notin Direct(markers)
      <4>1. PICK e \in Direct(markers) : d \in AllSupertypes(e.symbol)
        BY <3>1, <3>4 DEF Reflected
      <4>2. PICK p \in Names : p \in Ups(byName, Visited(byName, e.symbol)) /\ d = byName[p]
        BY <4>1, <2>2
      <4>3. e.symbol \in Applying(markers) /\ IsSubtype(e.symbol, p)
        BY <4>2, <2>1 DEF IsSubtype, Reaches
      <4>4. Unqualified(d.symbol) = Unqualified(s) /\ d.symbol \in AnySymbol
        BY <4>2, <2>3, <3>1, <3>2
      <4>5. Unqualified(p) = Unqualified(d.symbol)
        BY <4>2, <4>4, <2>3, Unqualifying
      <4>6. QED
        BY <4>3, <4>4, <4>5
    <3>5. QED
      BY <3>3, <3>4
  <2>6. QED
    BY <2>4, <2>5
<1>2. QED
  BY <1>1, OntologyInvariant, PTL

\* A compiled namespace knows every supertype it names and has no def above itself,
\* except one with a prefix that others name without it.
THEOREM CompiledIsSoundAlways ==
  ASSUME OntologyAssumption
  PROVE  Spec => []CompiledIsSound
<1>1. ASSUME OntologyInv, compiled
      PROVE  \A s \in Names :
                /\ Parents(s) \subseteq Names
                /\ \A t \in Above(s) : byName[t].symbol = s => s.lib # <<>> /\ t.lib = <<>>
  <2>1. Valid(byName) /\ NoneStale(byName) /\ NamesDefs(byName) /\ IsFiniteSet(DOMAIN byName)
    BY <1>1 DEF OntologyInv, NamesDefs
  <2>2. \A s \in Names : byName[s] \in AllDefs(byName)
    BY <2>1 DEF NoneStale, AllDefs, Names
  <2>3. \A s \in Names : Parents(s) \subseteq Names /\ ~ HasCycle(byName, byName[s].symbol)
    BY <2>1, <2>2 DEF Valid, Parents, Names
  <2>4. ASSUME NEW s \in Names, NEW t \in Above(s), byName[t].symbol = s
        PROVE  s.lib # <<>> /\ t.lib = <<>>
    <3> DEFINE V == Visited(byName, s)
               C == Ups(byName, V) \cap Known
    <3>1. s \in V /\ Ups(byName, V) \subseteq V
      BY <2>1, VisitedFacts
    <3>2. \A c \in V \cap Names : Parents(c) \subseteq Ups(byName, V)
      BY DEF Parents, Ups, Names
    <3>3. \A c \in Names : Parents(c) \subseteq Known
      BY DEF Known
    <3>4. t \in Known /\ \A D \in SUBSET Known :
             Parents(s) \subseteq D /\ (\A c \in D \cap Names : Parents(c) \subseteq D) => t \in D
      BY DEF Above
    <3>5. C \in SUBSET Known
      OBVIOUS
    <3> HIDE DEF V
    <3>6. Parents(s) \subseteq C /\ \A c \in C \cap Names : Parents(c) \subseteq C
      BY <3>1, <3>2, <3>3
    <3>7. t \in Ups(byName, V)
      <4> HIDE DEF C
      <4>1. t \in C
        BY <3>4, <3>5, <3>6
      <4>2. QED
        BY <4>1 DEF C
    <3>8. t \in Names
      BY <2>3, <3>4 DEF Known
    <3>9. t # s
      <4>1. s \notin Ups(byName, V)
        BY <2>1, <2>3, <2>4, <3>8 DEF HasCycle, Reaches, V
      <4>2. QED
        BY <3>7, <4>1
    <3>10. s \in AnySymbol /\ Unqualified(s) = t
      BY <2>1, <2>4, <3>8, <3>9 DEF NamesDefs, Names
    <3>11. QED
      BY <3>9, <3>10, Unqualifying
  <2>5. QED
    BY <2>3, <2>4
<1>2. OntologyInv => CompiledIsSound
  BY <1>1 DEF CompiledIsSound
<1>3. QED
  BY <1>2, OntologyInvariant, PTL
=============================================================================
