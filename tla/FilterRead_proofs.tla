--------------------------- MODULE FilterRead_proofs ---------------------------
(* Proofs about FilterRead for every set of stores, loads, filters and readers. *)
(* What evaluate and the translations make of a filter is proved by induction   *)
(* over its nodes: a least node for which it fails cannot be.                   *)
EXTENDS FilterRead, FiniteSetTheorems, SequenceTheorems, WellFoundedInduction, TLAPS

\* A set of numbers that is not empty has a least one.
LEMMA Least ==
  ASSUME NEW S \in SUBSET Nat, S # {}
  PROVE  \E n \in S : \A m \in S : ~ (m < n)
<1>1. PICK n \in S : \A m \in S : ~ (<<m, n>> \in OpToRel(<, Nat))
  BY NatLessThanWellFounded, WFMin
<1>2. \A m \in S : ~ (m < n)
  BY <1>1 DEF OpToRel
<1>3. QED
  BY <1>2

\* The nodes of a filter: an And or an Or has its operands before it, any other has
\* a path.
LEMMA NodeFacts ==
  ASSUME NEW f, IsFilter(f), NEW i \in DOMAIN f
  PROVE  /\ i \in 1 .. Len(f)
         /\ f[i].kind \in {"has", "missing", "cmp", "and", "or"}
         /\ IsJoin(f[i]) => /\ f[i].left \in 1 .. i - 1 /\ f[i].right \in 1 .. i - 1
                            /\ f[i].left \in DOMAIN f /\ f[i].right \in DOMAIN f
         /\ ~ IsJoin(f[i]) => f[i].path \in TagPath
         /\ f[i].kind = "cmp" => /\ f[i].op \in {"==", "!=", "<", "<=", ">", ">="}
                                 /\ f[i].val \in Compare
<1> DEFINE P == TagPath
           C == Compare
<1>1. i \in 1 .. Len(f) /\ Len(f) \in Nat /\ f[i] \in NodeAt(i) /\ DOMAIN f = 1 .. Len(f)
  BY DEF IsFilter
<1>2. f[i] \in [kind : {"has", "missing"}, path : P]
      \/ f[i] \in [kind : {"cmp"}, path : P, op : {"==", "!=", "<", "<=", ">", ">="}, val : C]
      \/ f[i] \in [kind : {"and", "or"}, left : 1 .. i - 1, right : 1 .. i - 1]
  BY <1>1 DEF NodeAt
<1> HIDE DEF P, C
<1>3. \A n \in 1 .. i - 1 : n \in DOMAIN f
  BY <1>1
<1>4. CASE f[i] \in [kind : {"has", "missing"}, path : P]
  <2>1. f[i].kind \in {"has", "missing"} /\ f[i].path \in P
    BY <1>4
  <2>2. QED
    BY <2>1, <1>1 DEF IsJoin, P
<1>5. CASE f[i] \in [kind : {"cmp"}, path : P, op : {"==", "!=", "<", "<=", ">", ">="}, val : C]
  <2>1. /\ f[i].kind = "cmp" /\ f[i].path \in P /\ f[i].val \in C
        /\ f[i].op \in {"==", "!=", "<", "<=", ">", ">="}
    BY <1>5
  <2>2. QED
    BY <2>1, <1>1 DEF IsJoin, P, C
<1>6. CASE f[i] \in [kind : {"and", "or"}, left : 1 .. i - 1, right : 1 .. i - 1]
  <2>1. f[i].kind \in {"and", "or"} /\ f[i].left \in 1 .. i - 1 /\ f[i].right \in 1 .. i - 1
    BY <1>6
  <2>2. QED
    BY <2>1, <1>1, <1>3 DEF IsJoin
<1>7. QED
  BY <1>2, <1>4, <1>5, <1>6

\* Induction over the nodes of a filter, from the leaves up: what holds of a node
\* if it holds of its operands, holds of all.
LEMMA FromLeavesUp ==
  ASSUME NEW f, IsFilter(f), NEW S,
         \A i \in DOMAIN f : (IsJoin(f[i]) => f[i].left \in S /\ f[i].right \in S) => i \in S
  PROVE  DOMAIN f \subseteq S
<1> DEFINE T == DOMAIN f \ S
<1>1. SUFFICES ASSUME T # {} PROVE FALSE
  OBVIOUS
<1>2. T \subseteq Nat
  BY DEF IsFilter
<1>3. PICK n \in T : \A m \in T : ~ (m < n)
  <2> HIDE DEF T
  <2>1. QED
    BY <1>1, <1>2, Least
<1>4. IsJoin(f[n]) /\ ~ (f[n].left \in S /\ f[n].right \in S)
  OBVIOUS
<1>5. /\ f[n].left \in DOMAIN f /\ f[n].left < n
      /\ f[n].right \in DOMAIN f /\ f[n].right < n
  BY <1>4, <1>2, NodeFacts
<1>6. QED
  BY <1>3, <1>4, <1>5

\* v gives each node of f its result, the leaves theirs by leaf.
IsResult(f, leaf, join, v) ==
    \A i \in DOMAIN f :
        v[i] = IF IsJoin(f[i]) THEN join[i][<<v[f[i].left], v[f[i].right]>>] ELSE leaf[i]

\* An analysis that stays in V has a result for every node: the CHOOSE that stands
\* for the recursion in FromLeaves has something to choose.
LEMMA ResultExists ==
  ASSUME NEW f, IsFilter(f), NEW V, NEW leaf, NEW join,
         \A i \in DOMAIN f : ~ IsJoin(f[i]) => leaf[i] \in V,
         join \in [DOMAIN f -> [V \X V -> V]]
  PROVE  \E v \in [DOMAIN f -> V] : IsResult(f, leaf, join, v)
<1> DEFINE N == Len(f)
           Good(v, k) == \A i \in 1 .. k : v[i] =
              IF IsJoin(f[i]) THEN join[i][<<v[f[i].left], v[f[i].right]>>] ELSE leaf[i]
           Bad == {k \in 0 .. N : ~ \E v \in [1 .. k -> V] : Good(v, k)}
<1>1. N \in Nat /\ DOMAIN f = 1 .. N
  BY DEF IsFilter
<1>2. Bad = {}
  <2>1. SUFFICES ASSUME Bad # {} PROVE FALSE
    OBVIOUS
  <2>2. PICK k \in Bad : \A m \in Bad : ~ (m < k)
    <3>1. Bad \subseteq Nat
      BY <1>1
    <3> HIDE DEF Bad
    <3>2. QED
      BY <2>1, <3>1, Least
  <2>3. k \in 0 .. N
    OBVIOUS
  <2>4. k # 0
    <3>1. [i \in 1 .. 0 |-> 0] \in [1 .. 0 -> V]
      OBVIOUS
    <3>2. Good([i \in 1 .. 0 |-> 0], 0)
      OBVIOUS
    <3> HIDE DEF Good
    <3>3. QED
      BY <3>1, <3>2, <2>3
  <2>5. k - 1 \in 0 .. N /\ k - 1 < k /\ k \in 1 .. N
    BY <2>3, <2>4, <1>1
  <2>6. PICK v \in [1 .. k - 1 -> V] : Good(v, k - 1)
    BY <2>2, <2>5
  <2> DEFINE last == IF IsJoin(f[k]) THEN join[k][<<v[f[k].left], v[f[k].right]>>] ELSE leaf[k]
             w == [i \in 1 .. k |-> IF i = k THEN last ELSE v[i]]
  <2>7. last \in V
    <3>1. k \in DOMAIN f
      BY <2>5, <1>1
    <3>2. CASE IsJoin(f[k])
      <4>1. f[k].left \in 1 .. k - 1 /\ f[k].right \in 1 .. k - 1
        BY <3>1, <3>2, NodeFacts
      <4>2. v[f[k].left] \in V /\ v[f[k].right] \in V
        BY <4>1, <2>6
      <4>3. join[k] \in [V \X V -> V]
        BY <3>1
      <4>4. QED
        BY <4>2, <4>3, <3>2
    <3>3. CASE ~ IsJoin(f[k])
      BY <3>1, <3>3
    <3>4. QED
      BY <3>2, <3>3
  <2>8. w \in [1 .. k -> V]
    <3> HIDE DEF last
    <3>1. QED
      BY <2>6, <2>7, <2>5
  <2>9. Good(w, k)
    <3> SUFFICES ASSUME NEW i \in 1 .. k
                 PROVE  w[i] = IF IsJoin(f[i]) THEN join[i][<<w[f[i].left], w[f[i].right]>>] ELSE leaf[i]
      OBVIOUS
    <3>1. i \in DOMAIN f /\ i \in 1 .. N
      BY <2>5, <1>1
    <3>2. IsJoin(f[i]) => f[i].left \in 1 .. k - 1 /\ f[i].right \in 1 .. k - 1
      <4>1. IsJoin(f[i]) => f[i].left \in 1 .. i - 1 /\ f[i].right \in 1 .. i - 1
        BY <3>1, NodeFacts
      <4>2. QED
        BY <4>1, <2>5, <1>1
    <3>3. \A j \in 1 .. k - 1 : w[j] = v[j]
      BY <2>5
    <3>4. CASE i = k
      <4>1. w[i] = last
        BY <3>4, <2>5
      <4> HIDE DEF w
      <4>2. QED
        BY <4>1, <3>2, <3>3, <3>4
    <3>5. CASE i # k
      <4>1. i \in 1 .. k - 1
        BY <3>5, <2>5
      <4> HIDE DEF w
      <4>2. QED
        BY <4>1, <3>2, <3>3, <2>6
    <3>6. QED
      BY <3>4, <3>5
  <2>10. k \notin Bad
    <3> HIDE DEF w, Good
    <3>1. QED
      BY <2>8, <2>9
  <2>11. QED
    BY <2>2, <2>10
<1>3. N \in 0 .. N
  BY <1>1
<1>4. PICK v \in [1 .. N -> V] : Good(v, N)
  <2> HIDE DEF Good
  <2>1. QED
    BY <1>2, <1>3
<1>5. QED
  BY <1>1, <1>4 DEF IsResult

\* A leaf matches or does not.
LEMMA LeafIsBoolean ==
  ASSUME NEW f, IsFilter(f), NEW i \in DOMAIN f, ~ IsJoin(f[i]), NEW dict, NEW known
  PROVE  LeafMatches(f[i], dict, known) \in BOOLEAN
<1>1. f[i].kind = "cmp" => f[i].op \in {"==", "!=", "<", "<=", ">", ">="}
  BY NodeFacts
<1>2. f[i].kind \in {"has", "missing", "cmp"}
  BY NodeFacts DEF IsJoin
<1>3. QED
  BY <1>1, <1>2 DEF LeafMatches, Compared, Equal, Ordered, TextOrdered

\* m says of each node of f whether it matches.
MatchTable(f, dict, known, m) ==
    \A i \in DOMAIN f :
        m[i] = IF IsJoin(f[i])
               THEN IF f[i].kind = "and" THEN m[f[i].left] /\ m[f[i].right] ELSE m[f[i].left] \/ m[f[i].right]
               ELSE LeafMatches(f[i], dict, known)

\* evaluate: what it says of a filter is what it says of the root, node by node.
LEMMA MatchesIs ==
  ASSUME NEW f, IsFilter(f), NEW dict, NEW known
  PROVE  \E m \in [DOMAIN f -> BOOLEAN] : MatchTable(f, dict, known, m) /\ Matches(f, dict, known) = m[Len(f)]
<1> DEFINE leaf == [i \in DOMAIN f |-> LeafMatches(f[i], dict, known)]
           join == [i \in DOMAIN f |-> [p \in BOOLEAN \X BOOLEAN |->
                       IF f[i].kind = "and" THEN p[1] /\ p[2] ELSE p[1] \/ p[2]]]
           Table(m) == m = [i \in DOMAIN f |->
               IF IsJoin(f[i])
               THEN IF f[i].kind = "and" THEN m[f[i].left] /\ m[f[i].right] ELSE m[f[i].left] \/ m[f[i].right]
               ELSE LeafMatches(f[i], dict, known)]
<1>1. PICK v \in [DOMAIN f -> BOOLEAN] : IsResult(f, leaf, join, v)
  <2>1. \A i \in DOMAIN f : ~ IsJoin(f[i]) => leaf[i] \in BOOLEAN
    BY LeafIsBoolean
  <2>2. join \in [DOMAIN f -> [BOOLEAN \X BOOLEAN -> BOOLEAN]]
    OBVIOUS
  <2> HIDE DEF leaf, join
  <2>3. QED
    BY <2>1, <2>2, ResultExists
<1>2. Table(v)
  <2>1. \A i \in DOMAIN f : IsJoin(f[i]) => v[f[i].left] \in BOOLEAN /\ v[f[i].right] \in BOOLEAN
    BY NodeFacts
  <2>2. QED
    BY <1>1, <2>1 DEF IsResult
<1> DEFINE m == CHOOSE h : Table(h)
<1>3. Table(m)
  BY <1>2
<1>4. Matches(f, dict, known) = m[Len(f)]
  BY Zenon DEF Matches, FromLeaves
<1>5. MatchTable(f, dict, known, m)
  <2> HIDE DEF m
  <2>1. QED
    BY <1>3 DEF MatchTable
<1>6. m \in [DOMAIN f -> BOOLEAN]
  <2> DEFINE S == {i \in DOMAIN f : m[i] \in BOOLEAN}
  <2> HIDE DEF m
  <2>1. \A i \in DOMAIN f : (IsJoin(f[i]) => f[i].left \in S /\ f[i].right \in S) => i \in S
    BY <1>5, LeafIsBoolean DEF MatchTable
  <2>2. DOMAIN f \subseteq S
    <3> HIDE DEF S
    <3>1. QED
      BY <2>1, FromLeavesUp
  <2>3. QED
    BY <1>3, <2>2
<1>7. QED
  BY <1>4, <1>5, <1>6

\* s says of each node of f what its SQL clause may give for a row.
SqlTable(f, dict, s) ==
    \A i \in DOMAIN f :
        s[i] = IF IsJoin(f[i])
               THEN SqlJoins(f[i].kind, s[f[i].left], s[f[i].right])
               ELSE SqlLeaf(f[i], dict)

\* _ast_to_sql, node by node.
LEMMA SqlRowIs ==
  ASSUME NEW f, IsFilter(f), NEW dict
  PROVE  \E s : SqlTable(f, dict, s) /\ SqlRow(f, dict) = s[Len(f)]
<1> DEFINE leaf == [i \in DOMAIN f |-> SqlLeaf(f[i], dict)]
           V == SUBSET Outcome
           joined(i, ls, rs) == SqlJoins(f[i].kind, ls, rs)
           join == [i \in DOMAIN f |-> [p \in V \X V |-> joined(i, p[1], p[2])]]
           Table(s) == s = [i \in DOMAIN f |->
               IF IsJoin(f[i])
               THEN SqlJoins(f[i].kind, s[f[i].left], s[f[i].right])
               ELSE SqlLeaf(f[i], dict)]
<1>1. PICK v \in [DOMAIN f -> V] : IsResult(f, leaf, join, v)
  <2>1. \A i \in DOMAIN f : ~ IsJoin(f[i]) => leaf[i] \in V
    BY DEF SqlLeaf, SqlComparison, YesNo, Outcome
  <2>2. ASSUME NEW i \in DOMAIN f, NEW ls \in V, NEW rs \in V
        PROVE  joined(i, ls, rs) \in V
    BY DEF SqlJoins
  <2>3. join \in [DOMAIN f -> [V \X V -> V]]
    <3> HIDE DEF joined, V
    <3>1. QED
      BY <2>2
  <2> HIDE DEF leaf, join, V
  <2>4. QED
    BY <2>1, <2>3, ResultExists
<1>2. Table(v)
  <2>1. \A i \in DOMAIN f : IsJoin(f[i]) => v[f[i].left] \in V /\ v[f[i].right] \in V
    BY NodeFacts
  <2>2. \A i \in DOMAIN f : v[i] = IF IsJoin(f[i]) THEN joined(i, v[f[i].left], v[f[i].right])
                                   ELSE SqlLeaf(f[i], dict)
    <3> HIDE DEF joined, V
    <3>1. QED
      BY <1>1, <2>1 DEF IsResult
  <2>3. v = [i \in DOMAIN f |-> v[i]]
    OBVIOUS
  <2>4. QED
    BY <2>2, <2>3, Zenon
<1> DEFINE s == CHOOSE h : Table(h)
<1>3. Table(s)
  BY <1>2
<1>4. SqlRow(f, dict) = s[Len(f)]
  BY Zenon DEF SqlRow, FromLeaves
<1>5. SqlTable(f, dict, s)
  <2> HIDE DEF s
  <2>1. QED
    BY <1>3 DEF SqlTable
<1>6. QED
  BY <1>4, <1>5

\* a has the alternatives of each node of f outside of parentheses.
FtTable(f, dict, a) ==
    \A i \in DOMAIN f :
        a[i] = IF IsJoin(f[i])
               THEN IF f[i].kind = "and" THEN <<SomeOf(Juxtaposed(a[f[i].left], a[f[i].right]))>>
                    ELSE <<SomeOf(a[f[i].left]), SomeOf(a[f[i].right])>>
               ELSE <<FtLeaf(f[i], dict)>>

\* _build_ft_query, node by node.
LEMMA FtAlternativesIs ==
  ASSUME NEW f, IsFilter(f), NEW dict
  PROVE  \E a : FtTable(f, dict, a) /\ FtAlternatives(f, dict) = a[Len(f)]
<1> DEFINE V == {<<b>> : b \in BOOLEAN} \cup (BOOLEAN \X BOOLEAN)
           joined(i, l, r) == IF f[i].kind = "and" THEN <<SomeOf(Juxtaposed(l, r))>>
                              ELSE <<SomeOf(l), SomeOf(r)>>
           leaf == [i \in DOMAIN f |-> <<FtLeaf(f[i], dict)>>]
           join == [i \in DOMAIN f |-> [p \in V \X V |-> joined(i, p[1], p[2])]]
           Table(a) == a = [i \in DOMAIN f |->
               IF IsJoin(f[i])
               THEN IF f[i].kind = "and" THEN <<SomeOf(Juxtaposed(a[f[i].left], a[f[i].right]))>>
                    ELSE <<SomeOf(a[f[i].left]), SomeOf(a[f[i].right])>>
               ELSE <<FtLeaf(f[i], dict)>>]
<1>1. PICK v \in [DOMAIN f -> V] : IsResult(f, leaf, join, v)
  <2>1. \A i \in DOMAIN f : ~ IsJoin(f[i]) => leaf[i] \in V
    <3> SUFFICES ASSUME NEW i \in DOMAIN f, ~ IsJoin(f[i]) PROVE leaf[i] \in V
      OBVIOUS
    <3>1. FtLeaf(f[i], dict) \in BOOLEAN
      BY DEF FtLeaf
    <3>2. QED
      BY <3>1
  <2>2. \A x : SomeOf(x) \in BOOLEAN
    BY DEF SomeOf
  <2>3. ASSUME NEW i \in DOMAIN f, NEW l \in V, NEW r \in V
        PROVE  joined(i, l, r) \in V
    <3>1. \A b, c \in BOOLEAN : <<b>> \in V /\ <<b, c>> \in V
      OBVIOUS
    <3> DEFINE both == SomeOf(Juxtaposed(l, r))
               one == SomeOf(l)
               other == SomeOf(r)
    <3>2. both \in BOOLEAN /\ one \in BOOLEAN /\ other \in BOOLEAN
      BY <2>2
    <3> HIDE DEF V, both, one, other
    <3>3. <<both>> \in V /\ <<one, other>> \in V
      BY <3>1, <3>2
    <3>4. QED
      BY <3>3, Zenon DEF both, one, other
  <2>4. join \in [DOMAIN f -> [V \X V -> V]]
    <3> HIDE DEF joined, V
    <3>1. QED
      BY <2>3
  <2> HIDE DEF leaf, join, V
  <2>5. QED
    BY <2>1, <2>4, ResultExists
<1>2. Table(v)
  <2> HIDE DEF V
  <2>1. \A i \in DOMAIN f : IsJoin(f[i]) => v[f[i].left] \in V /\ v[f[i].right] \in V
    BY NodeFacts
  <2>2. \A i \in DOMAIN f : v[i] = IF IsJoin(f[i]) THEN joined(i, v[f[i].left], v[f[i].right])
                                   ELSE <<FtLeaf(f[i], dict)>>
    <3> HIDE DEF joined
    <3>1. QED
      BY <1>1, <2>1 DEF IsResult
  <2>3. v = [i \in DOMAIN f |-> v[i]]
    OBVIOUS
  <2>4. QED
    BY <2>2, <2>3, Zenon
<1> DEFINE a == CHOOSE h : Table(h)
<1>3. Table(a)
  BY <1>2
<1>4. FtAlternatives(f, dict) = a[Len(f)]
  BY Zenon DEF FtAlternatives, FromLeaves
<1>5. FtTable(f, dict, a)
  <2> HIDE DEF a
  <2>1. QED
    BY <1>3 DEF FtTable
<1>6. QED
  BY <1>4, <1>5

\* h has the tags each node of f asks for.
TagTable(f, h) ==
    \A i \in DOMAIN f :
        h[i] = IF IsJoin(f[i]) THEN IF f[i].kind = "and" THEN h[f[i].left] \cup h[f[i].right] ELSE {}
               ELSE LeafTags(f[i])

\* _extract_has_tags, node by node.
LEMMA HasTagsIs ==
  ASSUME NEW f, IsFilter(f)
  PROVE  \E h : TagTable(f, h) /\ HasTags(f) = h[Len(f)]
<1> DEFINE V == SUBSET UNION {LeafTags(f[i]) : i \in DOMAIN f}
           joined(i, l, r) == IF f[i].kind = "and" THEN l \cup r ELSE {}
           leaf == [i \in DOMAIN f |-> LeafTags(f[i])]
           join == [i \in DOMAIN f |-> [p \in V \X V |-> joined(i, p[1], p[2])]]
           Table(h) == h = [i \in DOMAIN f |->
               IF IsJoin(f[i]) THEN IF f[i].kind = "and" THEN h[f[i].left] \cup h[f[i].right] ELSE {}
               ELSE LeafTags(f[i])]
<1>1. PICK v \in [DOMAIN f -> V] : IsResult(f, leaf, join, v)
  <2>1. \A i \in DOMAIN f : ~ IsJoin(f[i]) => leaf[i] \in V
    OBVIOUS
  <2>2. ASSUME NEW i \in DOMAIN f, NEW l \in V, NEW r \in V
        PROVE  joined(i, l, r) \in V
    OBVIOUS
  <2>3. join \in [DOMAIN f -> [V \X V -> V]]
    <3> HIDE DEF joined, V
    <3>1. QED
      BY <2>2
  <2> HIDE DEF leaf, join, V
  <2>4. QED
    BY <2>1, <2>3, ResultExists
<1>2. Table(v)
  <2> HIDE DEF V
  <2>1. \A i \in DOMAIN f : IsJoin(f[i]) => v[f[i].left] \in V /\ v[f[i].right] \in V
    BY NodeFacts
  <2>2. \A i \in DOMAIN f : v[i] = IF IsJoin(f[i]) THEN joined(i, v[f[i].left], v[f[i].right])
                                   ELSE LeafTags(f[i])
    <3> HIDE DEF joined
    <3>1. QED
      BY <1>1, <2>1 DEF IsResult
  <2>3. v = [i \in DOMAIN f |-> v[i]]
    OBVIOUS
  <2>4. QED
    BY <2>2, <2>3, Zenon
<1> DEFINE h == CHOOSE g : Table(g)
<1>3. Table(h)
  BY <1>2
<1>4. HasTags(f) = h[Len(f)]
  BY Zenon DEF HasTags, FromLeaves
<1>5. TagTable(f, h)
  <2> HIDE DEF h
  <2>1. QED
    BY <1>3 DEF TagTable
<1>6. QED
  BY <1>4, <1>5

\* A path of one name asks for a tag of the entity itself.
LEMMA SimpleTag ==
  ASSUME NEW path \in TagPath, Len(path) = 1, NEW dict, NEW known
  PROVE  TagAt(path, dict, known) = IF Head(path) \in DOMAIN dict THEN dict[Head(path)] ELSE Gone
<1>1. DOMAIN path = 1 .. 1 /\ path[1] = Head(path)
  <2>1. path \in Seq(STRING) /\ path # <<>>
    BY DEF TagPath
  <2>2. QED
    BY <2>1
<1> DEFINE Table(c) == c = [i \in DOMAIN path |->
               IF i = 1 THEN dict
               ELSE IF path[i - 1] \in DOMAIN c[i - 1] THEN Resolved(c[i - 1][path[i - 1]], known) ELSE NoTags]
           c0 == [i \in DOMAIN path |-> dict]
           current == CHOOSE c : Table(c)
<1>2. Table(c0)
  <2>1. \A i \in DOMAIN path : i = 1
    BY <1>1
  <2>2. QED
    BY <2>1
<1>3. Table(current)
  BY <1>2
<1>4. current[1] = dict
  <2> HIDE DEF current
  <2>1. QED
    BY <1>1, <1>3
<1>5. TagAt(path, dict, known) =
         IF path[Len(path)] \in DOMAIN current[Len(path)] THEN current[Len(path)][path[Len(path)]] ELSE Gone
  BY Zenon DEF TagAt
<1> HIDE DEF current
<1>6. QED
  BY <1>1, <1>4, <1>5

\* A node that joins nothing is a leaf.
LEMMA LeafFacts ==
  ASSUME NEW f, IsFilter(f), NEW i \in DOMAIN f, ~ IsJoin(f[i])
  PROVE  /\ f[i] \in Leaves(f)
         /\ f[i].kind \in {"has", "missing", "cmp"}
         /\ f[i].kind = "cmp" => f[i] \in Comparisons(f)
BY NodeFacts DEF Leaves, Joins, Nodes, Comparisons, IsJoin

\* A filter whose paths have one name each needs no resolver.
LEMMA AnyResolver ==
  ASSUME NEW f, IsFilter(f), \A leaf \in Leaves(f) : Simple(leaf), NEW dict, NEW k1, NEW k2
  PROVE  Matches(f, dict, k1) = Matches(f, dict, k2)
<1>1. PICK m1 \in [DOMAIN f -> BOOLEAN] : MatchTable(f, dict, k1, m1) /\ Matches(f, dict, k1) = m1[Len(f)]
  BY MatchesIs
<1>2. PICK m2 \in [DOMAIN f -> BOOLEAN] : MatchTable(f, dict, k2, m2) /\ Matches(f, dict, k2) = m2[Len(f)]
  BY MatchesIs
<1> DEFINE S == {i \in DOMAIN f : m1[i] = m2[i]}
<1>3. ASSUME NEW i \in DOMAIN f, IsJoin(f[i]) => f[i].left \in S /\ f[i].right \in S
      PROVE  i \in S
  <2>1. CASE IsJoin(f[i])
    BY <1>1, <1>2, <1>3, <2>1 DEF MatchTable
  <2>2. CASE ~ IsJoin(f[i])
    <3>1. f[i].path \in TagPath /\ Len(f[i].path) = 1
      BY <2>2, NodeFacts, LeafFacts DEF Simple
    <3>2. TagAt(f[i].path, dict, k1) = TagAt(f[i].path, dict, k2)
      BY <3>1, SimpleTag
    <3>3. LeafMatches(f[i], dict, k1) = LeafMatches(f[i], dict, k2)
      BY <3>2, Zenon DEF LeafMatches
    <3>4. QED
      BY <3>3, <2>2, <1>1, <1>2 DEF MatchTable
  <2>3. QED
    BY <2>1, <2>2
<1>4. Len(f) \in S
  <2> HIDE DEF S
  <2>1. DOMAIN f \subseteq S
    BY <1>3, FromLeavesUp
  <2>2. QED
    BY <2>1 DEF IsFilter
<1>5. QED
  BY <1>1, <1>2, <1>4

\* The shape of the values a tag may have.
LEMMA ValueFacts ==
  ASSUME NEW v \in Value
  PROVE  /\ v # Gone
         /\ v[1] \in {"marker", "str", "ref", "num"}
         /\ v[1] \in {"str", "ref"} => v = <<v[1], v[2]>>
         /\ v[1] = "num" => v = <<"num", v[2], v[3], v[4]>> /\ v[2] \in Int /\ v[4] \in Form
<1>1. CASE v = Marker
  BY <1>1 DEF Marker, Gone
<1>2. CASE v \in {"str", "ref"} \X STRING
  <2>1. v = <<v[1], v[2]>> /\ v[1] \in {"str", "ref"}
    BY <1>2
  <2>2. QED
    BY <2>1 DEF Gone
<1>3. CASE v \in {"num"} \X Int \X STRING \X Form
  <2>1. v = <<v[1], v[2], v[3], v[4]>> /\ v[1] = "num" /\ v[2] \in Int /\ v[4] \in Form
    BY <1>3
  <2>2. QED
    BY <2>1 DEF Gone
<1>4. QED
  BY <1>1, <1>2, <1>3 DEF Value, Compare

\* A clause of _ast_to_sql whose two sides are alike gives what evaluate says, and
\* no cast of it fails.
LEMMA SqlLeafIsMatch ==
  ASSUME NEW f, IsFilter(f), Translates(f), NEW i \in DOMAIN f, ~ IsJoin(f[i]),
         NEW dict, \A tag \in DOMAIN dict : dict[tag] \in Value,
         f[i].kind = "cmp" => Alike(dict, f[i]), NEW known
  PROVE  SqlLeaf(f[i], dict) = YesNo(LeafMatches(f[i], dict, known))
<1> DEFINE leaf == f[i]
           tag == Head(leaf.path)
           x == dict[tag]
           val == leaf.val
<1>1. /\ leaf.kind \in {"has", "missing", "cmp"} /\ leaf.path \in TagPath /\ Len(leaf.path) = 1
      /\ leaf.kind = "cmp" => leaf.op \in {"==", "!="} \/ val[1] = "num"
  BY NodeFacts, LeafFacts DEF Translates, Simple
<1>2. TagAt(leaf.path, dict, known) = IF tag \in DOMAIN dict THEN x ELSE Gone
  BY <1>1, SimpleTag
<1>3. tag \in DOMAIN dict => x \in Value
  OBVIOUS
<1>4. leaf.kind = "cmp" => leaf.op \in {"==", "!=", "<", "<=", ">", ">="} /\ val \in Value
  BY NodeFacts DEF Value
<1>5. leaf.kind = "cmp" =>
        /\ Plain(val)
        /\ tag \in DOMAIN dict =>
             /\ Plain(x) /\ x[1] = val[1]
             /\ x[1] = "num" /\ x[2] = val[2] /\ leaf.op \in {"==", "!="} => JsonText(x) = Parameter(val)
  BY DEF Alike
<1> HIDE DEF leaf, x, val
<1>6. tag \in DOMAIN dict => x # Gone
  BY <1>3, ValueFacts
<1>7. CASE leaf.kind # "cmp"
  <2>1. CASE leaf.kind = "has"
    <3>1. SqlLeaf(leaf, dict) = YesNo(tag \in DOMAIN dict)
      BY <2>1 DEF SqlLeaf
    <3>2. LeafMatches(leaf, dict, known) <=> tag \in DOMAIN dict
      BY <1>2, <1>6, <2>1 DEF LeafMatches
    <3>3. QED
      BY <3>1, <3>2 DEF YesNo, leaf
  <2>2. CASE leaf.kind = "missing"
    <3>1. SqlLeaf(leaf, dict) = YesNo(tag \notin DOMAIN dict)
      BY <2>2 DEF SqlLeaf
    <3>2. LeafMatches(leaf, dict, known) <=> tag \notin DOMAIN dict
      BY <1>2, <1>6, <2>2 DEF LeafMatches
    <3>3. QED
      BY <3>1, <3>2 DEF YesNo, leaf
  <2>3. QED
    BY <1>1, <1>7, <2>1, <2>2
<1>8. CASE leaf.kind = "cmp" /\ tag \notin DOMAIN dict
  <2>1. SqlLeaf(leaf, dict) = {"no"}
    BY <1>8 DEF SqlLeaf, SqlComparison
  <2>2. ~ LeafMatches(leaf, dict, known)
    BY <1>2, <1>8 DEF LeafMatches
  <2>3. QED
    BY <2>1, <2>2 DEF YesNo, leaf
<1>9. CASE leaf.kind = "cmp" /\ tag \in DOMAIN dict
  <2>1. /\ x \in Value /\ val \in Value /\ x # Gone /\ Plain(x) /\ Plain(val) /\ x[1] = val[1]
        /\ leaf.op \in {"==", "!=", "<", "<=", ">", ">="}
    BY <1>3, <1>4, <1>5, <1>6, <1>9
  <2>2. leaf.op \in {"==", "!="} => (JsonText(x) = Parameter(val) <=> Equal(x, val))
    <3>1. CASE x[1] = "str"
      <4>1. x = <<"str", x[2]>> /\ val = <<"str", val[2]>>
        BY <2>1, <3>1, ValueFacts
      <4>2. JsonText(x) = <<"str", x[2]>> /\ Parameter(val) = <<"str", val[2]>>
        BY <2>1, <3>1 DEF JsonText, Parameter
      <4>3. Equal(x, val) <=> x = val
        BY <3>1 DEF Equal
      <4>4. QED
        BY <4>1, <4>2, <4>3
    <3>2. CASE x[1] = "num"
      <4>1. x[3] = "" /\ val[3] = "" /\ val[1] = "num"
        BY <2>1, <3>2 DEF Plain
      <4>2. JsonText(x)[2] = x[2] /\ Parameter(val)[2] = val[2]
        BY <3>2, <4>1 DEF JsonText, Parameter
      <4>3. Equal(x, val) <=> x[2] = val[2]
        BY <3>2, <4>1 DEF Equal
      <4>4. QED
        BY <1>5, <1>9, <3>2, <4>2, <4>3
    <3>3. QED
      BY <2>1, <3>1, <3>2 DEF Plain
  <2>4. SqlLeaf(leaf, dict) = SqlComparison(leaf, dict)
    BY <1>9 DEF SqlLeaf
  <2>5. LeafMatches(leaf, dict, known) <=> Compared(x, leaf.op, val)
    BY <1>2, <1>9, <2>1 DEF LeafMatches, val
  <2>6. CASE leaf.op \in {"==", "!="}
    <3>1. SqlComparison(leaf, dict) = YesNo((JsonText(x) = Parameter(val)) <=> (leaf.op = "=="))
      BY <1>9, <2>6, Zenon DEF SqlComparison, x, val
    <3>2. (JsonText(x) = Parameter(val)) <=> Equal(x, val)
      BY <2>2, <2>6
    <3>3. Compared(x, leaf.op, val) <=> (Equal(x, val) <=> leaf.op = "==")
      BY <2>6 DEF Compared, Equal
    <3>4. QED
      BY <2>4, <2>5, <3>1, <3>2, <3>3 DEF YesNo, leaf
  <2>7. CASE leaf.op \notin {"==", "!="}
    <3>1. x[1] = "num" /\ val[1] = "num" /\ Plain(x)
      BY <1>1, <1>9, <2>1, <2>7
    <3>2. SqlComparison(leaf, dict) = YesNo(Ordered(x[2], leaf.op, val[2]))
      BY <1>9, <2>7, <3>1 DEF SqlComparison, x, val
    <3>3. Compared(x, leaf.op, val) <=> Ordered(x[2], leaf.op, val[2])
      BY <2>1, <2>7, <3>1 DEF Compared
    <3>4. QED
      BY <2>4, <2>5, <3>2, <3>3 DEF YesNo, leaf
  <2>8. QED
    BY <2>6, <2>7
<1>10. QED
  BY <1>7, <1>8, <1>9 DEF leaf

\* The SQL of a filter that is translated gives for a row what evaluate says of the
\* entity, and one thing only, where every comparison is of texts or of bare numbers
\* that are written alike if they are equal.
THEOREM SqlRowIsMatch ==
  ASSUME NEW f, IsFilter(f), Translates(f),
         NEW dict, \A tag \in DOMAIN dict : dict[tag] \in Value,
         \A leaf \in Comparisons(f) : Alike(dict, leaf), NEW known
  PROVE  SqlRow(f, dict) = YesNo(Matches(f, dict, known))
<1>1. PICK s : SqlTable(f, dict, s) /\ SqlRow(f, dict) = s[Len(f)]
  BY SqlRowIs
<1>2. PICK m \in [DOMAIN f -> BOOLEAN] : MatchTable(f, dict, known, m) /\ Matches(f, dict, known) = m[Len(f)]
  BY MatchesIs
<1> DEFINE S == {i \in DOMAIN f : s[i] = YesNo(m[i])}
<1>3. ASSUME NEW i \in DOMAIN f, IsJoin(f[i]) => f[i].left \in S /\ f[i].right \in S
      PROVE  i \in S
  <2>1. CASE IsJoin(f[i])
    <3> DEFINE l == f[i].left
               r == f[i].right
               k == f[i].kind
    <3>1. l \in DOMAIN f /\ r \in DOMAIN f /\ s[l] = YesNo(m[l]) /\ s[r] = YesNo(m[r])
      BY <1>3, <2>1
    <3>2. s[i] = SqlJoins(k, s[l], s[r]) /\ k \in {"and", "or"}
      BY <1>1, <2>1 DEF SqlTable, IsJoin
    <3>3. m[i] = IF k = "and" THEN m[l] /\ m[r] ELSE m[l] \/ m[r]
      BY <1>2, <2>1 DEF MatchTable
    <3>4. m[l] \in BOOLEAN /\ m[r] \in BOOLEAN
      BY <3>1
    <3> DEFINE a == IF m[l] THEN "yes" ELSE "no"
               b == IF m[r] THEN "yes" ELSE "no"
               d == IF k = "and" THEN "no" ELSE "yes"
    <3>5. s[l] = {a} /\ s[r] = {b}
      BY <3>1 DEF YesNo
    <3>6. SqlJoins(k, {a}, {b}) = {o \in Outcome : o \in SqlJoin(d, a, b)}
      BY DEF SqlJoins
    <3>7. SqlJoin(d, a, b) = YesNo(IF k = "and" THEN m[l] /\ m[r] ELSE m[l] \/ m[r])
      BY DEF SqlJoin, YesNo
    <3>8. YesNo(m[i]) \subseteq Outcome
      BY DEF YesNo, Outcome
    <3>9. QED
      BY <3>2, <3>3, <3>5, <3>6, <3>7, <3>8
  <2>2. CASE ~ IsJoin(f[i])
    <3>1. SqlLeaf(f[i], dict) = YesNo(LeafMatches(f[i], dict, known))
      BY <2>2, LeafFacts, SqlLeafIsMatch
    <3>2. QED
      BY <3>1, <2>2, <1>1, <1>2 DEF SqlTable, MatchTable
  <2>3. QED
    BY <2>1, <2>2
<1>4. Len(f) \in S
  <2> HIDE DEF S
  <2>1. DOMAIN f \subseteq S
    BY <1>3, FromLeavesUp
  <2>2. QED
    BY <2>1 DEF IsFilter
<1>5. QED
  BY <1>1, <1>2, <1>4

\* A query without a bar outside of parentheses.
LEMMA SomeOfOne ==
  ASSUME NEW b \in BOOLEAN
  PROVE  SomeOf(<<b>>) = b
<1>1. SomeOf(<<b>>) <=> b
  BY DEF SomeOf
<1>2. SomeOf(<<b>>) \in BOOLEAN
  BY DEF SomeOf
<1>3. QED
  BY <1>1, <1>2, Zenon

\* Two of them next to each other mean both, in every dialect.
LEMMA JuxtaposedOnes ==
  ASSUME NEW b \in BOOLEAN, NEW c \in BOOLEAN
  PROVE  Juxtaposed(<<b>>, <<c>>) = <<b /\ c>>
<1>1. SubSeq(<<b>>, 1, Len(<<b>>) - 1) = <<>> /\ Tail(<<c>>) = <<>>
  OBVIOUS
<1>2. <<b>>[Len(<<b>>)] = b /\ Head(<<c>>) = c
  OBVIOUS
<1> DEFINE one == <<b /\ c>>
<1>3. (<<>> \o one) \o <<>> = one
  <2>1. one \in Seq(BOOLEAN)
    OBVIOUS
  <2> HIDE DEF one
  <2>2. QED
    BY <2>1
<1>4. SomeOf(<<b>>) = b /\ SomeOf(<<c>>) = c
  BY SomeOfOne
<1>5. QED
  BY <1>1, <1>2, <1>3, <1>4, Zenon DEF Juxtaposed

\* A term of a RediSearch query finds what evaluate says, if it compares a Ref.
LEMMA FtLeafIsMatch ==
  ASSUME NEW f, IsFilter(f), Indexable(f), NEW i \in DOMAIN f, ~ IsJoin(f[i]),
         NEW dict, \A tag \in DOMAIN dict : dict[tag] \in Value,
         f[i].kind = "cmp" => f[i].val[1] = "ref", NEW known
  PROVE  FtLeaf(f[i], dict) <=> LeafMatches(f[i], dict, known)
<1> DEFINE leaf == f[i]
           tag == Head(leaf.path)
           x == dict[tag]
           val == leaf.val
<1>1. /\ leaf.kind \in {"has", "missing", "cmp"} /\ leaf.path \in TagPath /\ Len(leaf.path) = 1
      /\ leaf.kind = "cmp" => leaf.op = "=="
  BY NodeFacts, LeafFacts DEF Indexable, Simple
<1>2. TagAt(leaf.path, dict, known) = IF tag \in DOMAIN dict THEN x ELSE Gone
  BY <1>1, SimpleTag
<1>3. tag \in DOMAIN dict => x \in Value
  OBVIOUS
<1>4. leaf.kind = "cmp" => val \in Value /\ val[1] = "ref"
  BY NodeFacts DEF Value
<1> HIDE DEF leaf, x, val
<1>5. tag \in DOMAIN dict => x # Gone /\ (x[1] = "ref" => x = <<"ref", x[2]>>)
  BY <1>3, ValueFacts
<1>6. leaf.kind = "cmp" => val = <<"ref", val[2]>>
  BY <1>4, ValueFacts
<1>7. CASE leaf.kind = "has"
  BY <1>2, <1>5, <1>7 DEF FtLeaf, LeafMatches, leaf
<1>8. CASE leaf.kind = "missing"
  BY <1>2, <1>5, <1>8 DEF FtLeaf, LeafMatches, leaf
<1>9. CASE leaf.kind = "cmp"
  <2>1. FtLeaf(leaf, dict) <=> tag \in DOMAIN dict /\ x[1] = "ref" /\ x[2] = val[2]
    BY <1>9 DEF FtLeaf, x, val
  <2>2. LeafMatches(leaf, dict, known) <=> tag \in DOMAIN dict /\ x = val
    <3>1. LeafMatches(leaf, dict, known) <=> tag \in DOMAIN dict /\ Compared(x, "==", val)
      BY <1>1, <1>2, <1>5, <1>9 DEF LeafMatches, val
    <3>2. Compared(x, "==", val) <=> Equal(x, val)
      BY DEF Compared, Equal
    <3>3. val[1] # "num"
      BY <1>4, <1>9
    <3>4. Equal(x, val) <=> x = val
      BY <3>3 DEF Equal
    <3>5. QED
      BY <3>1, <3>2, <3>4
  <2>3. tag \in DOMAIN dict => (x[1] = "ref" /\ x[2] = val[2] <=> x = val)
    BY <1>5, <1>6, <1>9
  <2>4. QED
    BY <2>1, <2>2, <2>3 DEF leaf
<1>10. QED
  BY <1>1, <1>7, <1>8, <1>9

\* The RediSearch query of a filter finds what evaluate says, in every dialect, if
\* no Or is an operand of an And and no text is compared with a Ref.
THEOREM FtIsMatch ==
  ASSUME NEW f, IsFilter(f), Indexable(f),
         NEW dict, \A tag \in DOMAIN dict : dict[tag] \in Value,
         \A n \in Joins(f) : n.kind = "and" => f[n.left].kind # "or" /\ f[n.right].kind # "or",
         \A leaf \in Comparisons(f) : leaf.val[1] = "ref", NEW known
  PROVE  SomeOf(FtAlternatives(f, dict)) <=> Matches(f, dict, known)
<1>1. PICK a : FtTable(f, dict, a) /\ FtAlternatives(f, dict) = a[Len(f)]
  BY FtAlternativesIs
<1>2. PICK m \in [DOMAIN f -> BOOLEAN] : MatchTable(f, dict, known, m) /\ Matches(f, dict, known) = m[Len(f)]
  BY MatchesIs
<1> DEFINE S == {i \in DOMAIN f : (SomeOf(a[i]) <=> m[i]) /\ (f[i].kind # "or" => a[i] = <<SomeOf(a[i])>>)}
<1>3. \A b : SomeOf(<<b>>) <=> b
  BY DEF SomeOf
<1>4. \A b, c : SomeOf(<<b, c>>) <=> b \/ c
  BY DEF SomeOf
<1>5. ASSUME NEW i \in DOMAIN f, IsJoin(f[i]) => f[i].left \in S /\ f[i].right \in S
      PROVE  i \in S
  <2>1. CASE f[i].kind = "and"
    <3> DEFINE l == f[i].left
               r == f[i].right
    <3>1. IsJoin(f[i]) /\ l \in S /\ r \in S
      BY <1>5, <2>1 DEF IsJoin
    <3>2. f[l].kind # "or" /\ f[r].kind # "or"
      BY <2>1, <3>1 DEF Joins, Nodes
    <3>3. Juxtaposed(a[l], a[r]) = <<SomeOf(a[l]) /\ SomeOf(a[r])>>
      <4>1. a[l] = <<SomeOf(a[l])>> /\ a[r] = <<SomeOf(a[r])>>
        BY <3>1, <3>2
      <4>2. SomeOf(a[l]) \in BOOLEAN /\ SomeOf(a[r]) \in BOOLEAN
        BY DEF SomeOf
      <4>3. Juxtaposed(<<SomeOf(a[l])>>, <<SomeOf(a[r])>>) = <<SomeOf(a[l]) /\ SomeOf(a[r])>>
        BY <4>2, JuxtaposedOnes
      <4>4. QED
        BY <4>1, <4>3, Zenon
    <3>4. a[i] = <<SomeOf(Juxtaposed(a[l], a[r]))>>
      BY <1>1, <2>1, <3>1 DEF FtTable
    <3>5. m[i] = (m[l] /\ m[r])
      BY <1>2, <2>1, <3>1 DEF MatchTable
    <3> DEFINE both == SomeOf(a[l]) /\ SomeOf(a[r])
               some == SomeOf(<<both>>)
    <3>6. both <=> m[i]
      BY <3>1, <3>5
    <3>7. some <=> both
      BY <1>3
    <3>8. a[i] = <<some>>
      BY <3>3, <3>4, Zenon
    <3> HIDE DEF both, some
    <3>9. (SomeOf(a[i]) <=> some)
      BY <1>3, <3>8
    <3>10. SomeOf(a[i]) = some
      BY <3>9 DEF SomeOf, some
    <3>11. QED
      BY <3>6, <3>7, <3>8, <3>9, <3>10
  <2>2. CASE f[i].kind = "or"
    <3>1. IsJoin(f[i]) /\ f[i].left \in S /\ f[i].right \in S
      BY <1>5, <2>2 DEF IsJoin
    <3>2. a[i] = <<SomeOf(a[f[i].left]), SomeOf(a[f[i].right])>>
      BY <1>1, <2>2, <3>1 DEF FtTable
    <3>3. m[i] = (m[f[i].left] \/ m[f[i].right])
      BY <1>2, <2>2, <3>1 DEF MatchTable
    <3>4. SomeOf(a[i]) <=> m[i]
      BY <1>4, <3>1, <3>2, <3>3
    <3>5. QED
      BY <2>2, <3>4
  <2>3. CASE ~ IsJoin(f[i])
    <3>1. FtLeaf(f[i], dict) <=> LeafMatches(f[i], dict, known)
      BY <2>3, LeafFacts, FtLeafIsMatch
    <3>2. a[i] = <<FtLeaf(f[i], dict)>> /\ m[i] = LeafMatches(f[i], dict, known)
      BY <1>1, <1>2, <2>3 DEF FtTable, MatchTable
    <3>3. FtLeaf(f[i], dict) \in BOOLEAN
      BY DEF FtLeaf
    <3>4. SomeOf(a[i]) = FtLeaf(f[i], dict)
      BY <3>2, <3>3, SomeOfOne, Zenon
    <3>5. a[i] = <<SomeOf(a[i])>>
      BY <3>2, <3>4, Zenon
    <3>6. SomeOf(a[i]) <=> m[i]
      BY <3>1, <3>2, <3>4
    <3>7. QED
      BY <3>5, <3>6
  <2>4. QED
    BY <2>1, <2>2, <2>3 DEF IsJoin
<1>6. Len(f) \in S
  <2> HIDE DEF S
  <2>1. DOMAIN f \subseteq S
    BY <1>5, FromLeavesUp
  <2>2. QED
    BY <2>1 DEF IsFilter
<1>7. QED
  BY <1>1, <1>2, <1>6

\* An entity that matches has all the tags _extract_has_tags names: the tag sets
\* leave out nothing that evaluate would find.
THEOREM MatchHasTags ==
  ASSUME NEW f, IsFilter(f), NEW dict, NEW known, Matches(f, dict, known)
  PROVE  HasTags(f) \subseteq DOMAIN dict
<1>1. PICK h : TagTable(f, h) /\ HasTags(f) = h[Len(f)]
  BY HasTagsIs
<1>2. PICK m \in [DOMAIN f -> BOOLEAN] : MatchTable(f, dict, known, m) /\ Matches(f, dict, known) = m[Len(f)]
  BY MatchesIs
<1> DEFINE S == {i \in DOMAIN f : m[i] => h[i] \subseteq DOMAIN dict}
<1>3. ASSUME NEW i \in DOMAIN f, IsJoin(f[i]) => f[i].left \in S /\ f[i].right \in S
      PROVE  i \in S
  <2>1. CASE IsJoin(f[i])
    <3>1. f[i].left \in S /\ f[i].right \in S
      BY <1>3, <2>1
    <3>2. h[i] = IF f[i].kind = "and" THEN h[f[i].left] \cup h[f[i].right] ELSE {}
      BY <1>1, <2>1 DEF TagTable
    <3>3. m[i] /\ f[i].kind = "and" => m[f[i].left] /\ m[f[i].right]
      BY <1>2, <2>1 DEF MatchTable
    <3>4. QED
      BY <3>1, <3>2, <3>3
  <2>2. CASE ~ IsJoin(f[i])
    <3>1. h[i] = LeafTags(f[i]) /\ m[i] = LeafMatches(f[i], dict, known)
      BY <1>1, <1>2, <2>2 DEF TagTable, MatchTable
    <3>2. ASSUME f[i].kind = "has", Simple(f[i]), LeafMatches(f[i], dict, known)
          PROVE  Head(f[i].path) \in DOMAIN dict
      <4>1. f[i].path \in TagPath /\ Len(f[i].path) = 1
        BY <2>2, <3>2, NodeFacts DEF Simple
      <4>2. TagAt(f[i].path, dict, known) # Gone
        BY <3>2 DEF LeafMatches
      <4>3. QED
        BY <4>1, <4>2, SimpleTag
    <3>3. QED
      BY <3>1, <3>2 DEF LeafTags
  <2>3. QED
    BY <2>1, <2>2
<1>4. Len(f) \in S
  <2> HIDE DEF S
  <2>1. DOMAIN f \subseteq S
    BY <1>3, FromLeavesUp
  <2>2. QED
    BY <2>1 DEF IsFilter
<1>5. QED
  BY <1>1, <1>2, <1>4

\* Two filters of one RediSearch text find the same: a cached answer of one is an
\* answer of the other.
LEMMA SameText ==
  ASSUME adapter = "redis", NEW f, NEW g, IsFilter(f), IsFilter(g), QueryText(f) = QueryText(g), NEW dict
  PROVE  FtAlternatives(f, dict) = FtAlternatives(g, dict)
<1> DEFINE text(n) == IF n.kind = "cmp" THEN [n EXCEPT !.val = n.val[2]] ELSE n
<1>1. /\ QueryText(f) = [i \in DOMAIN f |-> text(f[i])]
      /\ QueryText(g) = [i \in DOMAIN g |-> text(g[i])]
  BY DEF QueryText
<1>2. DOMAIN f = DOMAIN g /\ Len(f) = Len(g)
  <2>1. DOMAIN f = DOMAIN g
    <3> HIDE DEF text
    <3>1. QED
      BY <1>1
  <2> DEFINE n == Len(f)
             m == Len(g)
  <2>5. n \in Nat \ {0} /\ DOMAIN f = 1 .. n /\ m \in Nat \ {0} /\ DOMAIN g = 1 .. m
    BY DEF IsFilter
  <2> HIDE DEF n, m
  <2>2. n \in Nat \ {0} /\ m \in Nat \ {0} /\ 1 .. n = 1 .. m
    BY <2>1, <2>5
  <2>3. n \in 1 .. m /\ m \in 1 .. n
    <3>1. n \in 1 .. n /\ m \in 1 .. m
      BY <2>2
    <3>2. QED
      BY <2>2, <3>1
  <2>4. n = m
    BY <2>2, <2>3
  <2>6. QED
    BY <2>1, <2>4 DEF n, m
<1>3. \A i \in DOMAIN f : text(f[i]) = text(g[i])
  <2> HIDE DEF text
  <2>1. QED
    BY <1>1, <1>2
<1>4. ASSUME NEW h, IsFilter(h), NEW i \in DOMAIN h
      PROVE  /\ text(h[i]).kind = h[i].kind
             /\ h[i].kind = "cmp" => text(h[i]).path = h[i].path /\ text(h[i]).val = h[i].val[2]
             /\ h[i].kind # "cmp" => text(h[i]) = h[i]
  <2>1. CASE h[i].kind = "cmp"
    <3> DEFINE P == TagPath
               C == Compare
               n == h[i]
    <3>1. n \in [kind : {"cmp"}, path : P, op : {"==", "!=", "<", "<=", ">", ">="}, val : C]
      <4> HIDE DEF P, C
      <4>1. n \in [kind : {"has", "missing"}, path : P]
            \/ n \in [kind : {"cmp"}, path : P, op : {"==", "!=", "<", "<=", ">", ">="}, val : C]
            \/ n \in [kind : {"and", "or"}, left : 1 .. i - 1, right : 1 .. i - 1]
        BY <1>4 DEF IsFilter, NodeAt, P, C
      <4>2. QED
        BY <4>1, <2>1
    <3> DEFINE v == h[i].val[2]
    <3> HIDE DEF P, C, n, v
    <3>2. /\ [n EXCEPT !.val = v].kind = n.kind
          /\ [n EXCEPT !.val = v].path = n.path
          /\ [n EXCEPT !.val = v].val = v
      BY <3>1
    <3>3. QED
      BY <3>2, <2>1 DEF n, v
  <2>2. CASE h[i].kind # "cmp"
    BY <2>2
  <2>3. QED
    BY <2>1, <2>2
<1>5. \A i \in DOMAIN f : /\ f[i].kind = g[i].kind
                          /\ f[i].kind = "cmp" => f[i].path = g[i].path /\ f[i].val[2] = g[i].val[2]
                          /\ f[i].kind # "cmp" => f[i] = g[i]
  <2> HIDE DEF text
  <2>1. QED
    BY <1>2, <1>3, <1>4
<1>6. PICK a : FtTable(f, dict, a) /\ FtAlternatives(f, dict) = a[Len(f)]
  BY FtAlternativesIs
<1>7. PICK b : FtTable(g, dict, b) /\ FtAlternatives(g, dict) = b[Len(g)]
  BY FtAlternativesIs
<1> DEFINE S == {i \in DOMAIN f : a[i] = b[i]}
<1>8. ASSUME NEW i \in DOMAIN f, IsJoin(f[i]) => f[i].left \in S /\ f[i].right \in S
      PROVE  i \in S
  <2>1. CASE IsJoin(f[i])
    <3>1. g[i] = f[i]
      BY <1>5, <2>1 DEF IsJoin
    <3>2. a[f[i].left] = b[f[i].left] /\ a[f[i].right] = b[f[i].right]
      BY <1>8, <2>1
    <3>3. /\ a[i] = IF f[i].kind = "and" THEN <<SomeOf(Juxtaposed(a[f[i].left], a[f[i].right]))>>
                    ELSE <<SomeOf(a[f[i].left]), SomeOf(a[f[i].right])>>
          /\ b[i] = IF f[i].kind = "and" THEN <<SomeOf(Juxtaposed(b[f[i].left], b[f[i].right]))>>
                    ELSE <<SomeOf(b[f[i].left]), SomeOf(b[f[i].right])>>
      BY <1>2, <1>6, <1>7, <2>1, <3>1, Zenon DEF FtTable
    <3>4. QED
      BY <3>2, <3>3, Zenon
  <2>2. CASE ~ IsJoin(f[i])
    <3>1. ~ IsJoin(g[i])
      BY <1>5, <2>2 DEF IsJoin
    <3>2. a[i] = <<FtLeaf(f[i], dict)>> /\ b[i] = <<FtLeaf(g[i], dict)>>
      BY <1>2, <1>6, <1>7, <2>2, <3>1, Zenon DEF FtTable
    <3>3. FtLeaf(f[i], dict) = FtLeaf(g[i], dict)
      BY <1>5, Zenon DEF FtLeaf
    <3>4. QED
      BY <3>2, <3>3, Zenon
  <2>3. QED
    BY <2>1, <2>2
<1>9. Len(f) \in S
  <2> HIDE DEF S
  <2>1. DOMAIN f \subseteq S
    BY <1>8, FromLeavesUp
  <2>2. QED
    BY <2>1 DEF IsFilter
<1>10. QED
  BY <1>2, <1>6, <1>7, <1>9

\* What a limit leaves of some ids.
LEMMA AtMostFacts ==
  ASSUME NEW limit \in Nat \cup {NoLimit}, NEW ids, NEW rows \in AtMost(limit, ids)
  PROVE  /\ rows \subseteq ids
         /\ limit = NoLimit => rows = ids
         /\ limit # NoLimit => Cardinality(rows) <= limit
BY DEF AtMost, kSubset

------------------------------------------------------------------------------
(* The inductive invariant                                                    *)

\* The tags an entity may come to have.
Dicts == UNION {{db[e] : e \in DOMAIN db} : db \in Stores \cup Batches}
\* The contents a store may come to have.
StoreSet == UNION {[E -> Dicts] : E \in SUBSET Entity}

\* load_entities takes no entity away.
HistoryOK ==
    /\ past \in Seq(StoreSet) /\ past # <<>>
    /\ \A i, j \in 1 .. Now : i <= j => DOMAIN past[i] \subseteq DOMAIN past[j]

\* What the database may answer to a translated filter.
Answers(f, limit, db) ==
    IF adapter = "redis" THEN FtAnswers(f, limit, db) ELSE SqlAnswers(f, limit, db)
\* The database gave rows as its answer at some time from from to to.
AnsweredIn(f, limit, from, to, rows) == \E n \in from .. to : rows \in Answers(f, limit, past[n])

\* The tag set of a tag at the time n.
TaggedBy(tag, n) == {e \in Entity : \E i \in 1 .. n : e \in DOMAIN past[i] /\ tag \in DOMAIN past[i][e]}
\* What Redis may list for f at the time n.
CandidatesAt(f, n) ==
    IF HasTags(f) = {} THEN AtMost(MaxScan, DOMAIN past[n])
    ELSE {{e \in DOMAIN past[n] : \A tag \in HasTags(f) : e \in TaggedBy(tag, n)}}

\* What the memory adapter finds at the time n.
FoundInMemory(f, n) ==
    IF IsLoneTag(f) THEN TaggedBy(Head(Root(f).path), n) \cap DOMAIN past[n]
    ELSE Evaluated(f, past[n], past[n])
\* What Redis finds in what it listed and fetched at the time to.
ListedAndFetched(f, listed, to) ==
    LET known == [e \in listed |-> past[to][e]] IN Evaluated(f, known, known)
\* What TimescaleDB finds in what it was sent at the time n.
SentAndScanned(f, sent, n) == Evaluated(f, [e \in sent |-> past[n][e]], <<>>)

\* Where the rows of a read that is done come from.
RowsFound(r) ==
    LET f == r.query.filter
        limit == r.query.limit IN
    IF adapter = "memory"
    THEN r.since = r.until /\ r.rows \in AtMost(LoopLimit(limit), FoundInMemory(f, r.until))
    ELSE IF Cacheable(f)
    THEN /\ \E q \in Queries : q.filter = r.asked /\ Key(q) = Key(r.query)
         /\ AnsweredIn(r.asked, limit, r.since, r.until, r.rows)
    ELSE IF adapter = "timescale"
    THEN \E n \in r.since .. r.until : \E sent \in AtMost(MaxScan, DOMAIN past[n]) :
            r.rows \in AtMost(LoopLimit(limit), SentAndScanned(f, sent, n))
    ELSE \E n \in r.since .. r.until : \E listed \in CandidatesAt(f, n) :
            r.rows \in AtMost(LoopLimit(limit), ListedAndFetched(f, listed, r.until))

\* The records of the reads that have begun.
ReadRecord ==
    [stage : {"querying", "queried", "listing", "fetching", "done"}, query : Queries,
     asked : {q.filter : q \in Queries}, since : Nat, until : Nat, rows : (SUBSET Entity) \cup {Failure}]

\* What holds of a read that has begun, by its stage.
ReadOK(r) ==
    LET f == r.query.filter IN
    /\ r.since \in 1 .. r.until /\ r.until \in 1 .. Now
    /\ r.stage # "done" => adapter # "memory" /\ r.asked = f
    /\ r.stage \in {"querying", "queried"} => Cacheable(f)
    /\ r.stage \in {"listing", "fetching"} => ~ Cacheable(f)
    /\ r.stage = "queried" => AnsweredIn(f, r.query.limit, r.since, Now, r.rows) /\ r.rows # Failure
    /\ r.stage = "fetching" => adapter = "redis" /\ \E n \in r.since .. Now : r.rows \in CandidatesAt(f, n)
    /\ r.stage = "done" => RowsFound(r)

\* An answer that is kept was given to a filter of the same text, since the time
\* that is noted with it.
EntryOK(k, entry) ==
    \E q \in Queries :
        /\ k = Key(q) /\ entry.asked = q.filter
        /\ entry.since \in 1 .. Now /\ entry.rows \in SUBSET Entity
        /\ AnsweredIn(q.filter, q.limit, entry.since, Now, entry.rows)

\* The answers kept.
CacheOK == \A k \in DOMAIN cache : EntryOK(k, cache[k])

\* The inductive invariant.  It keeps for every answer, of a read or of the cache,
\* the time at which the database or the loop could have given it: AnswersAsEvaluated
\* compares an answer with the store at such times.
ReadInv ==
    /\ adapter \in {"memory", "redis", "timescale"}
    /\ HistoryOK
    /\ CacheOK
    /\ read \in [Reader -> ReadRecord \cup {Idle}]
    /\ \A t \in Reader : read[t] # Idle => ReadOK(read[t])

\* A read that has begun is not idle.
LEMMA NotIdle ==
  ASSUME NEW r \in ReadRecord
  PROVE  r # Idle
<1>1. DOMAIN r # DOMAIN Idle
  <2>1. DOMAIN r = {"stage", "query", "asked", "since", "until", "rows"}
    BY DEF ReadRecord
  <2>2. DOMAIN Idle = {"stage"}
    BY DEF Idle
  <2>3. QED
    BY <2>1, <2>2
<1>2. QED
  BY <1>1

\* Tags have values.
LEMMA DictsHoldValues ==
  ASSUME ReadAssumption, NEW d \in Dicts
  PROVE  \A tag \in DOMAIN d : d[tag] \in Value
<1>1. PICK db \in Stores \cup Batches : \E e \in DOMAIN db : d = db[e]
  BY DEF Dicts
<1>2. QED
  BY <1>1 DEF ReadAssumption, IsStore

\* The stores and the loads are stores.
LEMMA StoresAreTyped ==
  ASSUME ReadAssumption, NEW db \in Stores \cup Batches
  PROVE  db \in StoreSet
<1>1. /\ DOMAIN db \in SUBSET Entity
      /\ db = [e \in DOMAIN db |-> db[e]]
  BY DEF ReadAssumption, IsStore
<1>2. \A e \in DOMAIN db : db[e] \in Dicts
  BY DEF Dicts
<1>3. db \in [DOMAIN db -> Dicts]
  BY <1>1, <1>2
<1>4. QED
  BY <1>1, <1>3 DEF StoreSet

\* A store maps entities to their tags.
LEMMA StoreFacts ==
  ASSUME NEW db \in StoreSet
  PROVE  /\ DOMAIN db \subseteq Entity
         /\ db = [e \in DOMAIN db |-> db[e]]
         /\ \A e \in DOMAIN db : db[e] \in Dicts
<1>1. PICK E \in SUBSET Entity : db \in [E -> Dicts]
  BY DEF StoreSet
<1>2. QED
  BY <1>1

\* A load leaves a store in which every entity still is.
LEMMA LoadedIsStore ==
  ASSUME NEW batch \in StoreSet, NEW db \in StoreSet
  PROVE  /\ Loaded(batch, db) \in StoreSet
         /\ DOMAIN db \subseteq DOMAIN Loaded(batch, db)
<1> DEFINE E == DOMAIN batch \cup DOMAIN db
<1>1. E \in SUBSET Entity /\ Loaded(batch, db) \in [E -> Dicts]
  BY StoreFacts DEF Loaded
<1>2. QED
  BY <1>1 DEF StoreSet, Loaded

\* The times so far have each their store.
LEMMA HistoryFacts ==
  ASSUME HistoryOK
  PROVE  /\ Now \in Nat \ {0} /\ DOMAIN past = 1 .. Now
         /\ \A n \in 1 .. Now : past[n] \in StoreSet
         /\ Present \in StoreSet
BY DEF HistoryOK, Now, Present

\* The limit of a query, and that of a loop, which takes a row before it looks.
LEMMA LimitFacts ==
  ASSUME ReadAssumption, NEW q \in Queries
  PROVE  /\ IsFilter(q.filter)
         /\ q.limit \in Nat \cup {NoLimit} /\ LoopLimit(q.limit) \in Nat \cup {NoLimit}
         /\ q.limit = NoLimit <=> LoopLimit(q.limit) = NoLimit
         /\ q.limit # NoLimit => q.limit <= LoopLimit(q.limit)
BY DEF ReadAssumption, LoopLimit

\* The limit of a search is a number, that of its query if it has one that is not
\* larger than the cap.
LEMMA FtLimitFacts ==
  ASSUME ReadAssumption, NEW limit \in Nat \cup {NoLimit}
  PROVE  /\ MaxFt \in Nat /\ MaxFt # NoLimit /\ FtLimit(limit) \in Nat /\ FtLimit(limit) # NoLimit
         /\ limit = NoLimit => FtLimit(limit) = MaxFt
         /\ limit # NoLimit => FtLimit(limit) <= limit
BY DEF ReadAssumption, FtLimit

\* A cap takes all there is, or there is more than it.
LEMMA CapFacts ==
  ASSUME ReadAssumption, NEW cap \in Nat, NEW ids \in SUBSET Entity, NEW some \in AtMost(cap, ids)
  PROVE  /\ some \subseteq ids
         /\ some = ids \/ (Cardinality(some) = cap /\ Cardinality(ids) > cap)
<1>1. cap # NoLimit /\ Cardinality(ids) \in Nat
  BY FS_Subset, FS_CardinalityType DEF ReadAssumption
<1>2. CASE Cardinality(ids) <= cap
  BY <1>1, <1>2 DEF AtMost
<1>3. CASE ~ (Cardinality(ids) <= cap)
  <2>1. some \in kSubset(cap, ids)
    BY <1>1, <1>3 DEF AtMost
  <2>2. QED
    BY <1>1, <1>3, <2>1 DEF kSubset
<1>4. QED
  BY <1>2, <1>3

\* An answer of the database is a failure or a set of entities.
LEMMA AnswersAreTyped ==
  ASSUME ReadAssumption, NEW db \in StoreSet, NEW f, NEW limit \in Nat \cup {NoLimit}, NEW rows \in Answers(f, limit, db)
  PROVE  rows \in (SUBSET Entity) \cup {Failure}
<1>1. ASSUME NEW n \in Nat \cup {NoLimit}, NEW ids \in SUBSET DOMAIN db, rows \in AtMost(n, ids)
      PROVE  rows \in SUBSET Entity
  BY <1>1, AtMostFacts, StoreFacts
<1>2. CASE adapter = "redis"
  <2> DEFINE ids == {e \in DOMAIN db : SomeOf(FtAlternatives(f, db[e]))}
  <2>1. rows \in AtMost(FtLimit(limit), ids) /\ ids \in SUBSET DOMAIN db
    BY <1>2 DEF Answers, FtAnswers
  <2>2. FtLimit(limit) \in Nat
    BY FtLimitFacts
  <2> HIDE DEF ids
  <2>3. QED
    BY <1>1, <2>1, <2>2
<1>3. CASE adapter # "redis"
  <2> DEFINE ids == {e \in DOMAIN db : "yes" \in SqlRow(f, db[e])}
  <2>1. ids \in SUBSET DOMAIN db
    OBVIOUS
  <2>2. rows = Failure \/ rows \in AtMost(limit, ids)
    <3>1. rows \in SqlAnswers(f, limit, db)
      BY <1>3 DEF Answers
    <3>2. QED
      BY <3>1 DEF SqlAnswers
  <2>3. CASE rows \in AtMost(limit, ids)
    <3> HIDE DEF ids
    <3>1. rows \in SUBSET Entity
      BY <1>1, <2>1, <2>3
    <3>2. QED
      BY <3>1
  <2>4. rows = Failure => rows \in (SUBSET Entity) \cup {Failure}
    OBVIOUS
  <2> HIDE DEF ids
  <2>5. QED
    BY <2>2, <2>3, <2>4
<1>4. QED
  BY <1>2, <1>3

\* What Redis lists is stored.
LEMMA CandidatesAreStored ==
  ASSUME ReadAssumption, NEW f, NEW n, past[n] \in StoreSet, NEW listed \in CandidatesAt(f, n)
  PROVE  listed \subseteq DOMAIN past[n]
<1>1. DOMAIN past[n] \in SUBSET Entity /\ MaxScan \in Nat
  BY StoreFacts DEF ReadAssumption
<1>2. CASE HasTags(f) = {}
  BY <1>1, <1>2, CapFacts DEF CandidatesAt
<1>3. CASE HasTags(f) # {}
  BY <1>3 DEF CandidatesAt
<1>4. QED
  BY <1>2, <1>3

\* What depends on the adapter alone does not change.
LEMMA SameAdapter ==
  ASSUME adapter' = adapter
  PROVE  /\ \A f : Cacheable(f)' <=> Cacheable(f)
         /\ \A q : Key(q)' = Key(q)
         /\ \A f, limit, db : Answers(f, limit, db)' = Answers(f, limit, db)
<1>1. \A f : Cacheable(f)' <=> Cacheable(f)
  BY DEF Cacheable
<1>2. \A q : Key(q)' = Key(q)
  BY Zenon DEF Key, QueryText
<1>3. \A f, limit, db : Answers(f, limit, db)' = Answers(f, limit, db)
  BY DEF Answers
<1>4. QED
  BY <1>1, <1>2, <1>3

\* What was true of the contents of the store up to now stays true.
Grown == Now' \in Nat /\ Now <= Now' /\ \A i \in 1 .. Now : past'[i] = past[i]

\* What the adapters find at a time does not depend on later loads.
LEMMA OldTimes ==
  ASSUME HistoryOK, Grown, adapter' = adapter, NEW n \in 1 .. Now
  PROVE  /\ past'[n] = past[n]
         /\ \A tag : TaggedBy(tag, n)' = TaggedBy(tag, n)
         /\ \A f : CandidatesAt(f, n)' = CandidatesAt(f, n)
         /\ \A f : FoundInMemory(f, n)' = FoundInMemory(f, n)
<1>1. past'[n] = past[n]
  BY DEF Grown
<1>2. \A i \in 1 .. n : past'[i] = past[i]
  BY HistoryFacts DEF Grown
<1>3. \A tag : TaggedBy(tag, n)' = TaggedBy(tag, n)
  BY <1>2 DEF TaggedBy
<1>4. \A f : CandidatesAt(f, n)' = CandidatesAt(f, n)
  BY <1>1, <1>3 DEF CandidatesAt
<1>5. \A f : FoundInMemory(f, n)' = FoundInMemory(f, n)
  BY <1>1, <1>3 DEF FoundInMemory
<1>6. QED
  BY <1>1, <1>3, <1>4, <1>5

\* An answer that could be given at some time could be given at that time.
LEMMA StillAnswered ==
  ASSUME HistoryOK, Grown, adapter' = adapter, NEW f, NEW limit, NEW rows,
         NEW from \in 1 .. Now, NEW to \in 1 .. Now, AnsweredIn(f, limit, from, to, rows),
         NEW later \in Nat, to <= later, later <= Now'
  PROVE  AnsweredIn(f, limit, from, later, rows)'
<1>1. PICK n \in from .. to : rows \in Answers(f, limit, past[n])
  BY DEF AnsweredIn
<1>2. n \in 1 .. Now /\ n \in from .. later
  BY HistoryFacts
<1>3. past'[n] = past[n]
  BY <1>2, OldTimes
<1>4. rows \in Answers(f, limit, past[n])'
  BY <1>1, <1>3, SameAdapter DEF Answers
<1>5. QED
  BY <1>2, <1>4 DEF AnsweredIn

\* So is it with the rows of a read that is done.
LEMMA StillFound ==
  ASSUME HistoryOK, Grown, adapter' = adapter, NEW r, r.until \in 1 .. Now, r.since \in 1 .. r.until,
         RowsFound(r)
  PROVE  RowsFound(r)'
<1>1. r.until \in 1 .. Now /\ r.since \in 1 .. Now /\ r.until \in Nat /\ r.until <= Now'
  BY HistoryFacts DEF Grown
<1>2. \A n \in r.since .. r.until : n \in 1 .. Now
  BY HistoryFacts
<1>3. CASE adapter = "memory"
  <2>1. FoundInMemory(r.query.filter, r.until)' = FoundInMemory(r.query.filter, r.until)
    BY <1>1, OldTimes
  <2>2. QED
    BY <1>3, <2>1 DEF RowsFound
<1>4. CASE adapter # "memory" /\ Cacheable(r.query.filter)
  <2>1. /\ \E q \in Queries : q.filter = r.asked /\ Key(q) = Key(r.query)
        /\ AnsweredIn(r.asked, r.query.limit, r.since, r.until, r.rows)
    BY <1>4 DEF RowsFound
  <2>2. AnsweredIn(r.asked, r.query.limit, r.since, r.until, r.rows)'
    BY <1>1, <2>1, StillAnswered
  <2>3. \E q \in Queries : q.filter = r.asked /\ Key(q)' = Key(r.query)'
    BY <2>1, SameAdapter
  <2>4. Cacheable(r.query.filter)'
    BY <1>4, SameAdapter
  <2>5. QED
    BY <1>4, <2>2, <2>3, <2>4 DEF RowsFound
<1>5. CASE adapter = "timescale" /\ ~ Cacheable(r.query.filter)
  <2>1. PICK n \in r.since .. r.until : \E sent \in AtMost(MaxScan, DOMAIN past[n]) :
           r.rows \in AtMost(LoopLimit(r.query.limit), SentAndScanned(r.query.filter, sent, n))
    BY <1>5 DEF RowsFound
  <2>2. past'[n] = past[n] /\ \A sent : SentAndScanned(r.query.filter, sent, n)' = SentAndScanned(r.query.filter, sent, n)
    BY <1>2, OldTimes DEF SentAndScanned
  <2>3. ~ Cacheable(r.query.filter)'
    BY <1>5, SameAdapter
  <2>4. QED
    BY <1>5, <2>1, <2>2, <2>3 DEF RowsFound
<1>6. CASE adapter \notin {"memory", "timescale"} /\ ~ Cacheable(r.query.filter)
  <2>1. PICK n \in r.since .. r.until : \E listed \in CandidatesAt(r.query.filter, n) :
           r.rows \in AtMost(LoopLimit(r.query.limit), ListedAndFetched(r.query.filter, listed, r.until))
    BY <1>6 DEF RowsFound
  <2>2. /\ past'[r.until] = past[r.until]
        /\ CandidatesAt(r.query.filter, n)' = CandidatesAt(r.query.filter, n)
    BY <1>1, <1>2, OldTimes
  <2>3. \A listed : ListedAndFetched(r.query.filter, listed, r.until)' =
                    ListedAndFetched(r.query.filter, listed, r.until)
    BY <2>2 DEF ListedAndFetched
  <2>4. ~ Cacheable(r.query.filter)'
    BY <1>6, SameAdapter
  <2>5. QED
    BY <1>6, <2>1, <2>2, <2>3, <2>4 DEF RowsFound
<1>7. QED
  BY <1>3, <1>4, <1>5, <1>6

\* A load, or a step of another reader, keeps what holds of a read,
LEMMA StillRead ==
  ASSUME HistoryOK, Grown, adapter' = adapter, NEW r, ReadOK(r)
  PROVE  ReadOK(r)'
<1> DEFINE f == r.query.filter
<1>1. r.since \in 1 .. r.until /\ r.until \in 1 .. Now /\ r.since \in 1 .. Now
  BY HistoryFacts DEF ReadOK
<1>2. r.since \in 1 .. r.until /\ r.until \in 1 .. Now'
  BY <1>1, HistoryFacts DEF Grown
<1>3. r.stage # "done" => adapter' # "memory" /\ r.asked = f
  BY DEF ReadOK
<1>4. /\ r.stage \in {"querying", "queried"} => Cacheable(f)'
      /\ r.stage \in {"listing", "fetching"} => ~ Cacheable(f)'
  BY SameAdapter DEF ReadOK
<1>5. r.stage = "queried" => AnsweredIn(f, r.query.limit, r.since, Now, r.rows)' /\ r.rows # Failure
  <2>1. SUFFICES ASSUME r.stage = "queried"
                 PROVE  AnsweredIn(f, r.query.limit, r.since, Now, r.rows)' /\ r.rows # Failure
    OBVIOUS
  <2>2. AnsweredIn(f, r.query.limit, r.since, Now, r.rows) /\ r.rows # Failure
    BY <2>1 DEF ReadOK
  <2>3. Now \in 1 .. Now /\ Now' \in Nat /\ Now <= Now'
    BY HistoryFacts DEF Grown
  <2>4. \E n \in r.since .. Now' : r.rows \in Answers(f, r.query.limit, past[n])'
    <3>1. PICK n \in r.since .. Now : r.rows \in Answers(f, r.query.limit, past[n])
      BY <2>2 DEF AnsweredIn
    <3>2. n \in 1 .. Now /\ n \in r.since .. Now'
      BY <1>1, <2>3, HistoryFacts
    <3>3. past'[n] = past[n]
      BY <3>2, OldTimes
    <3>4. r.rows \in Answers(f, r.query.limit, past[n])'
      BY <3>1, <3>3, SameAdapter DEF Answers
    <3>5. QED
      BY <3>2, <3>4
  <2>5. QED
    BY <2>2, <2>4 DEF AnsweredIn
<1>6. r.stage = "fetching" => adapter' = "redis" /\ \E n \in r.since .. Now' : r.rows \in CandidatesAt(f, n)'
  <2>1. SUFFICES ASSUME r.stage = "fetching"
                 PROVE  adapter' = "redis" /\ \E n \in r.since .. Now' : r.rows \in CandidatesAt(f, n)'
    OBVIOUS
  <2>2. PICK n \in r.since .. Now : r.rows \in CandidatesAt(f, n)
    BY <2>1 DEF ReadOK
  <2>3. n \in 1 .. Now /\ n \in r.since .. Now'
    BY <1>1, HistoryFacts DEF Grown
  <2>4. CandidatesAt(f, n)' = CandidatesAt(f, n)
    BY <2>3, OldTimes
  <2>5. QED
    BY <2>1, <2>2, <2>3, <2>4 DEF ReadOK
<1>7. r.stage = "done" => RowsFound(r)'
  BY <1>1, StillFound DEF ReadOK
<1>8. QED
  BY <1>2, <1>3, <1>4, <1>5, <1>6, <1>7 DEF ReadOK

\* and what holds of an answer that is kept: its time may lie further back.
LEMMA StillKept ==
  ASSUME HistoryOK, Grown, adapter' = adapter, NEW k, NEW entry, EntryOK(k, entry)
  PROVE  EntryOK(k, entry)'
<1>1. PICK q \in Queries :
        /\ k = Key(q) /\ entry.asked = q.filter
        /\ entry.since \in 1 .. Now /\ entry.rows \in SUBSET Entity
        /\ AnsweredIn(q.filter, q.limit, entry.since, Now, entry.rows)
  BY DEF EntryOK
<1>2. k = Key(q)' /\ entry.since \in 1 .. Now'
  BY <1>1, SameAdapter, HistoryFacts DEF Grown
<1>3. PICK n \in entry.since .. Now : entry.rows \in Answers(q.filter, q.limit, past[n])
  BY <1>1 DEF AnsweredIn
<1>4. n \in 1 .. Now /\ n \in entry.since .. Now'
  BY <1>1, HistoryFacts DEF Grown
<1>5. entry.rows \in Answers(q.filter, q.limit, past[n])'
  <2>1. past'[n] = past[n]
    BY <1>4, OldTimes
  <2>2. QED
    BY <1>3, <2>1, SameAdapter DEF Answers
<1>6. AnsweredIn(q.filter, q.limit, entry.since, Now, entry.rows)'
  BY <1>4, <1>5 DEF AnsweredIn
<1>7. QED
  BY <1>1, <1>2, <1>6 DEF EntryOK

\* A step of one reader leaves the store and the other reads as they are.
LEMMA ReaderStep ==
  ASSUME ReadInv, UNCHANGED <<adapter, past>>, NEW t \in Reader, NEW r \in ReadRecord, ReadOK(r),
         read' = [read EXCEPT ![t] = r], CacheOK'
  PROVE  ReadInv'
<1>1. adapter' \in {"memory", "redis", "timescale"} /\ HistoryOK'
  BY DEF ReadInv, HistoryOK, Now
<1>2. Grown
  BY HistoryFacts DEF ReadInv, Grown, Now
<1>3. read' \in [Reader -> ReadRecord \cup {Idle}]
  BY DEF ReadInv
<1>4. ASSUME NEW u \in Reader, read'[u] # Idle
      PROVE  ReadOK(read[u])'
  <2>1. CASE u = t
    <3>1. ReadOK(r)'
      BY <1>2, StillRead DEF ReadInv
    <3>2. read'[u] = r
      BY <2>1 DEF ReadInv
    <3>3. QED
      BY <3>1, <3>2
  <2>2. CASE u # t
    <3>1. PICK s : s = read[u]
      OBVIOUS
    <3>2. read'[u] = s
      BY <2>2, <3>1 DEF ReadInv
    <3>3. ReadOK(s)
      BY <1>4, <3>1, <3>2 DEF ReadInv
    <3>4. ReadOK(s)'
      BY <1>2, <3>3, StillRead DEF ReadInv
    <3>5. QED
      BY <3>2, <3>4
  <2>3. QED
    BY <2>1, <2>2
<1>5. QED
  BY <1>1, <1>3, <1>4 DEF ReadInv

\* A step that keeps no answer.
LEMMA SameCache ==
  ASSUME ReadInv, UNCHANGED <<adapter, past, cache>>
  PROVE  CacheOK'
<1>1. Grown
  BY HistoryFacts DEF ReadInv, Grown, Now
<1>2. SUFFICES ASSUME NEW k \in DOMAIN cache PROVE EntryOK(k, cache[k])'
  BY DEF CacheOK
<1>3. PICK entry : entry = cache[k]
  OBVIOUS
<1>4. EntryOK(k, entry)
  BY <1>3 DEF ReadInv, CacheOK
<1>5. EntryOK(k, entry)'
  BY <1>1, <1>4, StillKept DEF ReadInv
<1>6. QED
  BY <1>3, <1>5

\* The read that takes a step.
LEMMA ReadFacts ==
  ASSUME ReadInv, NEW t \in Reader, read[t] # Idle
  PROVE  /\ read[t] \in ReadRecord /\ ReadOK(read[t])
         /\ read[t].query \in Queries /\ read[t].asked \in {q.filter : q \in Queries}
         /\ read[t].since \in 1 .. Now /\ read[t].since \in Nat
<1>1. read[t] \in ReadRecord /\ ReadOK(read[t])
  BY DEF ReadInv
<1>2. QED
  BY <1>1, HistoryFacts DEF ReadRecord, ReadOK, ReadInv

\* What a read is when it is done.
Finished(r, rows, until) ==
    [stage |-> "done", query |-> r.query, asked |-> r.asked, since |-> r.since, until |-> until, rows |-> rows]

\* Done makes it that,
LEMMA DoneFinishes ==
  ASSUME ReadInv, NEW t \in Reader, read[t] # Idle, NEW rows, Done(t, rows)
  PROVE  read' = [read EXCEPT ![t] = Finished(read[t], rows, Now)]
<1> DEFINE n == Now
<1>1. PICK x : x = read[t]
  OBVIOUS
<1>2. x \in ReadRecord
  BY <1>1, ReadFacts
<1>3. read' = [read EXCEPT ![t] = [[[x EXCEPT !.stage = "done"] EXCEPT !.until = n] EXCEPT !.rows = rows]]
  BY <1>1 DEF Done, ReadInv
<1> HIDE DEF n
<1>4. [[[x EXCEPT !.stage = "done"] EXCEPT !.until = n] EXCEPT !.rows = rows] = Finished(x, rows, n)
  <2>1. x = [stage |-> x.stage, query |-> x.query, asked |-> x.asked, since |-> x.since,
             until |-> x.until, rows |-> x.rows]
    BY <1>2 DEF ReadRecord
  <2>2. PICK s, q, a, b, u, w :
           x = [stage |-> s, query |-> q, asked |-> a, since |-> b, until |-> u, rows |-> w]
    BY <2>1
  <2> DEFINE y == [x EXCEPT !.stage = "done"]
             z == [y EXCEPT !.until = n]
  <2>3. y = [stage |-> "done", query |-> q, asked |-> a, since |-> b, until |-> u, rows |-> w]
    BY <2>2
  <2> HIDE DEF y
  <2>4. z = [stage |-> "done", query |-> q, asked |-> a, since |-> b, until |-> n, rows |-> w]
    BY <2>3
  <2> HIDE DEF z
  <2>5. [z EXCEPT !.rows = rows] =
           [stage |-> "done", query |-> q, asked |-> a, since |-> b, until |-> n, rows |-> rows]
    BY <2>4
  <2>6. x.query = q /\ x.asked = a /\ x.since = b
    BY <2>2
  <2>7. [z EXCEPT !.rows = rows] = Finished(x, rows, n)
    BY <2>5, <2>6 DEF Finished
  <2>8. QED
    BY <2>7 DEF y, z
<1>5. QED
  BY <1>1, <1>3, <1>4 DEF n

\* and then it is as it should be, if its rows are.
LEMMA FinishedIsRead ==
  ASSUME ReadInv, NEW t \in Reader, read[t] # Idle, NEW rows \in (SUBSET Entity) \cup {Failure},
         RowsFound(Finished(read[t], rows, Now))
  PROVE  /\ Finished(read[t], rows, Now) \in ReadRecord
         /\ ReadOK(Finished(read[t], rows, Now))
<1>1. /\ read[t].query \in Queries /\ read[t].asked \in {q.filter : q \in Queries}
      /\ read[t].since \in 1 .. Now /\ read[t].since \in Nat
  BY ReadFacts
<1>2. Now \in Nat \ {0}
  BY HistoryFacts DEF ReadInv
<1>3. Finished(read[t], rows, Now) \in ReadRecord
  BY <1>1, <1>2 DEF Finished, ReadRecord
<1>4. QED
  BY <1>1, <1>2, <1>3 DEF ReadOK, Finished

\* The start: a store as it was loaded, nothing asked or kept.
LEMMA InitReadInv ==
  ASSUME ReadAssumption, Init
  PROVE  ReadInv
<1>1. PICK s \in Stores : past = <<s>>
  BY DEF Init
<1>2. past \in Seq(StoreSet) /\ past # <<>> /\ Now = 1 /\ 1 .. 1 = {1}
  <2>1. s \in StoreSet
    BY StoresAreTyped
  <2>2. QED
    BY <1>1, <2>1 DEF Now
<1>3. HistoryOK
  BY <1>2 DEF HistoryOK
<1>4. QED
  BY <1>3 DEF Init, ReadInv, CacheOK

\* load_entities: the answers kept and those under way are of the store before.
LEMMA LoadInv ==
  ASSUME ReadAssumption, ReadInv, NEW batch \in Batches, Load(batch)
  PROVE  ReadInv'
<1> DEFINE db == Loaded(batch, Present)
<1>1. db \in StoreSet /\ DOMAIN Present \subseteq DOMAIN db
  BY StoresAreTyped, LoadedIsStore, HistoryFacts DEF ReadInv
<1>2. past \in Seq(StoreSet) /\ past' = Append(past, db) /\ past # <<>>
  BY DEF Load, ReadInv, HistoryOK
<1> HIDE DEF db
<1>3. /\ past' \in Seq(StoreSet) /\ past' # <<>> /\ Now' = Now + 1 /\ Now \in Nat \ {0}
      /\ past'[Now + 1] = db /\ \A i \in 1 .. Now : past'[i] = past[i]
  BY <1>1, <1>2 DEF Now
<1>4. Grown
  BY <1>3 DEF Grown
<1>5. HistoryOK'
  <2> SUFFICES ASSUME NEW i \in 1 .. Now', NEW j \in 1 .. Now', i <= j
               PROVE  DOMAIN past'[i] \subseteq DOMAIN past'[j]
    BY <1>3 DEF HistoryOK
  <2>1. \A n \in 1 .. Now : DOMAIN past[n] \subseteq DOMAIN past[Now]
    BY <1>3 DEF ReadInv, HistoryOK
  <2>2. CASE j \in 1 .. Now
    <3>1. i \in 1 .. Now
      BY <1>3, <2>2
    <3>2. QED
      BY <1>3, <2>2, <3>1 DEF ReadInv, HistoryOK
  <2>3. CASE j = Now + 1 /\ i \in 1 .. Now
    BY <1>1, <1>3, <2>1, <2>3 DEF Present
  <2>4. CASE j = Now + 1 /\ i = Now + 1
    BY <2>4
  <2>5. QED
    BY <1>3, <2>2, <2>3, <2>4
<1>6. adapter' = adapter /\ cache' = cache /\ read' = read
  BY DEF Load
<1>7. ASSUME NEW k \in DOMAIN cache PROVE EntryOK(k, cache[k])'
  <2>1. PICK entry : entry = cache[k]
    OBVIOUS
  <2>2. EntryOK(k, entry)'
    BY <1>4, <1>6, <2>1, StillKept DEF ReadInv, CacheOK
  <2>3. QED
    BY <1>6, <2>1, <2>2
<1>8. ASSUME NEW t \in Reader, read[t] # Idle PROVE ReadOK(read[t])'
  <2>1. PICK r : r = read[t]
    OBVIOUS
  <2>2. ReadOK(r)'
    BY <1>4, <1>6, <1>8, <2>1, StillRead DEF ReadInv
  <2>3. QED
    BY <1>6, <2>1, <2>2
<1>9. QED
  BY <1>5, <1>6, <1>7, <1>8 DEF ReadInv, CacheOK

\* The rows of a loop are entities.
LEMMA RowsAreEntities ==
  ASSUME NEW limit \in Nat \cup {NoLimit}, NEW ids \in SUBSET Entity, NEW rows \in AtMost(limit, ids)
  PROVE  rows \in (SUBSET Entity) \cup {Failure}
<1>1. rows \subseteq ids
  BY AtMostFacts
<1>2. QED
  BY <1>1

\* read_by_filter of the memory adapter, without an await.
LEMMA ReadMemoryInv ==
  ASSUME ReadAssumption, ReadInv, UNCHANGED <<adapter, past>>, NEW t \in Reader, read[t] = Idle,
         NEW q \in Queries, ReadMemory(t, q)
  PROVE  ReadInv'
<1> DEFINE f == q.filter
           limit == LoopLimit(q.limit)
           found == IF IsLoneTag(f) THEN Tagged(Head(Root(f).path)) \cap DOMAIN Present
                    ELSE Evaluated(f, Present, Present)
<1>1. PICK rows \in AtMost(limit, found) : Step(t, "done", q, Now, rows)
  BY DEF ReadMemory
<1>2. adapter = "memory" /\ cache' = cache
  BY DEF ReadMemory
<1>3. Now \in Nat \ {0} /\ DOMAIN past = 1 .. Now /\ DOMAIN Present \subseteq Entity
  BY HistoryFacts, StoreFacts DEF ReadInv
<1>4. found = FoundInMemory(f, Now)
  <2>1. \A tag : Tagged(tag) = TaggedBy(tag, Now)
    BY <1>3 DEF Tagged, TaggedBy
  <2>2. QED
    BY <2>1 DEF FoundInMemory, Present
<1>5. rows \in (SUBSET Entity) \cup {Failure}
  <2>1. found \in SUBSET Entity
    BY <1>3 DEF Evaluated
  <2>2. limit \in Nat \cup {NoLimit}
    BY LimitFacts
  <2> HIDE DEF found, limit
  <2>3. QED
    BY <1>1, <2>1, <2>2, RowsAreEntities
<1> DEFINE r == [stage |-> "done", query |-> q, asked |-> f, since |-> Now, until |-> Now, rows |-> rows]
<1>6. read' = [read EXCEPT ![t] = r]
  BY <1>1 DEF Step
<1>7. r \in ReadRecord
  BY <1>3, <1>5 DEF ReadRecord
<1>8. RowsFound(r)
  <2>1. rows \in AtMost(limit, FoundInMemory(f, Now))
    BY <1>1, <1>4
  <2>2. QED
    BY <1>2, <2>1 DEF RowsFound
<1>9. ReadOK(r)
  BY <1>3, <1>8 DEF ReadOK
<1> HIDE DEF r
<1>10. QED
  BY <1>2, <1>6, <1>7, <1>9, SameCache, ReaderStep

\* An answer that is kept is given again, to a filter of the same text.
LEMMA ReadCachedInv ==
  ASSUME ReadInv, UNCHANGED <<adapter, past>>, NEW t \in Reader, read[t] = Idle,
         NEW q \in Queries, ReadCached(t, q)
  PROVE  ReadInv'
<1> DEFINE r == [stage |-> "done", query |-> q, asked |-> cache[Key(q)].asked,
                 since |-> cache[Key(q)].since, until |-> Now, rows |-> cache[Key(q)].rows]
<1>1. /\ adapter # "memory" /\ Cacheable(q.filter) /\ Key(q) \in DOMAIN cache
      /\ read' = [read EXCEPT ![t] = r] /\ cache' = cache
  BY DEF ReadCached
<1>2. PICK entry : entry = cache[Key(q)]
  OBVIOUS
<1>3. PICK p \in Queries :
        /\ Key(q) = Key(p) /\ entry.asked = p.filter
        /\ entry.since \in 1 .. Now /\ entry.rows \in SUBSET Entity
        /\ AnsweredIn(p.filter, p.limit, entry.since, Now, entry.rows)
  BY <1>1, <1>2 DEF ReadInv, CacheOK, EntryOK
<1>4. p.limit = q.limit
  BY <1>3 DEF Key
<1>5. Now \in Nat \ {0} /\ Now \in 1 .. Now
  BY HistoryFacts DEF ReadInv
<1>6. r \in ReadRecord
  BY <1>2, <1>3, <1>5 DEF ReadRecord
<1>7. RowsFound(r)
  <2>1. \E x \in Queries : x.filter = entry.asked /\ Key(x) = Key(q)
    BY <1>3
  <2>2. AnsweredIn(entry.asked, q.limit, entry.since, Now, entry.rows)
    BY <1>3, <1>4
  <2>3. QED
    BY <1>1, <1>2, <2>1, <2>2 DEF RowsFound
<1>8. ReadOK(r)
  BY <1>2, <1>3, <1>5, <1>7 DEF ReadOK
<1> HIDE DEF r
<1>9. QED
  BY <1>1, <1>6, <1>8, SameCache, ReaderStep

\* A query is sent, or a list of ids asked for.
LEMMA AskInv ==
  ASSUME ReadInv, UNCHANGED <<adapter, past>>, NEW t \in Reader, read[t] = Idle,
         NEW q \in Queries, Ask(t, q)
  PROVE  ReadInv'
<1> DEFINE s == IF Cacheable(q.filter) THEN "querying" ELSE "listing"
           r == [stage |-> s, query |-> q, asked |-> q.filter, since |-> Now, until |-> Now, rows |-> {}]
<1>1. adapter # "memory" /\ read' = [read EXCEPT ![t] = r] /\ cache' = cache
  BY DEF Ask, Step
<1>2. Now \in Nat \ {0}
  BY HistoryFacts DEF ReadInv
<1>3. r \in ReadRecord
  BY <1>2 DEF ReadRecord
<1>4. ReadOK(r)
  BY <1>1, <1>2 DEF ReadOK
<1> HIDE DEF r
<1>5. QED
  BY <1>1, <1>3, <1>4, SameCache, ReaderStep

\* The database answers, or fails.
LEMMA QueryInv ==
  ASSUME ReadAssumption, ReadInv, UNCHANGED <<adapter, past>>, NEW t \in Reader, Query(t)
  PROVE  ReadInv'
<1>1. PICK r : r = read[t]
  OBVIOUS
<1>2. r.stage = "querying" /\ cache' = cache
  BY <1>1 DEF Query
<1>3. read[t] # Idle
  BY <1>1, <1>2 DEF Idle
<1>4. r \in ReadRecord /\ ReadOK(r) /\ r.query \in Queries /\ r.since \in 1 .. Now /\ r.since \in Nat
  BY <1>1, <1>3, ReadFacts
<1>5. adapter # "memory" /\ r.asked = r.query.filter /\ Cacheable(r.query.filter)
  BY <1>2, <1>4 DEF ReadOK
<1>6. Now \in Nat \ {0} /\ Present \in StoreSet
  BY HistoryFacts DEF ReadInv
<1>7. PICK rows \in Answers(r.query.filter, r.query.limit, Present) :
         IF rows = Failure THEN Done(t, Failure)
         ELSE read' = [read EXCEPT ![t].stage = "queried", ![t].rows = rows]
  BY <1>1, Zenon DEF Query, Answers
<1>8. rows \in (SUBSET Entity) \cup {Failure}
  BY <1>4, <1>6, <1>7, LimitFacts, AnswersAreTyped
<1>9. AnsweredIn(r.query.filter, r.query.limit, r.since, Now, rows)
  BY <1>4, <1>6, <1>7 DEF AnsweredIn, Present
<1>10. CASE rows = Failure
  <2> DEFINE d == Finished(r, rows, Now)
  <2>1. read' = [read EXCEPT ![t] = d]
    BY <1>1, <1>3, <1>7, <1>10, DoneFinishes
  <2>2. RowsFound(d)
    BY <1>4, <1>5, <1>9 DEF RowsFound, Finished
  <2>3. d \in ReadRecord /\ ReadOK(d)
    BY <1>1, <1>3, <1>8, <2>2, FinishedIsRead
  <2> HIDE DEF d
  <2>4. QED
    BY <1>2, <2>1, <2>3, SameCache, ReaderStep
<1>11. CASE rows # Failure
  <2> DEFINE d == [stage |-> "queried", query |-> r.query, asked |-> r.asked, since |-> r.since,
                   until |-> r.until, rows |-> rows]
  <2>1. read' = [read EXCEPT ![t] = d]
    <3>1. read' = [read EXCEPT ![t] = [[r EXCEPT !.stage = "queried"] EXCEPT !.rows = rows]]
      BY <1>1, <1>7, <1>11 DEF ReadInv
    <3> DEFINE y == [r EXCEPT !.stage = "queried"]
    <3>2. r = [stage |-> r.stage, query |-> r.query, asked |-> r.asked, since |-> r.since,
               until |-> r.until, rows |-> r.rows]
      BY <1>4 DEF ReadRecord
    <3>3. y = [stage |-> "queried", query |-> r.query, asked |-> r.asked, since |-> r.since,
               until |-> r.until, rows |-> r.rows]
      BY <3>2
    <3> HIDE DEF y
    <3>4. [y EXCEPT !.rows = rows] = d
      BY <3>3
    <3>5. QED
      BY <3>1, <3>4 DEF y
  <2>2. d \in ReadRecord
    BY <1>4, <1>8 DEF ReadRecord
  <2>3. ReadOK(d)
    <3>1. d.since \in 1 .. d.until /\ d.until \in 1 .. Now
      BY <1>4 DEF ReadOK
    <3>2. QED
      BY <3>1, <1>5, <1>9, <1>11 DEF ReadOK
  <2> HIDE DEF d
  <2>4. QED
    BY <1>2, <2>1, <2>2, <2>3, SameCache, ReaderStep
<1>12. QED
  BY <1>10, <1>11

\* The answer is kept, and may be of a store before a load.
LEMMA KeepInv ==
  ASSUME ReadInv, UNCHANGED <<adapter, past>>, NEW t \in Reader, Keep(t)
  PROVE  ReadInv'
<1>1. PICK r : r = read[t]
  OBVIOUS
<1> DEFINE answer == [rows |-> r.rows, asked |-> r.asked, since |-> r.since]
           kept == [k \in DOMAIN cache \cup {Key(r.query)} |-> IF k = Key(r.query) THEN answer ELSE cache[k]]
<1>2. /\ r.stage = "queried" /\ Done(t, r.rows)
      /\ cache' = IF Cardinality(DOMAIN cache) < MaxCache THEN kept ELSE cache
  BY <1>1 DEF Keep
<1>3. read[t] # Idle
  BY <1>1, <1>2 DEF Idle
<1>4. r \in ReadRecord /\ ReadOK(r) /\ r.query \in Queries /\ r.since \in 1 .. Now
  BY <1>1, <1>3, ReadFacts
<1>5. /\ adapter # "memory" /\ r.asked = r.query.filter /\ Cacheable(r.query.filter)
      /\ AnsweredIn(r.query.filter, r.query.limit, r.since, Now, r.rows)
      /\ r.rows \in SUBSET Entity /\ r.rows # Failure
  BY <1>2, <1>4 DEF ReadOK, ReadRecord
<1>6. CacheOK'
  <2>1. CASE cache' = cache
    BY <2>1, SameCache
  <2>2. CASE cache' = kept
    <3>1. Grown
      BY HistoryFacts DEF ReadInv, Grown, Now
    <3>2. PICK next : next = kept
      OBVIOUS
    <3>3. ASSUME NEW k \in DOMAIN next PROVE EntryOK(k, next[k])'
      <4>1. PICK entry : entry = next[k]
        OBVIOUS
      <4>2. EntryOK(k, entry)
        <5>1. CASE k = Key(r.query)
          <6>1. entry = answer
            BY <3>2, <4>1, <5>1
          <6>2. entry.rows = r.rows /\ entry.asked = r.query.filter /\ entry.since = r.since
            BY <1>5, <6>1
          <6>3. QED
            BY <1>4, <1>5, <5>1, <6>2 DEF EntryOK
        <5>2. CASE k # Key(r.query)
          <6>1. entry = cache[k] /\ k \in DOMAIN cache
            BY <3>2, <3>3, <4>1, <5>2
          <6>2. QED
            BY <6>1 DEF ReadInv, CacheOK
        <5>3. QED
          BY <5>1, <5>2
      <4>3. EntryOK(k, entry)'
        BY <3>1, <4>2, StillKept DEF ReadInv
      <4>4. QED
        BY <4>1, <4>3
    <3>4. cache' = next
      BY <2>2, <3>2
    <3>5. QED
      BY <3>3, <3>4 DEF CacheOK
  <2>3. QED
    BY <1>2, <2>1, <2>2
<1> DEFINE d == Finished(r, r.rows, Now)
<1>7. read' = [read EXCEPT ![t] = d]
  BY <1>1, <1>2, <1>3, DoneFinishes
<1>8. RowsFound(d)
  BY <1>4, <1>5 DEF RowsFound, Finished
<1>9. d \in ReadRecord /\ ReadOK(d)
  BY <1>1, <1>3, <1>5, <1>8, FinishedIsRead
<1> HIDE DEF d, kept, answer
<1>10. QED
  BY <1>6, <1>7, <1>9, ReaderStep

\* TimescaleDB sends what the cap allows, and evaluate takes those that match.
LEMMA ScanInv ==
  ASSUME ReadAssumption, ReadInv, UNCHANGED <<adapter, past>>, NEW t \in Reader, Scan(t)
  PROVE  ReadInv'
<1>1. PICK r : r = read[t]
  OBVIOUS
<1> DEFINE f == r.query.filter
           limit == LoopLimit(r.query.limit)
<1>2. adapter = "timescale" /\ r.stage = "listing" /\ cache' = cache
  BY <1>1 DEF Scan
<1>3. PICK sent \in AtMost(MaxScan, DOMAIN Present) :
        \E kept \in AtMost(limit, Evaluated(f, [e \in sent |-> Present[e]], <<>>)) : Done(t, kept)
  BY <1>1, Zenon DEF Scan
<1> DEFINE found == SentAndScanned(f, sent, Now)
<1>4. PICK rows \in AtMost(limit, found) : Done(t, rows)
  BY <1>3, Zenon DEF SentAndScanned, Present
<1>5. read[t] # Idle
  BY <1>1, <1>2 DEF Idle
<1>6. r \in ReadRecord /\ ReadOK(r) /\ r.query \in Queries /\ r.since \in 1 .. Now
  BY <1>1, <1>5, ReadFacts
<1>7. Now \in Nat \ {0} /\ Present \in StoreSet /\ Present = past[Now]
  BY HistoryFacts DEF ReadInv, Present
<1>8. rows \in (SUBSET Entity) \cup {Failure}
  <2>1. sent \subseteq DOMAIN Present /\ DOMAIN Present \subseteq Entity
    BY <1>3, <1>7, StoreFacts, CapFacts DEF ReadAssumption
  <2>2. found \in SUBSET Entity
    BY <2>1 DEF SentAndScanned, Evaluated
  <2>3. limit \in Nat \cup {NoLimit}
    BY <1>6, LimitFacts
  <2> HIDE DEF found, limit
  <2>4. QED
    BY <1>4, <2>2, <2>3, RowsAreEntities
<1> DEFINE d == Finished(r, rows, Now)
<1>9. read' = [read EXCEPT ![t] = d]
  BY <1>1, <1>4, <1>5, DoneFinishes
<1>10. RowsFound(d)
  <2>1. /\ Now \in r.since .. Now /\ sent \in AtMost(MaxScan, DOMAIN past[Now])
        /\ rows \in AtMost(limit, SentAndScanned(f, sent, Now))
    BY <1>3, <1>4, <1>6, <1>7
  <2>2. ~ Cacheable(f)
    BY <1>2, <1>6 DEF ReadOK
  <2>3. QED
    BY <1>2, <2>1, <2>2 DEF RowsFound, Finished
<1>11. d \in ReadRecord /\ ReadOK(d)
  BY <1>1, <1>5, <1>8, <1>10, FinishedIsRead
<1> HIDE DEF d
<1>12. QED
  BY <1>2, <1>9, <1>11, SameCache, ReaderStep

\* Redis intersects the tag sets.
LEMMA ListInv ==
  ASSUME ReadAssumption, ReadInv, UNCHANGED <<adapter, past>>, NEW t \in Reader, List(t)
  PROVE  ReadInv'
<1>1. PICK r : r = read[t]
  OBVIOUS
<1> DEFINE f == r.query.filter
<1>2. /\ adapter = "redis" /\ r.stage = "listing" /\ cache' = cache
  BY <1>1 DEF List
<1>3. PICK rows \in Candidates(f) : read' = [read EXCEPT ![t].stage = "fetching", ![t].rows = rows]
  BY <1>1, Zenon DEF List
<1>4. read' = [read EXCEPT ![t] = [[r EXCEPT !.stage = "fetching"] EXCEPT !.rows = rows]]
  BY <1>1, <1>3 DEF ReadInv
<1>5. read[t] # Idle
  BY <1>1, <1>2 DEF Idle
<1>6. r \in ReadRecord /\ ReadOK(r) /\ r.query \in Queries /\ r.since \in 1 .. Now
  BY <1>1, <1>5, ReadFacts
<1>7. Now \in Nat \ {0} /\ DOMAIN past = 1 .. Now /\ Present \in StoreSet
  BY HistoryFacts DEF ReadInv
<1>8. rows \in CandidatesAt(f, Now)
  <2>1. \A tag : Tagged(tag) = TaggedBy(tag, Now)
    BY <1>7 DEF Tagged, TaggedBy
  <2>2. QED
    BY <1>3, <2>1 DEF Candidates, CandidatesAt, Present
<1>9. rows \in SUBSET Entity
  BY <1>7, <1>8, CandidatesAreStored, StoreFacts DEF Present
<1> DEFINE d == [stage |-> "fetching", query |-> r.query, asked |-> r.asked, since |-> r.since,
                 until |-> r.until, rows |-> rows]
<1>10. read' = [read EXCEPT ![t] = d]
  <2> DEFINE y == [r EXCEPT !.stage = "fetching"]
  <2>1. r = [stage |-> r.stage, query |-> r.query, asked |-> r.asked, since |-> r.since,
             until |-> r.until, rows |-> r.rows]
    BY <1>6 DEF ReadRecord
  <2>2. y = [stage |-> "fetching", query |-> r.query, asked |-> r.asked, since |-> r.since,
             until |-> r.until, rows |-> r.rows]
    BY <2>1
  <2> HIDE DEF y
  <2>3. [y EXCEPT !.rows = rows] = d
    BY <2>2
  <2>4. QED
    BY <1>4, <2>3 DEF y
<1>11. d \in ReadRecord
  BY <1>6, <1>9 DEF ReadRecord
<1>12. ReadOK(d)
  <2>1. d.since \in 1 .. d.until /\ d.until \in 1 .. Now /\ d.asked = d.query.filter
    BY <1>2, <1>6 DEF ReadOK
  <2>2. ~ Cacheable(f) /\ Now \in r.since .. Now
    BY <1>2, <1>6, <1>7 DEF ReadOK
  <2>3. QED
    BY <1>2, <1>8, <2>1, <2>2 DEF ReadOK
<1> HIDE DEF d
<1>13. QED
  BY <1>2, <1>10, <1>11, <1>12, SameCache, ReaderStep

\* Redis sends what it listed, as it is by now.
LEMMA FetchInv ==
  ASSUME ReadAssumption, ReadInv, UNCHANGED <<adapter, past>>, NEW t \in Reader, Fetch(t)
  PROVE  ReadInv'
<1>1. PICK r : r = read[t]
  OBVIOUS
<1> DEFINE f == r.query.filter
           limit == LoopLimit(r.query.limit)
           known == [e \in r.rows |-> Present[e]]
           found == Evaluated(f, known, known)
<1>2. r.stage = "fetching" /\ cache' = cache
  BY <1>1 DEF Fetch
<1>3. PICK rows \in AtMost(limit, found) : Done(t, rows)
  BY <1>1 DEF Fetch
<1>4. read[t] # Idle
  BY <1>1, <1>2 DEF Idle
<1>5. r \in ReadRecord /\ ReadOK(r) /\ r.query \in Queries /\ r.since \in 1 .. Now
  BY <1>1, <1>4, ReadFacts
<1>6. Now \in Nat \ {0} /\ Present = past[Now]
  BY HistoryFacts DEF ReadInv, Present
<1>7. PICK n \in r.since .. Now : r.rows \in CandidatesAt(f, n)
  BY <1>2, <1>5 DEF ReadOK
<1>8. found = ListedAndFetched(f, r.rows, Now)
  BY <1>6 DEF ListedAndFetched
<1>9. rows \in (SUBSET Entity) \cup {Failure}
  <2>1. found \in SUBSET Entity
    <3>1. n \in 1 .. Now
      BY <1>5, <1>6
    <3>2. past[n] \in StoreSet /\ DOMAIN past[n] \subseteq Entity
      BY <3>1, HistoryFacts, StoreFacts DEF ReadInv
    <3>3. found \subseteq r.rows /\ r.rows \subseteq DOMAIN past[n]
      BY <1>7, <3>2, CandidatesAreStored DEF Evaluated
    <3>4. QED
      BY <3>2, <3>3
  <2>2. limit \in Nat \cup {NoLimit}
    BY <1>5, LimitFacts
  <2> HIDE DEF found, limit
  <2>3. QED
    BY <1>3, <2>1, <2>2, RowsAreEntities
<1> DEFINE d == Finished(r, rows, Now)
<1>10. read' = [read EXCEPT ![t] = d]
  BY <1>1, <1>3, <1>4, DoneFinishes
<1>11. RowsFound(d)
  <2>1. /\ n \in r.since .. Now /\ rows \in AtMost(limit, ListedAndFetched(f, r.rows, Now))
        /\ r.rows \in CandidatesAt(f, n)
    BY <1>3, <1>7, <1>8
  <2>2. ~ Cacheable(f) /\ adapter = "redis"
    BY <1>2, <1>5 DEF ReadOK
  <2>3. QED
    BY <2>1, <2>2 DEF RowsFound, Finished
<1>12. d \in ReadRecord /\ ReadOK(d)
  BY <1>1, <1>4, <1>9, <1>11, FinishedIsRead
<1> HIDE DEF d
<1>13. QED
  BY <1>2, <1>10, <1>12, SameCache, ReaderStep

\* Every step.
LEMMA StepReadInv ==
  ASSUME ReadAssumption, ReadInv, [Next]_vars
  PROVE  ReadInv'
<1>1. CASE UNCHANGED vars
  <2>1. Grown
    BY <1>1, HistoryFacts DEF ReadInv, Grown, Now, vars
  <2>2. CacheOK'
    BY <1>1, SameCache DEF vars
  <2>3. ASSUME NEW t \in Reader, read[t] # Idle PROVE ReadOK(read[t])'
    <3>1. PICK r : r = read[t]
      OBVIOUS
    <3>2. ReadOK(r)'
      BY <1>1, <2>1, <2>3, <3>1, StillRead DEF ReadInv, vars
    <3>3. QED
      BY <1>1, <3>1, <3>2 DEF vars
  <2>4. QED
    BY <1>1, <2>2, <2>3 DEF ReadInv, HistoryOK, Now, vars
<1>2. CASE \E batch \in Batches : Load(batch)
  BY <1>2, LoadInv
<1>3. ASSUME NEW t \in Reader, Goes(t), UNCHANGED <<adapter, past>>
      PROVE  ReadInv'
  <2>1. CASE Begin(t)
    <3>1. PICK q \in Queries : ReadMemory(t, q) \/ ReadCached(t, q) \/ Ask(t, q)
      BY <2>1 DEF Begin
    <3>2. read[t] = Idle
      BY <2>1 DEF Begin
    <3>3. QED
      BY <1>3, <3>1, <3>2, ReadMemoryInv, ReadCachedInv, AskInv
  <2>2. CASE Query(t)
    BY <1>3, <2>2, QueryInv
  <2>3. CASE Keep(t)
    BY <1>3, <2>3, KeepInv
  <2>4. CASE Scan(t)
    BY <1>3, <2>4, ScanInv
  <2>5. CASE List(t)
    BY <1>3, <2>5, ListInv
  <2>6. CASE Fetch(t)
    BY <1>3, <2>6, FetchInv
  <2>7. QED
    BY <1>3, <2>1, <2>2, <2>3, <2>4, <2>5, <2>6 DEF Goes
<1>4. QED
  BY <1>1, <1>2, <1>3 DEF Next

\* The invariant holds for every adapter, whatever is loaded between the steps of
\* the reads.
THEOREM ReadInvariant ==
  ASSUME ReadAssumption
  PROVE  Spec => []ReadInv
<1>1. Init => ReadInv
  BY InitReadInv
<1>2. ReadInv /\ [Next]_vars => ReadInv'
  BY StepReadInv
<1>3. QED
  BY <1>1, <1>2, PTL DEF Spec

------------------------------------------------------------------------------
(* What the invariant says of the answers                                     *)

\* What AnswersAsEvaluated says of one read.
AsEvaluated(r) ==
    /\ r.rows # Failure
    /\ \A e \in r.rows : \E db \in Times(r) : Means(r, e, db)
    /\ r.query.limit = NoLimit /\ ~ Cut(r) =>
         \A e \in Entity \ r.rows : \E db \in Times(r) : ~ Means(r, e, db)
    /\ r.query.limit # NoLimit => Cardinality(r.rows) <= LoopLimit(r.query.limit)

\* The rows of r are as many of the ones found as its limit, or that of a search, allows.
Enough(r, found) ==
    \/ r.rows \in AtMost(r.query.limit, found)
    \/ r.rows \in AtMost(LoopLimit(r.query.limit), found)
    \/ /\ adapter = "redis" /\ Indexable(r.query.filter)
       /\ r.rows \in AtMost(FtLimit(r.query.limit), found)

\* Such rows are of the ones found, all of them without a limit or a cut, and no
\* more than it with one.
LEMMA AmountIsKept ==
  ASSUME ReadAssumption, NEW r, r.query \in Queries, NEW found \in SUBSET Entity, Enough(r, found)
  PROVE  /\ r.rows \subseteq found /\ r.rows # Failure
         /\ r.query.limit = NoLimit => r.rows = found \/ Cut(r)
         /\ r.query.limit # NoLimit => Cardinality(r.rows) <= LoopLimit(r.query.limit)
<1> DEFINE limit == r.query.limit
           loop == LoopLimit(limit)
           rows == r.rows
           search == adapter = "redis" /\ Indexable(r.query.filter)
<1>1. /\ limit \in Nat \cup {NoLimit} /\ loop \in Nat \cup {NoLimit}
      /\ limit = NoLimit <=> loop = NoLimit
      /\ limit # NoLimit => limit <= loop
  BY LimitFacts
<1>2. Failure \notin SUBSET Entity /\ IsFiniteSet(Entity)
  BY DEF ReadAssumption
<1>3. \/ rows \in AtMost(limit, found) \/ rows \in AtMost(loop, found)
      \/ search /\ rows \in AtMost(FtLimit(limit), found)
  BY DEF Enough
<1>4. search => (Cut(r) <=> Cardinality(rows) = MaxFt)
  BY DEF Cut
<1> HIDE DEF rows, loop, limit, search
<1>5. CASE \E most \in {limit, loop} : rows \in AtMost(most, found)
  <2>1. PICK most \in {limit, loop} : rows \in AtMost(most, found)
    BY <1>5
  <2>2. /\ rows \subseteq found
        /\ most = NoLimit => rows = found
        /\ most # NoLimit => Cardinality(rows) <= most
    BY <1>1, <2>1, AtMostFacts
  <2>3. Cardinality(rows) \in Nat
    BY <1>2, <2>2, FS_Subset, FS_CardinalityType
  <2>4. limit # NoLimit => Cardinality(rows) <= loop
    BY <1>1, <2>1, <2>2, <2>3
  <2>5. limit = NoLimit => rows = found
    BY <1>1, <2>1, <2>2
  <2>6. QED
    BY <1>2, <2>2, <2>4, <2>5 DEF rows, loop, limit
<1>6. CASE search /\ rows \in AtMost(FtLimit(limit), found)
  <2>1. /\ FtLimit(limit) \in Nat /\ FtLimit(limit) # NoLimit
        /\ limit = NoLimit => FtLimit(limit) = MaxFt
        /\ limit # NoLimit => FtLimit(limit) <= limit
    BY <1>1, FtLimitFacts
  <2>2. rows \subseteq found /\ Cardinality(rows) <= FtLimit(limit)
    BY <1>6, <2>1, AtMostFacts
  <2>3. rows = found \/ Cardinality(rows) = FtLimit(limit)
    BY <1>6, <2>1, CapFacts
  <2>4. Cardinality(rows) \in Nat
    BY <1>2, <2>2, FS_Subset, FS_CardinalityType
  <2>5. limit = NoLimit => rows = found \/ Cut(r)
    BY <1>4, <1>6, <2>1, <2>3
  <2>6. limit # NoLimit => Cardinality(rows) <= loop
    BY <1>1, <2>1, <2>2, <2>4
  <2>7. QED
    BY <1>2, <2>2, <2>5, <2>6 DEF rows, loop, limit
<1>7. QED
  BY <1>3, <1>5, <1>6

\* An answer that is right for one of its times, or for what was sent of it, is as
\* evaluate would answer.
LEMMA FoundAtOnce ==
  ASSUME ReadAssumption, ReadInv, NEW r \in ReadRecord, r.since \in 1 .. r.until, r.until \in 1 .. Now,
         ~ (adapter = "memory" /\ IsLoneTag(r.query.filter)), NEW n \in r.since .. r.until,
         NEW some \in SUBSET {e \in DOMAIN past[n] : Means(r, e, past[n])}, Enough(r, some),
         ~ Cut(r) => some = {e \in DOMAIN past[n] : Means(r, e, past[n])}
  PROVE  AsEvaluated(r)
<1> DEFINE found == {e \in DOMAIN past[n] : Means(r, e, past[n])}
<1>1. r.query \in Queries /\ past[n] \in Times(r)
  BY DEF ReadRecord, Times
<1>2. n \in 1 .. Now
  BY HistoryFacts DEF ReadInv
<1>3. DOMAIN past[n] \subseteq Entity
  BY <1>2, HistoryFacts, StoreFacts DEF ReadInv
<1>4. some \in SUBSET Entity
  BY <1>3
<1>5. \A e : Means(r, e, past[n]) => e \in found
  BY DEF Means
<1>6. /\ r.rows \subseteq some /\ r.rows # Failure
      /\ r.query.limit = NoLimit => r.rows = some \/ Cut(r)
      /\ r.query.limit # NoLimit => Cardinality(r.rows) <= LoopLimit(r.query.limit)
  <2> HIDE DEF found
  <2>1. QED
    BY <1>1, <1>4, AmountIsKept
<1>7. \A e \in r.rows : Means(r, e, past[n])
  BY <1>6
<1>8. r.query.limit = NoLimit /\ ~ Cut(r) => r.rows = found
  BY <1>6
<1> HIDE DEF found
<1>9. QED
  BY <1>1, <1>5, <1>6, <1>7, <1>8 DEF AsEvaluated

\* evaluate of a filter that is one tag.
LEMMA LoneTagMatches ==
  ASSUME NEW f, IsFilter(f), IsLoneTag(f), NEW dict, \A tag \in DOMAIN dict : dict[tag] \in Value, NEW known
  PROVE  Matches(f, dict, known) <=> Head(Root(f).path) \in DOMAIN dict
<1>1. PICK m \in [DOMAIN f -> BOOLEAN] : MatchTable(f, dict, known, m) /\ Matches(f, dict, known) = m[Len(f)]
  BY MatchesIs
<1>2. Len(f) \in DOMAIN f
  BY DEF IsFilter
<1>3. Root(f).kind = "has" /\ Len(Root(f).path) = 1 /\ ~ IsJoin(f[Len(f)]) /\ Root(f) = f[Len(f)]
  BY DEF IsLoneTag, Root, Simple, IsJoin
<1>4. Root(f).path \in TagPath
  BY <1>2, <1>3, NodeFacts
<1> DEFINE tag == Head(Root(f).path)
           x == TagAt(Root(f).path, dict, known)
<1>5. x = IF tag \in DOMAIN dict THEN dict[tag] ELSE Gone
  BY <1>3, <1>4, SimpleTag
<1>6. Matches(f, dict, known) = LeafMatches(Root(f), dict, known)
  BY <1>1, <1>2, <1>3 DEF MatchTable
<1>7. LeafMatches(Root(f), dict, known) <=> x # Gone
  BY <1>3 DEF LeafMatches
<1>8. tag \in DOMAIN dict => dict[tag] # Gone
  BY ValueFacts
<1>9. QED
  BY <1>5, <1>6, <1>7, <1>8

\* The memory adapter.  A lone tag is looked up in the index, which also has the
\* entities that had the tag before.
LEMMA MemoryIsExact ==
  ASSUME ReadAssumption, ReadInv, NEW r \in ReadRecord, r.since \in 1 .. r.until, r.until \in 1 .. Now,
         adapter = "memory", RowsFound(r)
  PROVE  AsEvaluated(r)
<1> DEFINE f == r.query.filter
           n == r.until
<1>1. r.query \in Queries /\ IsFilter(f)
  BY LimitFacts DEF ReadRecord
<1>2. r.since = n /\ Enough(r, FoundInMemory(f, n))
  BY DEF RowsFound, Enough
<1>3. /\ past[n] \in StoreSet /\ DOMAIN past[n] \subseteq Entity
      /\ \A i \in 1 .. n : \A e \in DOMAIN past[i] : past[i][e] \in Dicts
  BY HistoryFacts, StoreFacts DEF ReadInv
<1>4. CASE ~ IsLoneTag(f)
  <2>1. FoundInMemory(f, n) = {e \in DOMAIN past[n] : Means(r, e, past[n])}
    BY <1>4 DEF FoundInMemory, Evaluated, Means
  <2>2. n \in r.since .. r.until
    BY <1>2, HistoryFacts DEF ReadInv
  <2>3. QED
    BY <1>2, <1>4, <2>1, <2>2, FoundAtOnce
<1>5. CASE IsLoneTag(f)
  <2> DEFINE tag == Head(Root(f).path)
             found == TaggedBy(tag, n) \cap DOMAIN past[n]
  <2>1. Enough(r, found) /\ found \in SUBSET Entity
    BY <1>2, <1>3, <1>5 DEF FoundInMemory
  <2>2. Times(r) = {past[i] : i \in 1 .. n}
    BY <1>5 DEF Times
  <2>3. ASSUME NEW i \in 1 .. n, NEW e \in DOMAIN past[i]
        PROVE  Means(r, e, past[i]) <=> tag \in DOMAIN past[i][e]
    <3>1. \A t \in DOMAIN past[i][e] : past[i][e][t] \in Value
      BY <1>3, DictsHoldValues
    <3>2. Matches(f, past[i][e], past[i]) <=> tag \in DOMAIN past[i][e]
      BY <1>1, <1>5, <3>1, LoneTagMatches
    <3>3. QED
      BY <3>2 DEF Means
  <2>4. ASSUME NEW e \in found
        PROVE  \E db \in Times(r) : Means(r, e, db)
    <3>1. PICK i \in 1 .. n : e \in DOMAIN past[i] /\ tag \in DOMAIN past[i][e]
      BY DEF TaggedBy
    <3>2. QED
      BY <2>2, <2>3, <3>1
  <2>5. ASSUME NEW e \in Entity \ found
        PROVE  \E db \in Times(r) : ~ Means(r, e, db)
    <3>1. n \in 1 .. n
      BY HistoryFacts DEF ReadInv
    <3>2. e \notin DOMAIN past[n] \/ tag \notin DOMAIN past[n][e]
      BY <3>1 DEF TaggedBy
    <3>3. ~ Means(r, e, past[n])
      <4>1. CASE e \notin DOMAIN past[n]
        BY <4>1 DEF Means
      <4>2. CASE e \in DOMAIN past[n]
        BY <2>3, <3>1, <3>2, <4>2
      <4>3. QED
        BY <4>1, <4>2
    <3>4. QED
      BY <2>2, <3>1, <3>3
  <2> HIDE DEF found
  <2>6. /\ r.rows \subseteq found /\ r.rows # Failure
        /\ r.query.limit = NoLimit => r.rows = found \/ Cut(r)
        /\ r.query.limit # NoLimit => Cardinality(r.rows) <= LoopLimit(r.query.limit)
    BY <1>1, <2>1, AmountIsKept
  <2>7. QED
    BY <2>4, <2>5, <2>6 DEF AsEvaluated
<1>6. QED
  BY <1>4, <1>5

\* TimescaleDB, a filter that is translated.
LEMMA SqlIsExact ==
  ASSUME ReadAssumption, ReadInv, NEW r \in ReadRecord, r.since \in 1 .. r.until, r.until \in 1 .. Now,
         adapter = "timescale", Translates(r.query.filter), RowsFound(r), Exact(r)
  PROVE  AsEvaluated(r)
<1> DEFINE f == r.query.filter
<1>1. r.query \in Queries /\ IsFilter(f)
  BY LimitFacts DEF ReadRecord
<1>2. Cacheable(f) /\ adapter # "memory" /\ adapter # "redis"
  BY DEF Cacheable
<1>3. /\ r.asked = f
      /\ \A db \in Times(r), leaf \in Comparisons(f) : \A e \in DOMAIN db : Alike(db[e], leaf)
  BY DEF Exact
<1>4. AnsweredIn(r.asked, r.query.limit, r.since, r.until, r.rows)
  BY <1>2 DEF RowsFound
<1>5. PICK n \in r.since .. r.until : r.rows \in Answers(r.asked, r.query.limit, past[n])
  BY <1>4 DEF AnsweredIn
<1> DEFINE db == past[n]
           found == {e \in DOMAIN db : Means(r, e, db)}
<1>6. r.rows \in SqlAnswers(f, r.query.limit, db)
  BY <1>2, <1>3, <1>5 DEF Answers
<1>7. n \in 1 .. Now /\ db \in Times(r)
  BY <1>2, HistoryFacts DEF ReadInv, Times
<1>8. db \in StoreSet
  BY <1>7, HistoryFacts DEF ReadInv
<1>9. \A e \in DOMAIN db : \A tag \in DOMAIN db[e] : db[e][tag] \in Value
  BY <1>8, StoreFacts, DictsHoldValues
<1>10. \A e \in DOMAIN db : SqlRow(f, db[e]) = YesNo(Matches(f, db[e], <<>>))
  <2> SUFFICES ASSUME NEW e \in DOMAIN db PROVE SqlRow(f, db[e]) = YesNo(Matches(f, db[e], <<>>))
    OBVIOUS
  <2>1. \A leaf \in Comparisons(f) : Alike(db[e], leaf)
    BY <1>3, <1>7
  <2>2. \A tag \in DOMAIN db[e] : db[e][tag] \in Value
    BY <1>9
  <2> HIDE DEF db
  <2>3. QED
    BY <1>1, <2>1, <2>2, SqlRowIsMatch
<1>11. /\ {e \in DOMAIN db : "yes" \in SqlRow(f, db[e])} = found
       /\ {e \in DOMAIN db : "fails" \in SqlRow(f, db[e])} = {}
       /\ {e \in DOMAIN db : SqlRow(f, db[e]) = {"fails"}} = {}
  <2>1. \A e \in DOMAIN db : Means(r, e, db) <=> Matches(f, db[e], <<>>)
    BY DEF Means
  <2> HIDE DEF db
  <2>2. QED
    BY <1>10, <2>1 DEF YesNo
<1>12. r.rows \in AtMost(r.query.limit, found)
  <2> HIDE DEF found, db, f
  <2>1. QED
    BY <1>6, <1>11 DEF SqlAnswers
<1>13. Enough(r, found)
  BY <1>12 DEF Enough
<1>14. QED
  BY <1>2, <1>13, FoundAtOnce

\* TimescaleDB, any other: the loop over the entities that are sent, without a
\* resolver.
LEMMA ScanIsExact ==
  ASSUME ReadAssumption, ReadInv, NEW r \in ReadRecord, r.since \in 1 .. r.until, r.until \in 1 .. Now,
         adapter = "timescale", ~ Translates(r.query.filter), RowsFound(r)
  PROVE  AsEvaluated(r)
<1> DEFINE f == r.query.filter
<1>1. ~ Cacheable(f) /\ adapter # "memory" /\ adapter # "redis"
  BY DEF Cacheable
<1>2. PICK n \in r.since .. r.until : \E sent \in AtMost(MaxScan, DOMAIN past[n]) :
         r.rows \in AtMost(LoopLimit(r.query.limit), SentAndScanned(f, sent, n))
  BY <1>1 DEF RowsFound
<1>3. PICK sent \in AtMost(MaxScan, DOMAIN past[n]) :
         r.rows \in AtMost(LoopLimit(r.query.limit), SentAndScanned(f, sent, n))
  BY <1>2
<1>4. n \in 1 .. Now /\ past[n] \in Times(r)
  BY <1>1, HistoryFacts DEF ReadInv, Times
<1>5. DOMAIN past[n] \in SUBSET Entity /\ MaxScan \in Nat
  BY <1>4, HistoryFacts, StoreFacts DEF ReadInv, ReadAssumption
<1>6. /\ sent \subseteq DOMAIN past[n]
      /\ sent = DOMAIN past[n] \/ Cardinality(DOMAIN past[n]) > MaxScan
  BY <1>5, CapFacts
<1>7. Cardinality(DOMAIN past[n]) > MaxScan => Cut(r)
  BY <1>1, <1>4 DEF Cut
<1> DEFINE some == SentAndScanned(f, sent, n)
<1>8. some = {e \in sent : Means(r, e, past[n])}
  BY <1>6 DEF SentAndScanned, Evaluated, Means
<1>9. Enough(r, some)
  BY <1>3 DEF Enough
<1> HIDE DEF some
<1>10. QED
  BY <1>1, <1>6, <1>7, <1>8, <1>9, FoundAtOnce

\* Redis, a filter that is translated: the answer kept may be that of another filter
\* with the same text.
LEMMA SearchIsExact ==
  ASSUME ReadAssumption, ReadInv, NEW r \in ReadRecord, r.since \in 1 .. r.until, r.until \in 1 .. Now,
         adapter = "redis", Indexable(r.query.filter), RowsFound(r), Exact(r)
  PROVE  AsEvaluated(r)
<1> DEFINE f == r.query.filter
<1>1. r.query \in Queries /\ IsFilter(f)
  BY LimitFacts DEF ReadRecord
<1>2. Cacheable(f) /\ adapter # "memory"
  BY DEF Cacheable
<1>3. /\ \A x \in Joins(f) : x.kind = "and" => f[x.left].kind # "or" /\ f[x.right].kind # "or"
      /\ \A leaf \in Comparisons(f) : leaf.val[1] = "ref"
  BY DEF Exact
<1>4. PICK q \in Queries : q.filter = r.asked /\ Key(q) = Key(r.query)
  BY <1>2 DEF RowsFound
<1>5. IsFilter(r.asked) /\ QueryText(r.asked) = QueryText(f)
  BY <1>4, LimitFacts DEF Key
<1>6. AnsweredIn(r.asked, r.query.limit, r.since, r.until, r.rows)
  BY <1>2 DEF RowsFound
<1>7. PICK n \in r.since .. r.until : r.rows \in Answers(r.asked, r.query.limit, past[n])
  BY <1>6 DEF AnsweredIn
<1> DEFINE db == past[n]
           found == {e \in DOMAIN db : Means(r, e, db)}
           same == {e \in DOMAIN db : SomeOf(FtAlternatives(r.asked, db[e]))}
<1>8. r.rows \in AtMost(FtLimit(r.query.limit), same)
  BY <1>7 DEF Answers, FtAnswers
<1>9. n \in 1 .. Now
  BY HistoryFacts DEF ReadInv
<1>10. db \in StoreSet
  BY <1>9, HistoryFacts DEF ReadInv
<1>11. ASSUME NEW e \in DOMAIN db
       PROVE  SomeOf(FtAlternatives(r.asked, db[e])) <=> Means(r, e, db)
  <2>1. \A tag \in DOMAIN db[e] : db[e][tag] \in Value
    BY <1>10, StoreFacts, DictsHoldValues
  <2>2. FtAlternatives(r.asked, db[e]) = FtAlternatives(f, db[e])
    BY <1>1, <1>5, SameText
  <2>3. SomeOf(FtAlternatives(f, db[e])) <=> Matches(f, db[e], db)
    <3> HIDE DEF db
    <3>1. QED
      BY <1>1, <1>3, <2>1, FtIsMatch
  <2>4. Means(r, e, db) <=> Matches(f, db[e], db)
    BY DEF Means
  <2>5. QED
    BY <2>2, <2>3, <2>4
<1>12. same = found
  <2> HIDE DEF db
  <2>1. QED
    BY <1>11
<1>13. Enough(r, found)
  BY <1>8, <1>12, adapter = "redis", Indexable(f) DEF Enough
<1>14. QED
  BY <1>2, <1>13, FoundAtOnce

\* Redis, any other: an entity that was not listed did not match when the ids were
\* listed, the others are evaluated as they are when they are fetched.
LEMMA FetchIsExact ==
  ASSUME ReadAssumption, ReadInv, NEW r \in ReadRecord, r.since \in 1 .. r.until, r.until \in 1 .. Now,
         adapter = "redis", ~ Indexable(r.query.filter), RowsFound(r), Exact(r)
  PROVE  AsEvaluated(r)
<1> DEFINE f == r.query.filter
           last == past[r.until]
<1>1. r.query \in Queries /\ IsFilter(f)
  BY LimitFacts DEF ReadRecord
<1>2. ~ Cacheable(f) /\ adapter # "memory" /\ adapter # "timescale"
  BY DEF Cacheable
<1>3. (\A leaf \in Leaves(f) : Simple(leaf)) \/ (HasTags(f) = {} /\ r.since = r.until /\ ~ Cut(r))
  BY DEF Exact
<1>4. PICK n \in r.since .. r.until : \E listed \in CandidatesAt(f, n) :
         r.rows \in AtMost(LoopLimit(r.query.limit), ListedAndFetched(f, listed, r.until))
  BY <1>2 DEF RowsFound
<1>5. n \in 1 .. Now /\ n <= r.until
  BY HistoryFacts DEF ReadInv
<1>6. /\ DOMAIN past[n] \subseteq DOMAIN last /\ last \in StoreSet /\ DOMAIN last \subseteq Entity
      /\ past[n] \in StoreSet
  BY <1>5, HistoryFacts, StoreFacts DEF ReadInv, HistoryOK
<1>7. past[n] \in Times(r) /\ last \in Times(r)
  BY <1>2, HistoryFacts DEF Times, ReadInv
<1>8. PICK listed \in CandidatesAt(f, n) :
         r.rows \in AtMost(LoopLimit(r.query.limit), ListedAndFetched(f, listed, r.until))
  BY <1>4
<1> DEFINE known == [e \in listed |-> last[e]]
           found == ListedAndFetched(f, listed, r.until)
<1>9. listed \subseteq DOMAIN past[n] /\ found = {e \in listed : Matches(f, last[e], known)}
  BY <1>6, CandidatesAreStored DEF ListedAndFetched, Evaluated
<1>10. HasTags(f) = {} /\ ~ Cut(r) => listed = DOMAIN past[n]
  <2>1. SUFFICES ASSUME HasTags(f) = {}, Cardinality(DOMAIN past[n]) > MaxScan PROVE Cut(r)
    <3>1. DOMAIN past[n] \in SUBSET Entity /\ MaxScan \in Nat
      BY <1>6, StoreFacts DEF ReadAssumption
    <3>2. HasTags(f) = {} => listed = DOMAIN past[n] \/ Cardinality(DOMAIN past[n]) > MaxScan
      BY <3>1, CapFacts DEF CandidatesAt
    <3>3. QED
      BY <3>2
  <2>2. QED
    BY <1>2, <1>7, <2>1 DEF Cut
<1>11. CASE HasTags(f) = {} /\ r.since = r.until /\ ~ Cut(r)
  <2>1. n = r.until /\ listed = DOMAIN last
    BY <1>5, <1>10, <1>11, HistoryFacts DEF ReadInv
  <2>2. known = last
    BY <1>6, <2>1, StoreFacts
  <2>3. found = {e \in DOMAIN past[n] : Means(r, e, past[n])}
    BY <1>2, <1>9, <2>1, <2>2 DEF Means
  <2>4. Enough(r, found)
    BY <1>8 DEF Enough
  <2> HIDE DEF found
  <2>5. QED
    BY <1>2, <2>3, <2>4, FoundAtOnce
<1>12. CASE \A leaf \in Leaves(f) : Simple(leaf)
  <2>1. \A dict : Matches(f, dict, known) = Matches(f, dict, last)
    BY <1>1, <1>12, AnyResolver
  <2>2. ASSUME NEW e \in found
        PROVE  \E db \in Times(r) : Means(r, e, db)
    <3>1. e \in DOMAIN last /\ Matches(f, last[e], last)
      BY <1>6, <1>9, <2>1
    <3>2. Means(r, e, last)
      BY <1>2, <3>1 DEF Means
    <3>3. QED
      BY <1>7, <3>2
  <2>3. ASSUME NEW e \in Entity \ found, ~ Cut(r)
        PROVE  \E db \in Times(r) : ~ Means(r, e, db)
    <3>1. CASE e \in listed
      <4>1. ~ Matches(f, last[e], last)
        BY <1>9, <2>1, <2>3, <3>1
      <4>2. ~ Means(r, e, last)
        BY <1>2, <4>1 DEF Means
      <4>3. QED
        BY <1>7, <4>2
    <3>2. CASE e \notin listed
      <4>1. SUFFICES ASSUME Means(r, e, past[n]) PROVE FALSE
        BY <1>7
      <4>2. e \in DOMAIN past[n] /\ Matches(f, past[n][e], past[n])
        BY <1>2, <4>1 DEF Means
      <4>3. HasTags(f) \subseteq DOMAIN past[n][e]
        BY <1>1, <4>2, MatchHasTags
      <4>4. n \in 1 .. n
        BY <1>5, HistoryFacts DEF ReadInv
      <4>5. \A tag \in HasTags(f) : e \in TaggedBy(tag, n)
        BY <2>3, <4>2, <4>3, <4>4 DEF TaggedBy
      <4>6. QED
        BY <1>10, <2>3, <3>2, <4>2, <4>5 DEF CandidatesAt
    <3>3. QED
      BY <3>1, <3>2
  <2>4. Enough(r, found) /\ found \in SUBSET Entity
    BY <1>6, <1>8, <1>9 DEF Enough
  <2> HIDE DEF found
  <2>5. /\ r.rows \subseteq found /\ r.rows # Failure
        /\ r.query.limit = NoLimit => r.rows = found \/ Cut(r)
        /\ r.query.limit # NoLimit => Cardinality(r.rows) <= LoopLimit(r.query.limit)
    BY <1>1, <2>4, AmountIsKept
  <2>6. QED
    BY <2>2, <2>3, <2>5 DEF AsEvaluated
<1>13. QED
  BY <1>3, <1>11, <1>12

\* Each adapter's reads, and what they compare.
LEMMA InvAnswers ==
  ASSUME ReadAssumption, ReadInv
  PROVE  AnswersAsEvaluated
<1>1. SUFFICES ASSUME NEW t \in Reader, read[t].stage = "done", Exact(read[t])
               PROVE  AsEvaluated(read[t])
  BY DEF AnswersAsEvaluated, AsEvaluated
<1>2. PICK r : r = read[t]
  OBVIOUS
<1>3. r \in ReadRecord /\ ReadOK(r)
  <2>1. read[t] # Idle
    BY <1>1 DEF Idle
  <2>2. QED
    BY <1>2, <2>1, ReadFacts
<1>4. r.since \in 1 .. r.until /\ r.until \in 1 .. Now /\ RowsFound(r) /\ Exact(r)
  BY <1>1, <1>2, <1>3 DEF ReadOK
<1>5. adapter \in {"memory", "redis", "timescale"}
  BY DEF ReadInv
<1>6. AsEvaluated(r)
  BY <1>3, <1>4, <1>5, MemoryIsExact, SqlIsExact, ScanIsExact, SearchIsExact, FetchIsExact
<1>7. QED
  BY <1>2, <1>6

\* The translations to SQL and to RediSearch, the tag sets, the tag index and the
\* caches of all three adapters answer as evaluate does, wherever Exact says so.
THEOREM AnswersAsEvaluatedAlways ==
  ASSUME ReadAssumption
  PROVE  Spec => []AnswersAsEvaluated
<1>1. ReadInv => AnswersAsEvaluated
  BY InvAnswers
<1>2. QED
  BY <1>1, ReadInvariant, PTL

=============================================================================
