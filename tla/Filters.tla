-------------------------------- MODULE Filters -------------------------------
(* Haystack filters over entities: the nodes of a filter, and what evaluate     *)
(* says of it.                                                                  *)
(*                                                                              *)
(* A value is a tuple whose first element is its kind.  A filter is the         *)
(* sequence of its nodes in the order the parser completes them: an And or an   *)
(* Or comes after its operands and holds their positions, the root is last.     *)
(* A text is known by a name, and ordered as TextOrder says.                    *)
EXTENDS Integers, Sequences

CONSTANT TextOrder     \* the pairs of texts <<s, t>> with s < t, in Python's order

Marker == <<"marker">>
Str(s) == <<"str", s>>
Ref(e) == <<"ref", e>>
Num(n, unit) == <<"num", n, unit, "float">>
Whole(n) == <<"num", n, "", "int">>
Gone == <<"gone">>

\* How str() writes a number: 2, 2.0 or 1e+16.
Form == {"int", "float", "exponent"}
Compare == ({"str", "ref"} \X STRING) \cup ({"num"} \X Int \X STRING \X Form)
Value == {Marker} \cup Compare
TagPath == Seq(STRING) \ {<<>>}

\* The nodes that may stand at position i of a filter.
NodeAt(i) ==
    [kind : {"has", "missing"}, path : TagPath]
    \cup [kind : {"cmp"}, path : TagPath, op : {"==", "!=", "<", "<=", ">", ">="}, val : Compare]
    \cup [kind : {"and", "or"}, left : 1 .. i - 1, right : 1 .. i - 1]

IsFilter(f) ==
    /\ Len(f) \in Nat \ {0} /\ DOMAIN f = 1 .. Len(f)
    /\ \A i \in DOMAIN f : f[i] \in NodeAt(i)

IsJoin(node) == node.kind \in {"and", "or"}
Nodes(f) == {f[i] : i \in DOMAIN f}
Root(f) == f[Len(f)]

Has(path) == <<[kind |-> "has", path |-> path]>>
Missing(path) == <<[kind |-> "missing", path |-> path]>>
Cmp(path, op, val) == <<[kind |-> "cmp", path |-> path, op |-> op, val |-> val]>>

Moved(f, n) ==
    [i \in DOMAIN f |-> IF IsJoin(f[i]) THEN [f[i] EXCEPT !.left = @ + n, !.right = @ + n] ELSE f[i]]
Join(kind, l, r) ==
    l \o Moved(r, Len(l)) \o <<[kind |-> kind, left |-> Len(l), right |-> Len(l) + Len(r)]>>
And(l, r) == Join("and", l, r)
Or(l, r) == Join("or", l, r)

Joins(f) == {n \in Nodes(f) : IsJoin(n)}
Leaves(f) == Nodes(f) \ Joins(f)
Comparisons(f) == {n \in Leaves(f) : n.kind = "cmp"}
Simple(leaf) == Len(leaf.path) = 1

\* What an analysis gives the root that takes the leaves for leaf, and an And or
\* an Or of two results for join.
FromLeaves(f, leaf(_), join(_, _, _)) ==
    LET result[i \in DOMAIN f] ==
            IF IsJoin(f[i]) THEN join(f[i].kind, result[f[i].left], result[f[i].right])
            ELSE leaf(f[i]) IN
    result[Len(f)]

------------------------------------------------------------------------------
(* evaluate: known is what the resolver can find                              *)

NoTags == [tag \in {} |-> Gone]
Resolved(val, known) ==
    IF val[1] = "ref" /\ val[2] \in DOMAIN known THEN known[val[2]] ELSE NoTags

\* The dict in which the i-th name of a path is looked up is what the one before
\* refers to.
TagAt(path, dict, known) ==
    LET current[i \in DOMAIN path] ==
            IF i = 1 THEN dict
            ELSE LET before == current[i - 1] IN
                 IF path[i - 1] \in DOMAIN before THEN Resolved(before[path[i - 1]], known) ELSE NoTags
        last == current[Len(path)] IN
    IF path[Len(path)] \in DOMAIN last THEN last[path[Len(path)]] ELSE Gone

Ordered(m, op, n) ==
    CASE op = "<" -> m < n [] op = "<=" -> m <= n [] op = ">" -> m > n [] op = ">=" -> m >= n

TextOrdered(s, op, t) ==
    \/ op \in {"<", "<="} /\ <<s, t>> \in TextOrder
    \/ op \in {">", ">="} /\ <<t, s>> \in TextOrder
    \/ op \in {"<=", ">="} /\ s = t

\* Equality asks for the unit too, an order only for the numbers; how a number is
\* written does not matter.  Two texts have an order, two kinds have none.
Equal(left, right) ==
    IF left[1] = "num" /\ right[1] = "num" THEN left[2] = right[2] /\ left[3] = right[3]
    ELSE left = right
Compared(left, op, right) ==
    CASE op = "==" -> Equal(left, right)
      [] op = "!=" -> ~Equal(left, right)
      [] OTHER -> \/ left[1] = "num" /\ right[1] = "num" /\ Ordered(left[2], op, right[2])
                  \/ left[1] = "str" /\ right[1] = "str" /\ TextOrdered(left[2], op, right[2])

LeafMatches(leaf, dict, known) ==
    LET tag == TagAt(leaf.path, dict, known) IN
    CASE leaf.kind = "has" -> tag # Gone
      [] leaf.kind = "missing" -> tag = Gone
      [] OTHER -> tag # Gone /\ Compared(tag, leaf.op, leaf.val)

Matches(f, dict, known) ==
    LET leaf(n) == LeafMatches(n, dict, known)
        join(kind, l, r) == IF kind = "and" THEN l /\ r ELSE l \/ r IN
    FromLeaves(f, leaf, join)
==============================================================================
