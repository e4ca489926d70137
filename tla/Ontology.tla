-------------------------------- MODULE Ontology -------------------------------
(* A Namespace of ontology defs: libs that are added one after the other or    *)
(* compiled together, the index of names, the cache of supertypes, and what an *)
(* entity with given markers is taken for.                                     *)
(*                                                                             *)
(* A symbol is its lib prefix (<<>> without one) and its name, each the parts  *)
(* between the dashes.  A def is its symbol and the supertypes it names, in    *)
(* order.                                                                      *)
EXTENDS Naturals, SequencesExt

CONSTANTS Libs,              \* the libs that may be loaded: sequences of defs
          Entities,          \* sets of markers an entity may have
          MaxLoads           \* a bound: libs added

Symbol == [lib : Seq(STRING), parts : Seq(STRING) \ {<<>>}]
Def == [symbol : Symbol, is : Seq(Symbol)]

\* The tag of a marker has no lib prefix.
OntologyAssumption ==
    /\ Libs \subseteq Seq(Def)
    /\ \A markers \in Entities : \A m \in markers : m \in Symbol /\ m.lib = <<>>
    /\ MaxLoads \in Nat

VARIABLES byName,            \* _by_name: symbol -> def
          supers,            \* _supertypes_cache: symbol -> set of defs
          loads,             \* number of libs loaded
          compiled           \* the namespace is as compile_namespace returned it

vars == <<byName, supers, loads, compiled>>

Sym(lib, parts) == [lib |-> lib, parts |-> parts]
Unqualified(s) == Sym(<<>>, s.parts)
Names == DOMAIN byName
NoDefs == [s \in {} |-> s]

------------------------------------------------------------------------------
(* The index.                                                                 *)

Put(index, s, d) == [t \in DOMAIN index \cup {s} |-> IF t = s THEN d ELSE index[t]]

\* A def takes the place of another with its symbol; its unqualified name is
\* left to the first.
Indexed(index, d) ==
    LET own == Put(index, d.symbol, d) IN
    IF Unqualified(d.symbol) \in DOMAIN own THEN own ELSE Put(own, Unqualified(d.symbol), d)

IndexAfter(index, defs) ==
    LET after[i \in 0 .. Len(defs)] == IF i = 0 THEN index ELSE Indexed(after[i - 1], defs[i]) IN
    after[Len(defs)]

AllDefs(index) == {index[s] : s \in {t \in DOMAIN index : index[t].symbol = t}}

\* The dashes of the prefix count: my-lib::water is a conjunct, of "my" and
\* lib::water.
IsConjunct(s) == Len(s.lib) > 1 \/ Len(s.parts) > 1
OnePart(lib, p) == Sym(lib, <<p>>)
ConjunctParts(s) ==
    LET before == IF s.lib = <<>> THEN <<>> ELSE Front(s.lib)
        rest == IF s.lib = <<>> THEN <<>> ELSE <<Last(s.lib)>> IN
    [i \in DOMAIN before |-> OnePart(<<>>, before[i])] \o
        [i \in DOMAIN s.parts |-> OnePart(IF i = 1 THEN rest ELSE <<>>, s.parts[i])]

------------------------------------------------------------------------------
(* The taxonomy.                                                              *)

Ups(index, symbols) == UNION {Range(index[s].is) : s \in symbols \cap DOMAIN index}

\* What the loops of is_subtype, all_supertypes and _has_cycle visit from s on, by
\* levels: a symbol is visited once, whatever the order in the queue.
Visited(index, s) ==
    LET upTo[n \in 0 .. Cardinality(DOMAIN index)] ==
            IF n = 0 THEN {s} ELSE LET v == upTo[n - 1] IN v \cup Ups(index, v) IN
    upTo[Cardinality(DOMAIN index)]

Reaches(index, s, sup) == sup \in Ups(index, Visited(index, s))

IsSubtype(sub, sup) == sub = sup \/ Reaches(byName, sub, sup)
DirectCycle(index, s) == s \in Range(index[s].is)
                                       \* mutant: only a def that names itself is found
HasCycle(index, s) == Reaches(index, s, s)

\* The walk of all_supertypes takes a symbol that is known and not visited.
Walk(index, s) == {index[p] : p \in (Ups(index, Visited(index, s)) \cap DOMAIN index) \ {s}}
AllSupertypes(s) == IF s \in DOMAIN supers THEN supers[s] ELSE Walk(byName, s)

------------------------------------------------------------------------------
(* Reflection.                                                                *)

FindConjuncts(markers) ==
    {d \in AllDefs(byName) : /\ IsConjunct(d.symbol) /\ d.symbol \notin markers
                             /\ Range(ConjunctParts(d.symbol)) \subseteq markers}

Direct(markers) == {byName[m] : m \in markers \cap Names} \cup FindConjuncts(markers)

Reflected(markers) ==
    Direct(markers) \cup UNION {AllSupertypes(d.symbol) : d \in Direct(markers)}

Fits(markers, s) == \E d \in Reflected(markers) : d.symbol = s \/ Unqualified(d.symbol) = s

------------------------------------------------------------------------------
(* compile_namespace.                                                         *)

\* A conjunct gets those of its parts that are defs as supertypes.
Taxonified(index, d) ==
    LET isNew(p) == p \in DOMAIN index /\ p \notin Range(d.is) IN
    IF IsConjunct(d.symbol)
    THEN [d EXCEPT !.is = @ \o SelectSeq(ConjunctParts(d.symbol), isNew)] ELSE d

\* Of several defs with one symbol the last stands for all.
Rebuilt(defs) ==
    LET index == IndexAfter(NoDefs, defs)
        latest(d) == defs[Max({i \in DOMAIN defs : defs[i].symbol = d.symbol})] IN
    [i \in DOMAIN defs |-> Taxonified(index, latest(defs[i]))]

Valid(index) ==
    \A d \in AllDefs(index) : Range(d.is) \subseteq DOMAIN index /\ ~HasCycle(index, d.symbol)

------------------------------------------------------------------------------
Init ==
    /\ byName = NoDefs /\ supers = NoDefs
    /\ loads = 0 /\ compiled = FALSE

SupersKept == supers                   \* mutant: the cache is not cleared
SupersAfterLoad == NoDefs

AddLib(defs) ==
    /\ loads < MaxLoads
    /\ loads' = loads + 1
    /\ byName' = IndexAfter(byName, defs)
    /\ supers' = SupersAfterLoad
    /\ compiled' = FALSE

\* With NormalizeError there is no namespace.
Compile(defs, libs) ==
    LET index == IndexAfter(NoDefs, Rebuilt(defs)) IN
    /\ loads = 0 /\ Valid(index)
    /\ loads' = libs
    /\ byName' = index
    /\ compiled' = TRUE
    /\ UNCHANGED supers

\* all_supertypes of one symbol, or of all that reflect meets.
Ask(symbols) ==
    /\ symbols \subseteq Names /\ symbols \ DOMAIN supers # {}
    /\ supers' = [s \in DOMAIN supers \cup symbols |-> AllSupertypes(s)]
    /\ UNCHANGED <<byName, loads, compiled>>

Next ==
    \/ \E defs \in Libs : AddLib(defs)
    \/ \E first, second \in Libs : Compile(first, 1) \/ Compile(first \o second, 2)
    \/ \E s \in Names : Ask({s})
    \/ \E markers \in Entities : Ask({d.symbol : d \in Direct(markers)})

Spec == Init /\ [][Next]_vars

------------------------------------------------------------------------------
\* The defs an entity is one of, by what its markers say: each marker, and each
\* conjunct of which it has all parts.  A conjunct with a lib prefix is not found,
\* for one of its parts is looked for with the prefix, or with its end.
Applying(markers) ==
    {byName[m].symbol : m \in markers \cap Names} \cup
    {d.symbol : d \in {c \in AllDefs(byName) : /\ IsConjunct(c.symbol) /\ c.symbol.lib = <<>>
                            /\ \A i \in DOMAIN c.symbol.parts : OnePart(<<>>, c.symbol.parts[i]) \in markers}}

\* Reflection and the taxonomy agree, whatever was asked before and whichever libs
\* came meanwhile: an entity fits a def that is known if one of its own is a
\* subtype of it, and fits nothing else, except under the other name of a def.
FitsIsSubtype ==
    \A markers \in Entities :
        /\ \A s \in Names : (\E own \in Applying(markers) : IsSubtype(own, s)) => Fits(markers, s)
        /\ \A s \in Names : Fits(markers, s) =>
              \E own \in Applying(markers) : \E t \in Names \cup {own} :
                  Unqualified(t) = Unqualified(s) /\ IsSubtype(own, t)

\* What compile_namespace returns names no supertype it does not know, and no def
\* is above itself; only a def with a prefix that others name without it can be.
Parents(s) == Range(byName[s].is)
Known == Names \cup UNION {Parents(s) : s \in Names}
Above(s) ==
    {t \in Known : \A C \in SUBSET Known :
        Parents(s) \subseteq C /\ (\A c \in C \cap Names : Parents(c) \subseteq C) => t \in C}

CompiledIsSound ==
    compiled =>
        \A s \in Names :
            /\ Parents(s) \subseteq Names
            /\ \A t \in Above(s) : byName[t].symbol = s => s.lib # <<>> /\ t.lib = <<>>
==============================================================================
