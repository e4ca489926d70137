------------------------------ MODULE MCGrids ------------------------------
(* One value of every kind, at every place of a grid a value may take.        *)
EXTENDS Encodings

Numbers == {Num(m, u) : m \in {"whole", "short", "long"}, u \in {"", "kW", "_u", "eV"}}
           \cup {Num(m, u) : m \in {"inf", "-inf", "nan"}, u \in {"", "kW"}}
Floats == {Float(m) : m \in {"whole", "long", "nan"}}
Texts == {Str(<<l, r>>) : l \in {"", "n", "s", "q"}, r \in {"text"} \cup MultiLine}
Others == {Null, <<"bool", TRUE>>, <<"marker">>, <<"na">>, <<"remove">>, <<"ref", "no dis">>,
           <<"ref", "dis">>, <<"symbol">>, <<"uri">>, <<"coord">>, <<"xstr">>, <<"date">>, <<"time">>}
Stamps == {Stamp("t1", tz) : tz \in {"UTC", "New_York", "fixed"} \cup UnknownZones \cup DOMAIN ZoneTaken} \cup {Stamp("local", "naive")}

Scalars == Numbers \cup Floats \cup Texts \cup Others \cup Stamps

InCell(v) == GridOf(<<>>, << <<"v", <<>> >> >>, << [v |-> v] >>)
InMeta(v) == GridOf([m |-> v], << <<"v", <<>> >> >>, <<>>)
InColumn(v) == GridOf(<<>>, << <<"v", [c |-> v]>> >>, << [v |-> <<"marker">>] >>)

ListOf(v) == <<"list", <<v>> >>
DictOf(v) == <<"dict", [d |-> v]>>
Records(v) == <<"list", << <<"dict", [d |-> v]>>, <<"dict", <<>> >> >> >>
\* a dict that has been given the name of a kind
Named(kind) == <<"dict", [_kind |-> Str(<<"", kind>>), d |-> <<"marker">>]>>

\* lists in lists, n levels of them
Nested[n \in 0..5] == IF n = 0 THEN <<"na">> ELSE ListOf(Nested[n - 1])

Cells ==
    Scalars
    \cup {ListOf(v) : v \in Scalars} \cup {DictOf(v) : v \in Scalars}
    \cup {Records(v) : v \in Numbers \cup Texts}
    \cup {InCell(v) : v \in Scalars}
    \cup {Named(kind) : kind \in {"dict", "marker", "site"}}
    \cup {Nested[n] : n \in 2..5}
    \cup {<<"list", <<>> >>, ListOf(DictOf(ListOf(<<"na">>))), DictOf(DictOf(<<"uri">>)),
          InCell(InCell(<<"na">>)), Records(Records(<<"na">>))}
    \cup {Records(ListOf(v)) : v \in Stamps}

AllGrids ==
    {InCell(v) : v \in Cells}
    \cup {InMeta(v) : v \in Scalars} \cup {InColumn(v) : v \in Scalars}
    \cup {GridOf(<<>>, <<>>, <<>>),
          GridOf(<<>>, << <<"empty", <<>> >> >>, << [empty |-> <<"marker">>] >>),
          GridOf(<<>>, << <<"v", [name |-> Str(<<"", "other">>)]>> >>, << [v |-> <<"na">>] >>),
          GridOf(<<>>, << <<"v", <<>> >> >>, << [v |-> <<"na">>, w |-> <<"na">>] >>),
          GridOf(<<>>, << <<"v", <<>> >> >>, << [v |-> <<"na">>], <<>> >>)}
==============================================================================
