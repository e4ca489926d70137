------------------------------ MODULE Encodings ------------------------------
(* The three texts that hs_py reads as well as writes: JSON (v4 and v3), Zinc *)
(* and Trio.  A value is a tuple whose first element is its kind.  What a     *)
(* format puts on the wire is a term of its own, whose first element is what  *)
(* the reader dispatches on: the JSON type or "_kind", the letter before the  *)
(* colon of a v3 string, or the first characters of a Zinc literal.  Texts    *)
(* are <<lead, rest>>: lead is the letter of a text that starts like "n:",    *)
(* "" for any other.  Numbers keep a class in place of their digits: whole,   *)
(* short (at most six significant digits), long, inf, -inf and nan.           *)
EXTENDS Naturals, SequencesExt

CONSTANTS MaxDecodeDepth,    \* _MAX_DECODE_DEPTH, MAX_SCAN_DEPTH: 64 in the code
          MaxTrioDepth       \* _MAX_TRIO_DEPTH: 32 in the code

DepthAssumption == MaxDecodeDepth \in Nat /\ MaxTrioDepth \in Nat

Null == <<"null">>
Error == <<"error">>
Str(t) == <<"str", t>>
Num(m, u) == <<"num", m, u>>
Float(m) == <<"float", m>>
Stamp(i, tz) == <<"datetime", i, tz>>
GridOf(meta, cols, rows) == <<"grid", meta, cols, rows>>

Kind(v) == v[1]
Each(f, Op(_)) == [k \in DOMAIN f |-> Op(f[k])]
Finite(m) == m \notin {"inf", "-inf", "nan"}

\* A container is refused as a whole when one of its parts is.
Sealed(parts, whole) == IF \E k \in DOMAIN parts : parts[k] = Error THEN Error ELSE whole

\* format_num: %g keeps six significant digits.
RoundedAgain(m) == CASE m = "long" -> "short" [] m = "short" -> "whole" [] OTHER -> m
                                       \* mutant: each writing takes more digits off
Rounded(m) == IF m = "long" THEN "short" ELSE m

------------------------------------------------------------------------------
(* JSON v4.  tzOf is the process-wide cache of encoded datetimes: instants    *)
(* compare equal whatever their time zone, so an entry answers for all of     *)
(* them.                                                                      *)

EncodeDatetimeV4(v, tzOf) ==
    IF v[3] # "naive" /\ tzOf[v[2]] # "none" THEN Stamp(v[2], tzOf[v[2]]) ELSE v

EncodeNumberV4(v) ==
    IF v[3] = "" /\ Finite(v[2]) THEN <<"raw", Float(v[2])>> ELSE <<"object", "number", v>>

RECURSIVE EncodeV4(_, _)
EncodeGridV4(v, tzOf) ==
    LET enc(x) == EncodeV4(x, tzOf) IN
    GridOf(Each(v[2], enc),
           [i \in DOMAIN v[3] |-> <<v[3][i][1], Each(v[3][i][2], enc)>>],
           [i \in DOMAIN v[4] |-> Each(v[4][i], enc)])
EncodeV4(v, tzOf) ==
    CASE Kind(v) \in {"null", "str", "bool"} -> <<"raw", v>>
      [] Kind(v) = "float" -> <<"raw", IF Finite(v[2]) THEN v ELSE Null>>
      [] Kind(v) = "num" -> EncodeNumberV4(v)
      [] Kind(v) = "datetime" -> <<"object", "dateTime", EncodeDatetimeV4(v, tzOf)>>
      [] Kind(v) = "list" -> <<"array", Each(v[2], LAMBDA x : EncodeV4(x, tzOf))>>
      [] Kind(v) = "dict" -> <<"members", Each(v[2], LAMBDA x : EncodeV4(x, tzOf))>>
      [] Kind(v) = "grid" -> <<"object", "grid", EncodeGridV4(v, tzOf)>>
      [] OTHER -> <<"object", Kind(v), v>>

RECURSIVE StampsIn(_)
StampsIn(v) ==
    LET within(f) == UNION {StampsIn(f[k]) : k \in DOMAIN f} IN
    CASE Kind(v) = "datetime" /\ v[3] # "naive" -> {v}
      [] Kind(v) \in {"list", "dict"} -> within(v[2])
      [] Kind(v) = "grid" -> within(v[2]) \cup UNION {within(v[3][i][2]) : i \in DOMAIN v[3]}
                                         \cup UNION {within(v[4][i]) : i \in DOMAIN v[4]}
      [] OTHER -> {}

\* The first datetime of an instant to be encoded is the one the cache keeps.
CachedV4(v, tzOf) ==
    [i \in DOMAIN tzOf |->
        IF tzOf[i] = "none" /\ \E s \in StampsIn(v) : s[2] = i
        THEN (CHOOSE s \in StampsIn(v) : s[2] = i)[3] ELSE tzOf[i]]

V4Kinds == {"marker", "na", "remove", "number", "ref", "symbol", "uri", "coord", "xstr",
            "date", "time", "dateTime", "grid", "dict"}

RECURSIVE DecodeV4(_, _)
DecodeGridV4(g, depth) ==
    LET dec(w) == DecodeV4(w, depth + 1)
        meta == Each(g[2], dec)
        cols == [i \in DOMAIN g[3] |-> <<g[3][i][1], Each(g[3][i][2], dec)>>]
        rows == [i \in DOMAIN g[4] |-> Each(g[4][i], dec)] IN
    IF \/ \E k \in DOMAIN meta : meta[k] = Error
       \/ \E i \in DOMAIN cols : \E k \in DOMAIN cols[i][2] : cols[i][2][k] = Error
       \/ \E i \in DOMAIN rows : \E k \in DOMAIN rows[i] : rows[i][k] = Error
    THEN Error ELSE GridOf(meta, cols, rows)
\* A dict with the key "_kind" is read as the kind that key names.
DecodeMembersV4(f, depth) ==
    LET dec(w) == DecodeV4(w, depth + 1)
        named == "_kind" \in DOMAIN f /\ f["_kind"] # <<"raw", Null>> IN
    IF ~named THEN LET parts == Each(f, dec) IN Sealed(parts, <<"dict", parts>>)
    ELSE IF Kind(f["_kind"]) # "raw" \/ Kind(f["_kind"][2]) # "str" THEN Error
    ELSE LET kind == f["_kind"][2][2][2]
             rest == [k \in DOMAIN f \ {"_kind"} |-> dec(f[k])] IN
         CASE kind = "dict" -> Sealed(rest, <<"dict", rest>>)
           [] kind \in {"marker", "na", "remove"} -> <<kind>>
           [] OTHER -> Error
DecodeV4(w, depth) ==
    IF depth > MaxDecodeDepth THEN Error ELSE
    CASE w[1] = "raw" -> w[2]
      [] w[1] = "array" -> LET parts == Each(w[2], LAMBDA x : DecodeV4(x, depth + 1)) IN
                           Sealed(parts, <<"list", parts>>)
      [] w[1] = "members" -> DecodeMembersV4(w[2], depth)
      [] w[1] = "object" /\ w[2] = "grid" -> DecodeGridV4(w[3], depth)
      [] w[1] = "object" /\ w[2] # "grid" -> IF w[2] \in V4Kinds THEN w[3] ELSE Error

------------------------------------------------------------------------------
(* JSON v3: strings that start with a letter and a colon.                     *)

PrefixesWithoutText == {"c", "d", "h", "m", "n", "r", "t", "u", "x", "y", "z", "-"}
                                       \* mutant: a text that starts with "s:" is not escaped
V3TypePrefixes == {"c", "d", "h", "m", "n", "r", "s", "t", "u", "x", "y", "z", "-"}
V3Decoders == {"m", "z", "-", "s", "n", "r", "y", "d", "h", "t", "u", "c", "x"}

V3Letter == [marker |-> "m", na |-> "z", remove |-> "-", ref |-> "r", symbol |-> "y",
             uri |-> "u", coord |-> "c", xstr |-> "x", date |-> "d", time |-> "h"]

EncodeStrV3(t) == IF t[1] \in V3TypePrefixes THEN <<"text", "s", Str(t)>> ELSE <<"plain", t>>

RECURSIVE EncodeV3(_)
\* Column metadata lies beside the name of the column, in one JSON object: a
\* tag called "name" takes the place of the name.
EncodeColV3(c) ==
    LET own == DOMAIN c[2] \ {"name"} IN
    <<IF "name" \in DOMAIN c[2] THEN c[2]["name"][2][2] ELSE c[1],
      [k \in own |-> EncodeV3(c[2][k])]>>
EncodeGridV3(v) ==
    GridOf(Each(v[2], EncodeV3), [i \in DOMAIN v[3] |-> EncodeColV3(v[3][i])],
           [i \in DOMAIN v[4] |-> Each(v[4][i], EncodeV3)])
\* Nothing marks a grid in a cell: it is an object like any other.
EncodeNestedV3(g) ==
    LET col(c) == ("name" :> <<"plain", <<"", c[1]>> >>) @@ c[2] IN
    <<"members", [meta |-> <<"members", g[2]>>,
                  cols |-> <<"array", [i \in DOMAIN g[3] |-> <<"members", col(g[3][i])>>]>>,
                  rows |-> <<"array", [i \in DOMAIN g[4] |-> <<"members", g[4][i]>>]>>]>>
EncodeV3(v) ==
    CASE Kind(v) \in {"null", "bool"} -> <<"raw", v>>
      [] Kind(v) = "str" -> EncodeStrV3(v[2])
      [] Kind(v) = "float" -> <<"text", "n", Num(Rounded(v[2]), "")>>
      [] Kind(v) = "num" -> <<"text", "n", Num(Rounded(v[2]), v[3])>>
      [] Kind(v) = "datetime" -> <<"text", "t", Stamp(v[2], IF v[3] \in {"naive", "fixed"}
                                                          THEN "UTC" ELSE v[3]), v[3]>>
      [] Kind(v) = "list" -> <<"array", Each(v[2], EncodeV3)>>
      [] Kind(v) = "dict" -> <<"members", Each(v[2], EncodeV3)>>
      [] Kind(v) = "grid" -> EncodeNestedV3(EncodeGridV3(v))
      [] OTHER -> <<"text", V3Letter[Kind(v)], v>>

\* A naive time is read in the time zone of the machine.
DecodeDatetimeV3(w) == IF w[4] = "naive" THEN Stamp("local", w[3][3]) ELSE w[3]

DecodeTextV3(w) ==
    IF w[2] \notin V3Decoders THEN Str(<<w[2], "text">>)
    ELSE IF w[2] = "t" THEN DecodeDatetimeV3(w) ELSE w[3]

RECURSIVE DecodeV3(_, _)
DecodeV3(w, depth) ==
    IF depth > MaxDecodeDepth THEN Error ELSE
    CASE w[1] = "raw" -> w[2]
      [] w[1] = "plain" -> IF w[2][1] \in V3Decoders THEN Error ELSE Str(w[2])
      [] w[1] = "text" -> DecodeTextV3(w)
      [] w[1] = "array" -> LET parts == Each(w[2], LAMBDA x : DecodeV3(x, depth + 1)) IN
                           Sealed(parts, <<"list", parts>>)
      [] w[1] = "members" -> LET parts == Each(w[2], LAMBDA x : DecodeV3(x, depth + 1)) IN
                             Sealed(parts, <<"dict", parts>>)

------------------------------------------------------------------------------
(* Zinc literals.  "unit" follows the digits of a number immediately.         *)

ZincWord == [null |-> "N", marker |-> "M", na |-> "NA", remove |-> "R"]

EncodeNumberZinc(m, u) ==
    CASE m \in {"nan", "inf"} -> <<"alpha", m, u>>
      [] m = "-inf" -> <<"minus", m, u>>
      [] OTHER -> <<"digit", Rounded(m), u>>

RECURSIVE EncodeZinc(_)
EncodeZinc(v) ==
    CASE Kind(v) \in DOMAIN ZincWord -> <<"word", v>>
      [] Kind(v) = "bool" -> <<"word", v>>
      [] Kind(v) = "num" -> EncodeNumberZinc(v[2], v[3])
      [] Kind(v) = "float" -> EncodeNumberZinc(v[2], "")
      [] Kind(v) = "datetime" -> IF v[3] = "naive" THEN <<"digit", "year", "rest">>
                                                   ELSE <<"stamp", v>>
      [] Kind(v) = "list" -> <<"[", Each(v[2], EncodeZinc)>>
      [] Kind(v) = "dict" -> <<"{", Each(v[2], EncodeZinc)>>
      [] Kind(v) = "grid" -> <<"<<", v>>
      [] OTHER -> <<"literal", v>>

\* scan_number: an underscore belongs to the digits, an "e" starts an exponent.
ScanNumber(m, u) ==
    CASE u = "eV" -> Error
      [] u = "_u" -> Num(m, "u")
      [] OTHER -> Num(m, u)

\* scan_keyword takes the unit of an infinity for a part of the word.
ScanAlpha(m, u) == IF u = "" THEN Num(m, "") ELSE Str(<<"", "INF with unit">>)
ScanMinus(m, u) == IF u = "" THEN Num(m, "") ELSE Error

\* DATETIME_RE takes of a zone name the letters after a capital: of "GMT+5" another
\* zone, of "localtime" nothing but the offset before it, of "Port-au-Prince" what
\* is no zone (a KeyError).
UnknownZones == {"Port-au-Prince"}
ZoneTaken == ("GMT+5" :> "GMT") @@ ("GMT-5" :> "GMT") @@ ("localtime" :> "fixed")
ScanStamp(v) ==
    IF v[3] \in UnknownZones THEN Error
    ELSE IF v[3] \in DOMAIN ZoneTaken THEN Stamp(v[2], ZoneTaken[v[3]]) ELSE v

\* What is left of the name is scanned as what comes next.
Cut(w, zones) == w[1] = "stamp" /\ w[2][3] \in zones
LeftInList(w) ==
    CASE Cut(w, {"GMT-5"}) -> <<Num("whole", "")>>
      [] Cut(w, {"localtime"}) -> <<Str(<<"", "localtime">>)>>
      [] OTHER -> <<>>
WithLeft(f, parts) ==
    IF \E k \in DOMAIN f : Cut(f[k], {"localtime"})
    THEN parts @@ ("localtime" :> <<"marker">>) ELSE parts

RECURSIVE ScanVal(_, _)
\* scan_list and scan_dict: one part that does not scan refuses the whole.
ScanList(f, depth) ==
    LET parts == Each(f, LAMBDA w : ScanVal(w, depth + 1)) IN
    IF \E i \in DOMAIN f : Cut(f[i], {"GMT+5"}) THEN Error
    ELSE Sealed(parts, <<"list", FlattenSeq([i \in DOMAIN f |-> <<parts[i]>> \o LeftInList(f[i])])>>)
ScanDict(f, depth) ==
    LET parts == Each(f, LAMBDA w : ScanVal(w, depth + 1)) IN
    IF \E k \in DOMAIN f : Cut(f[k], {"GMT+5", "GMT-5"}) THEN Error
    ELSE Sealed(parts, <<"dict", WithLeft(f, parts)>>)
ScanVal(w, depth) ==
    IF depth > MaxDecodeDepth THEN Error ELSE
    CASE w[1] \in {"word", "literal"} -> w[2]
      [] w[1] = "stamp" -> ScanStamp(w[2])
      [] w[1] = "alpha" -> ScanAlpha(w[2], w[3])
      [] w[1] = "minus" -> ScanMinus(w[2], w[3])
      [] w[1] = "digit" -> ScanNumber(w[2], w[3])
      [] w[1] = "[" -> ScanList(w[2], depth)
      [] w[1] = "{" -> ScanDict(w[2], depth)
      \* the lines of a nested grid are taken for rows before it is scanned
      [] w[1] = "<<" -> Error

ThroughZinc(x) == ScanVal(EncodeZinc(x), 0)

\* The tags of the "ver" line and of the column line; a sample has one on a line.
ScanTags(f) == WithLeft(Each(f, EncodeZinc), Each(f, ThroughZinc))

\* A null cell is left out, as is a cell of no column, and what a cell has after
\* its value.
ScanRow(r, names) ==
    LET present == {k \in DOMAIN r \cap names : r[k] # Null} IN
    [k \in present |-> ThroughZinc(r[k])]

\* A grid without columns is written with a column "empty", and a grid with that
\* one column is read as a grid without columns.
HopZinc(g) ==
    LET names == {g[3][i][1] : i \in DOMAIN g[3]}
        meta == ScanTags(g[2])
        cols == [i \in DOMAIN g[3] |-> <<g[3][i][1], ScanTags(g[3][i][2])>>]
        rows == [i \in DOMAIN g[4] |-> ScanRow(g[4][i], names)]
        tags == {meta} \cup {cols[i][2] : i \in DOMAIN cols}
        refused(fs) == \E f \in fs : \E k \in DOMAIN f : f[k] = Error IN
    IF refused(tags) THEN Error
    ELSE IF g[3] = <<>> \/ g[3] = << <<"empty", <<>> >> >> THEN GridOf(meta, <<>>, <<>>)
    ELSE IF refused({rows[i] : i \in DOMAIN rows}) THEN Error
    ELSE GridOf(meta, cols, rows)

------------------------------------------------------------------------------
(* Trio: one tag per line.  A text of several lines is written raw, indented. *)

MultiLine == {"lines", "lines // comment", "  indented lines", "lines and blank end"}

\* Comments, the common indent and blank lines at the end do not come back.
JoinMultiline(rest) == IF rest \in MultiLine THEN "lines" ELSE rest

RECURSIVE PartsOf(_)
PartsOf(v) ==
    {v} \cup IF Kind(v) \in {"list", "dict"} THEN UNION {PartsOf(v[2][k]) : k \in DOMAIN v[2]} ELSE {}

\* What parse_trio does not take for text: the lines of a grid in a list or a dict
\* do not parse, and a zone that is none is no ValueError.  A value that has it has
\* no other part that does not scan.
RefusedInTrio(v) ==
    \E x \in PartsOf(v) : Kind(x) = "grid" \/ (Kind(x) = "datetime" /\ x[3] \in UnknownZones)

\* A value on the line of its tag: what does not scan, or not all of it, is an
\* unquoted string.
LineInTrio(v) ==
    LET read == ThroughZinc(v) IN
    IF RefusedInTrio(v) THEN Error
    ELSE IF read = Error \/ Cut(EncodeZinc(v), DOMAIN ZoneTaken) THEN Str(<<"", "unquoted">>)
    ELSE read

RECURSIVE HopTrio(_, _)
\* encode_trio then parse_trio, for the value of one tag.
HopTrio(v, depth) ==
    CASE Kind(v) = "str" /\ v[2][2] \in MultiLine -> Str(<<v[2][1], JoinMultiline(v[2][2])>>)
      [] Kind(v) = "grid" -> HopZinc(v)
      [] Kind(v) = "list" /\ v[2] # <<>> /\ Kind(v[2][1]) = "dict" ->
            LET some == SelectSeq(v[2], LAMBDA r : DOMAIN r[2] # {})
                read == [i \in DOMAIN some |-> Each(some[i][2], LAMBDA x : HopTrio(x, depth + 1))] IN
            IF depth = MaxTrioDepth \/ \E i \in DOMAIN read : \E k \in DOMAIN read[i] : read[i][k] = Error
            THEN Error ELSE <<"list", [i \in DOMAIN read |-> <<"dict", read[i]>>]>>
      [] OTHER -> LineInTrio(v)
==============================================================================
