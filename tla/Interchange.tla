----------------------------- MODULE Interchange -----------------------------
(* A grid on its way through the formats: a file that is imported as Trio,    *)
(* answered as JSON v3, sent on as Zinc.  Each hop is one encoding and one    *)
(* decoding of the whole grid, by content_negotiation or by the codec itself. *)
(* tzOf is the cache of encoded datetimes that all grids of a process share.  *)
EXTENDS Encodings

CONSTANTS Grids,             \* the grids that set out
          Instants,          \* the instants their datetimes name
          Zones,             \* the time zones other traffic uses
          MaxHops            \* a bound on the journey

VARIABLES orig,              \* the grid as it set out
          cur,               \* the grid as it was last read, or Error
          hop,               \* the format of the last hop
          hops,              \* the number of hops
          tzOf               \* json._DT_CACHE: instant -> time zone, or "none"

vars == <<orig, cur, hop, hops, tzOf>>

Formats == {"json", "json_v3", "zinc", "trio", "v3 as json"}

\* Grid.make_rows: the columns are the keys of the rows.
MakeRows(rows) ==
    LET names == UNION {DOMAIN rows[i] : i \in DOMAIN rows} IN
    GridOf(<<>>, [i \in DOMAIN SetToSeq(names) |-> <<SetToSeq(names)[i], <<>> >>], rows)

DecodeGridV3(g) ==
    LET dec(w) == DecodeV3(w, 1)
        meta == Each(g[2], dec)
        cols == [i \in DOMAIN g[3] |-> <<g[3][i][1], Each(g[3][i][2], dec)>>]
        rows == [i \in DOMAIN g[4] |-> Each(g[4][i], dec)] IN
    IF \/ \E k \in DOMAIN meta : meta[k] = Error
       \/ \E i \in DOMAIN cols : \E k \in DOMAIN cols[i][2] : cols[i][2][k] = Error
       \/ \E i \in DOMAIN rows : \E k \in DOMAIN rows[i] : rows[i][k] = Error
    THEN Error ELSE GridOf(meta, cols, rows)

\* Trio carries the rows and nothing else.
HopTrioGrid(g) ==
    LET rows == SelectSeq(g[4], LAMBDA r : DOMAIN r # {})
        read == [i \in DOMAIN rows |-> Each(rows[i], LAMBDA x : HopTrio(x, 0))] IN
    IF \E i \in DOMAIN read : \E k \in DOMAIN read[i] : read[i][k] = Error THEN Error
    ELSE MakeRows(read)

\* encode_response labels JSON v3 with the content type of v4, by which
\* decode_request reads it: what v3 writes into strings stays a string.
RECURSIVE AsV4(_)
AsV4(w) ==
    CASE w[1] = "raw" -> w
      [] w[1] = "plain" -> <<"raw", Str(w[2])>>
      [] w[1] = "text" -> <<"raw", Str(<<w[2], "text">>)>>
      [] w[1] = "array" -> <<"array", Each(w[2], AsV4)>>
      [] w[1] = "members" -> <<"members", Each(w[2], AsV4)>>
HopMislabelled(g) ==
    LET e == EncodeGridV3(g) IN
    DecodeGridV4(GridOf(Each(e[2], AsV4), [i \in DOMAIN e[3] |-> <<e[3][i][1], <<>> >>],
                        [i \in DOMAIN e[4] |-> Each(e[4][i], AsV4)]), 0)

Through(fmt, g) ==
    CASE fmt = "json" -> DecodeGridV4(EncodeGridV4(g, CachedV4(g, tzOf)), 0)
      [] fmt = "json_v3" -> DecodeGridV3(EncodeGridV3(g))
      [] fmt = "zinc" -> HopZinc(g)
      [] fmt = "trio" -> HopTrioGrid(g)
      [] fmt = "v3 as json" -> HopMislabelled(g)

Init ==
    /\ orig \in Grids
    /\ cur = orig
    /\ hop = "none"
    /\ hops = 0
    /\ tzOf = [i \in Instants |-> "none"]

Hop(fmt) ==
    /\ cur # Error
    /\ hops < MaxHops
    /\ cur' = Through(fmt, cur)
    /\ tzOf' = IF fmt = "json" THEN CachedV4(cur, tzOf) ELSE tzOf
    /\ hop' = fmt
    /\ hops' = hops + 1
    /\ UNCHANGED orig

\* Another grid of the process is encoded, and its datetime with it.
OtherTraffic(i, tz) ==
    /\ hops < MaxHops
    /\ tzOf' = CachedV4(Stamp(i, tz), tzOf)
    /\ tzOf' # tzOf
    /\ hop' = "none"
    /\ UNCHANGED <<orig, cur, hops>>

Next ==
    \/ \E fmt \in Formats : Hop(fmt)
    \/ \E i \in Instants, tz \in Zones : OtherTraffic(i, tz)

Spec == Init /\ [][Next]_vars

------------------------------------------------------------------------------
(* What each format keeps, said without its codec.                            *)

NumberKept(fmt, v) ==
    CASE fmt = "json" -> ~Finite(v[2]) \/ v[3] # ""
      [] fmt = "json_v3" -> v[2] # "long"
      [] OTHER -> v[2] # "long" /\ v[3] \notin {"_u", "eV"} /\ (~Finite(v[2]) => v[3] = "")

DatetimeKept(fmt, v) ==
    CASE fmt = "json" -> v[3] # "naive" => tzOf[v[2]] \in {"none", v[3]}
      [] fmt = "json_v3" -> v[3] \notin {"naive", "fixed"}
      [] OTHER -> v[3] \notin {"naive"} \cup UnknownZones \cup DOMAIN ZoneTaken

TextKept(fmt, t) == fmt = "trio" => t[2] \notin MultiLine \ {"lines"}

RECURSIVE Kept(_, _, _), GridKept(_, _, _)
Kept(fmt, v, depth) ==
    LET inZinc == IF fmt = "trio" THEN "zinc" ELSE fmt
        inner == IF fmt = "trio" THEN 1 ELSE depth + 1
        parts == \A k \in DOMAIN v[2] : Kept(inZinc, v[2][k], inner) IN
    /\ depth <= IF fmt = "trio" THEN MaxTrioDepth ELSE MaxDecodeDepth
    /\ Kind(v) = "num" => NumberKept(fmt, v)
    /\ Kind(v) = "float" => fmt = "json" /\ Finite(v[2])
    /\ Kind(v) = "datetime" => DatetimeKept(fmt, v)
    /\ Kind(v) = "str" => TextKept(fmt, v[2])
    /\ Kind(v) = "dict" => (fmt = "json" => "_kind" \notin DOMAIN v[2]) /\ parts
    /\ Kind(v) = "list" =>
          IF fmt = "trio" /\ v[2] # <<>> /\ Kind(v[2][1]) = "dict"
          THEN \A i \in DOMAIN v[2] : /\ DOMAIN v[2][i][2] # {}
                                      /\ \A k \in DOMAIN v[2][i][2] : Kept(fmt, v[2][i][2][k], depth + 1)
          ELSE parts
    /\ Kind(v) = "grid" => fmt \in {"json", "trio"} /\ GridKept(inZinc, v, depth)
GridKept(fmt, g, depth) ==
    LET start == IF fmt \in {"json", "json_v3"} THEN depth + 1 ELSE 0
        names == {g[3][i][1] : i \in DOMAIN g[3]}
        tags == {g[2]} \cup {g[3][i][2] : i \in DOMAIN g[3]}
        rows == {g[4][i] : i \in DOMAIN g[4]}
        cells == UNION {DOMAIN r : r \in rows} IN
    /\ \A f \in rows \cup tags : \A k \in DOMAIN f : Kept(fmt, f[k], start)
    /\ fmt = "json_v3" => \A i \in DOMAIN g[3] : "name" \notin DOMAIN g[3][i][2]
    /\ fmt = "zinc" =>
          /\ g[3] # << <<"empty", <<>> >> >>
          /\ cells \subseteq names
          /\ \A row \in rows : \A k \in DOMAIN row : row[k] # Null
    /\ fmt = "trio" => tags = {<<>>} /\ <<>> \notin rows /\ names = cells

RoundTrips == {"json", "json_v3", "zinc", "trio"}

\* A grid of which the format keeps every part comes back from it as it was:
\* the escapes, prefixes and wrappers of a value are undone by its decoder,
\* wherever in a grid, list or dict it stands.
KeepsWhatItCan ==
    [][\A fmt \in RoundTrips :
          (hops' # hops /\ hop' = fmt /\ GridKept(fmt, cur, 0)) => cur' = cur]_vars

\* What a format loses it loses at once: reading back what it wrote and writing
\* it again changes nothing more, so a file does not drift as it is edited.
LossIsAtOnce ==
    [][\A fmt \in RoundTrips : (hops' # hops /\ hop' = fmt /\ hop = fmt) => cur' = cur]_vars

==============================================================================
