----------------------------- MODULE WireCodec -----------------------------
(***************************************************************************)
(* A record written by a Dart or a Rust client in the format of WireFormat *)
(* and what Box.get, a query and the inspector make of it.                 *)
(***************************************************************************)
EXTENDS WireFormat

CONSTANTS
  DartValues,  \* what a Dart client stores
  Foreign,     \* MessagePack a Rust client stores
  Paths        \* field paths, as sequences of segments

ASSUME DartAssumption    == \A v \in DartValues : v \in DartTrees /\ IsDart(v)
ASSUME ForeignAssumption == Foreign \subseteq WireTrees
ASSUME PathsAssumption   == Paths \subseteq Seq(Texts)

-----------------------------------------------------------------------------
VARIABLES
  value,   \* what a Dart client stores, or Missing for a foreign value
  stored,  \* the record, Missing before it is written
  reader, seen  \* who has read the record last, and what it got

codecVars == <<value, stored, reader, seen>>

CodecInit ==
  /\ value \in DartValues \cup {Missing}
  /\ stored = Missing
  /\ reader = "none" /\ seen = Missing

\* Box.put; an unsupported value throws before anything is stored.
Put ==
  /\ stored = Missing /\ value # Missing
  /\ ToWire(value) # Invalid
  /\ stored' = ToWire(value)
  /\ UNCHANGED <<value, reader, seen>>

\* BoxHandle::put, whose payload is any MessagePack.
PutForeign ==
  /\ stored = Missing /\ value = Missing
  /\ stored' \in Foreign
  /\ UNCHANGED <<value, reader, seen>>

ReadBy(r, v) ==
  /\ stored # Missing
  /\ reader' = r /\ seen' = v
  /\ UNCHANGED <<value, stored>>

Get     == ReadBy("dart", FromWire(stored))
Query   == ReadBy("query", Normalize(stored))
Inspect == ReadBy("inspector", Shown(stored))

CodecNext == Put \/ PutForeign \/ Get \/ Query \/ Inspect

CodecSpec == CodecInit /\ [][CodecNext]_codecVars

-----------------------------------------------------------------------------
\* The field of a Dart value that Dart code would reach by the same path.
DartMember(v, name) ==
  IF v.t # "map" \/ \A i \in DOMAIN v.items : v.items[i].items[1].s # name
  THEN Missing
  ELSE v.items[CHOOSE i \in DOMAIN v.items : v.items[i].items[1].s = name].items[2]
DartField(v, path) ==
  LET member[n \in 0..Len(path)] == IF n = 0 THEN v ELSE DartMember(member[n - 1], path[n])
  IN  member[Len(path)]

\* A query and an index look at the very field a Dart client stored: a scalar
\* is found as it is, a missing field is missing, and anything else is neither
\* (lookup_field and index_scalar_key over normalize_dxtr).
QuerySeesFields ==
  reader = "query" /\ value # Missing =>
    \A path \in Paths :
      LET field == DartField(value, path)
          found == LookupField(seen, path)
      IN  /\ field = Missing <=> found = Missing
          /\ field.t \in Scalars <=> found.t \in Scalars
          /\ field.t \in Scalars => found = field
          /\ field.t = "list" => found.t = "arr" /\ Len(found.items) = Len(field.items)
          /\ IndexScalarKey(stored, path) =
               IF field = Missing \/ field.t \in Scalars THEN field ELSE Invalid

\* The JSON docs/INSPECTOR_CLI_12.md promises for a Dart value.
JsonOfBy(json, x) ==
  CASE x.t = "bytes"    -> BytesJson(x.items)
    [] x.t \in Dates    -> DateJson(x.s)
    [] x.t = "list"     -> Arr(Each(json, x.items))
    [] x.t = "map"      -> Obj(EachPair("pair", json, x.items))
    [] OTHER            -> ScalarJson(x)
JsonOf(v) == LET json[x \in DartTrees] == JsonOfBy(json, x) IN json[v]

\* The value with every local date replaced by the same moment in UTC, which
\* Dart does not hold equal to it.
InUtcBy(utc, x) ==
  CASE x.t = "localtime" -> Leaf("datetime", x.s)
    [] x.t = "list"      -> Node("list", Each(utc, x.items))
    [] x.t = "map"       -> Whole("map", EachPair("pair", utc, x.items))
    [] OTHER             -> x
InUtc(v) == LET utc[x \in DartTrees] == InUtcBy(utc, x) IN utc[v]

\* What Dart reads back is what it stored but for the zone of its dates, which
\* come back in UTC, whatever the value spells: lists that look like a tag,
\* nested or empty ones, bytes; and the inspector shows it as documented, at
\* every depth.
RoundTrip ==
  value # Missing =>
    /\ reader = "dart" => seen = InUtc(value)
    /\ reader = "inspector" => seen = JsonOf(value)

\* A reserved tag among the items of a list, which a normalised value cannot
\* tell from a date or bytes.
SpellsTagBy(spells, x) ==
  \/ Tag(x) = "@dxtr:list" /\ Tag(Payload(x)) \in {"@dxtr:bytes", "@dxtr:datetime"}
  \/ \E i \in DOMAIN x.items : spells[x.items[i]]
SpellsTag(w) == LET spells[x \in WireTrees] == SpellsTagBy(spells, x) IN spells[w]

\* Query and inspector agree on every record, foreign ones included: what the
\* inspector can show is what a query compares, and a record a query cannot
\* decode the inspector cannot either.
ReadersAgree ==
  reader = "inspector" /\ seen # Invalid =>
    /\ Normalize(stored) # Invalid
    /\ ~SpellsTag(stored) => JsonOfNormal(Normalize(stored)) = seen
=============================================================================
