----------------------------- MODULE WireFormat -----------------------------
(***************************************************************************)
(* The wire format of values and its three readers: BoxCodec of codec.dart *)
(* writes and reads records, query.rs normalises them to look up fields,   *)
(* inspector_decode.rs shows them as JSON.  MessagePack has no dates, and  *)
(* tagged pairs stand for what it lacks; each reader undoes the tags with  *)
(* a recursion of its own.                                                 *)
(*                                                                         *)
(* A value is a tree: its type t, the text s of a leaf, and its items.     *)
(* The items of a map are pairs of a key and a value, those of bytes are   *)
(* integers.  Rust programs store MessagePack of their own making, the     *)
(* foreign values.                                                         *)
(*                                                                         *)
(* A reader goes down the levels of a tree: XBy(f, x) is what X makes of x *)
(* when f is what it makes of the parts of x.                              *)
(***************************************************************************)
EXTENDS Naturals, Sequences

CONSTANTS
  Texts,   \* strings, and what tells two numbers or dates from one another
  Nesting  \* bound: levels of a value; its wire form has up to twice as many

\* The texts the codec and the inspector write of their own.
OwnTexts ==
  { "", "@dxtr:bytes", "@dxtr:datetime", "@dxtr:list", "@dxtr:map", "44",
    "$dxtrType", "bytes", "data", "datetime", "microsecondsSinceEpoch", "isUtc", "true" }

ASSUME TextsAssumption   == OwnTexts \subseteq Texts
ASSUME NestingAssumption == Nesting \in Nat

Leaf(t, s)     == [t |-> t, s |-> s, items |-> <<>>]
Node(t, items) == [t |-> t, s |-> "", items |-> items]
Str(s)  == Leaf("str", s)
Nil     == Leaf("nil", "")
Invalid == Leaf("invalid", "")
Missing == Leaf("missing", "")

Pair(k, v) == Node("pair", <<k, v>>)
Arr(items) == Node("arr", items)
Tagged(tag, payload) == Arr(<<Str(tag), payload>>)
Scalars == {"nil", "bool", "int", "double", "str"}
\* A date is its microseconds since the epoch, and in UTC or in local time.
Dates   == {"datetime", "localtime"}
Types ==
  Scalars \cup Dates \cup
    {"bytes", "list", "map", "other", "bin", "arr", "ext",
     "pair", "obj", "comparison", "group", "missing", "invalid"}

\* The trees of n levels and fewer; a map has pairs.
IsPair(p) == p.t = "pair" /\ p.s = "" /\ Len(p.items) = 2
Tree[n \in Nat] ==
  LET parts == IF n = 0 THEN {} ELSE Tree[n - 1]
  IN  {x \in [t : Types, s : Texts, items : Seq(parts)] :
         x.t = "map" => \A i \in DOMAIN x.items : IsPair(x.items[i])}

DartTrees == Tree[Nesting]
WireTrees == Tree[2 * Nesting + 1]

\* A reader fails as a whole when a part fails.
Whole(t, items) == IF Invalid \in {items[i] : i \in DOMAIN items} THEN Invalid ELSE Node(t, items)

\* The tag of a tagged pair; other trees have none.
IsTagged(w)  == w.t = "arr" /\ Len(w.items) = 2 /\ w.items[1].t = "str"
Tag(w)       == IF IsTagged(w) THEN w.items[1].s ELSE "none"
Payload(w)   == w.items[2]
\* An array may stand for bytes; Dart truncates its items, the inspector not.
IntArray(p)  == p.t = "arr" /\ \A i \in DOMAIN p.items : p.items[i].t = "int"
Byte(v)      == IF v.s = "300" THEN Leaf("int", "44") ELSE v
ByteArray(p) == IntArray(p) /\ \A i \in DOMAIN p.items : Byte(p.items[i]) = p.items[i]
\* The payload of a map: an array of arrays of a string and a value.
Entry(e)     == e.t = "arr" /\ Len(e.items) = 2 /\ e.items[1].t = "str"
Entries(p)   == p.t = "arr" /\ \A i \in DOMAIN p.items : Entry(p.items[i])

\* What f makes of trees, and of the values of pairs.
Each(f, ws)        == [i \in DOMAIN ws |-> f[ws[i]]]
EachPair(t, f, ps) == [i \in DOMAIN ps |-> Whole(t, <<ps[i].items[1], f[ps[i].items[2]]>>)]

\* A Dart value: leaves have no items, bytes are below 256, and no map has a
\* key twice.  "other" is a value of any class the codec does not know.
IsDartBy(dart, x) ==
  CASE x.t \in Scalars \cup Dates \cup {"other"} -> x.items = <<>>
    [] x.t = "bytes" ->
         x.s = "" /\ \A i \in DOMAIN x.items :
           LET b == x.items[i] IN b = Leaf("int", b.s) /\ Byte(b) = b
    [] x.t = "list" -> x.s = "" /\ \A i \in DOMAIN x.items : dart[x.items[i]]
    [] x.t = "map" ->
         x.s = "" /\ \A i \in DOMAIN x.items :
           LET key(j) == x.items[j].items[1]
           IN  /\ key(i) = Leaf(key(i).t, key(i).s) /\ dart[x.items[i].items[2]]
               /\ \A j \in DOMAIN x.items : key(i) = key(j) => i = j
    [] OTHER -> FALSE
IsDart(v) == LET dart[x \in DartTrees] == IsDartBy(dart, x) IN dart[v]

-----------------------------------------------------------------------------
(* codec.dart                                                              *)

\* A list or a map as a tagged pair, if its parts can be written.
TagWhole(tag, items) ==
  IF Whole("arr", items) = Invalid THEN Invalid ELSE Tagged(tag, Arr(items))

\* Seeded fault: only maps are tagged, a list is an array as it is.
ToWireByUntagged(wire, x) ==
  CASE x.t \in Scalars  -> x
    [] x.t = "bytes"    -> Tagged("@dxtr:bytes", Node("bin", x.items))
    [] x.t \in Dates    -> Tagged("@dxtr:datetime", Leaf("int", x.s))
    [] x.t = "list"     -> Whole("arr", Each(wire, x.items))
    [] x.t = "map"      ->
         IF \E i \in DOMAIN x.items : x.items[i].items[1].t # "str" THEN Invalid
         ELSE TagWhole("@dxtr:map", EachPair("arr", wire, x.items))
    [] OTHER            -> Invalid

\* The wire has no room for the zone of a date: toUtc keeps the microseconds.
ToWireBy(wire, x) ==
  CASE x.t \in Scalars  -> x
    [] x.t = "bytes"    -> Tagged("@dxtr:bytes", Node("bin", x.items))
    [] x.t \in Dates    -> Tagged("@dxtr:datetime", Leaf("int", x.s))
    [] x.t = "list"     -> TagWhole("@dxtr:list", Each(wire, x.items))
    [] x.t = "map"      ->
         IF \E i \in DOMAIN x.items : x.items[i].items[1].t # "str" THEN Invalid
         ELSE TagWhole("@dxtr:map", EachPair("arr", wire, x.items))
    [] OTHER -> Invalid
ToWire(v) == LET wire[x \in DartTrees] == ToWireBy(wire, x) IN wire[v]

\* What msgpack.deserialize returns and _fromWire leaves alone.
RawBy(raw, x) ==
  CASE x.t \in Scalars -> x
    [] x.t = "bin"     -> Node("bytes", x.items)
    [] x.t = "arr"     -> Whole("list", Each(raw, x.items))
    [] x.t = "map"     -> Whole("map", EachPair("pair", raw, x.items))
    [] OTHER           -> Invalid
Raw(w) == LET raw[x \in WireTrees] == RawBy(raw, x) IN raw[w]

\* A date is built with isUtc: true.
FromWireBy(from, x) ==
  LET p == Payload(x) IN
  CASE Tag(x) = "@dxtr:bytes" ->
         IF p.t = "bin" \/ IntArray(p)
         THEN Node("bytes", [i \in DOMAIN p.items |-> Byte(p.items[i])]) ELSE Invalid
    [] Tag(x) = "@dxtr:datetime" -> IF p.t = "int" THEN Leaf("datetime", p.s) ELSE Invalid
    [] Tag(x) = "@dxtr:list" -> IF p.t = "arr" THEN Whole("list", Each(from, p.items)) ELSE Invalid
    [] Tag(x) = "@dxtr:map" ->
         IF Entries(p) THEN Whole("map", EachPair("pair", from, p.items)) ELSE Invalid
    [] OTHER -> Raw(x)
FromWire(w) == LET from[x \in WireTrees] == FromWireBy(from, x) IN from[w]

-----------------------------------------------------------------------------
(* query.rs                                                                *)

\* Seeded fault: what a tag has given is normalised once more.
NormalizeByTwice(normal, x) ==
  LET p == Payload(x)
      list == Whole("arr", Each(normal, p.items)) IN
  CASE x.t = "map" -> Whole("map", EachPair("pair", normal, x.items))
    [] Tag(x) = "@dxtr:map" ->
         IF Entries(p) THEN Whole("map", EachPair("pair", normal, p.items)) ELSE Invalid
    [] Tag(x) = "@dxtr:list" ->
         IF p.t # "arr" THEN Invalid ELSE IF IsTagged(list) THEN normal[list] ELSE list
    [] x.t = "arr" /\ Tag(x) \notin {"@dxtr:map", "@dxtr:list"} ->
         Whole("arr", Each(normal, x.items))
    [] OTHER -> x

\* normalize_dxtr: maps and lists lose their tags, bytes and dates keep them.
NormalizeBy(normal, x) ==
  LET p == Payload(x) IN
  CASE x.t = "map" ->
         Whole("map", [i \in DOMAIN x.items |-> Whole("pair", Each(normal, x.items[i].items))])
    [] Tag(x) = "@dxtr:map" ->
         IF Entries(p) THEN Whole("map", EachPair("pair", normal, p.items)) ELSE Invalid
    [] Tag(x) = "@dxtr:list" -> IF p.t = "arr" THEN Whole("arr", Each(normal, p.items)) ELSE Invalid
    [] x.t = "arr" /\ Tag(x) \notin {"@dxtr:map", "@dxtr:list"} ->
         Whole("arr", Each(normal, x.items))
    [] OTHER -> x
Normalize(w) == LET normal[x \in WireTrees] == NormalizeBy(normal, x) IN normal[w]

\* The value of the first pair with that key.
Field(map, key) ==
  LET at == {i \in DOMAIN map.items : map.items[i].items[1] = Str(key)}
  IN  IF map.t # "map" \/ at = {} THEN Missing
      ELSE map.items[CHOOSE i \in at : \A j \in at : i <= j].items[2]

LookupField(record, path) ==
  LET field[n \in 0..Len(path)] == IF n = 0 THEN record ELSE Field(field[n - 1], path[n])
  IN  field[Len(path)]

\* index_scalar_key: a field that is missing, a scalar, or cannot be indexed.
IndexScalarKey(w, path) ==
  LET v == LookupField(Normalize(w), path)
  IN  IF v = Missing \/ v.t \in Scalars THEN v ELSE Invalid

-----------------------------------------------------------------------------
(* inspector_decode.rs                                                     *)

Obj(members) == Node("obj", members)
BytesJson(bytes) == Obj(<<Pair(Str("$dxtrType"), Str("bytes")), Pair(Str("data"), Arr(bytes))>>)
DateJson(s)  == Obj(<<Pair(Str("$dxtrType"), Str("datetime")),
                      Pair(Str("microsecondsSinceEpoch"), Leaf("int", s)),
                      Pair(Str("isUtc"), Leaf("bool", "true"))>>)

\* JSON has no number that is not finite.
ScalarJson(v) == IF v = Leaf("double", "NaN") THEN Nil ELSE v

\* An object of the pairs with string keys.
ObjectOf(f, ps) ==
  IF \E i \in DOMAIN ps : ps[i].items[1].t # "str" THEN Invalid ELSE Whole("obj", EachPair("pair", f, ps))

\* The JSON of a normalised value, where bytes and dates still have their tags.
JsonOfNormalBy(json, x) ==
  CASE x.t = "bin" -> BytesJson(x.items)
    [] Tag(x) = "@dxtr:bytes"    -> BytesJson(Payload(x).items)
    [] Tag(x) = "@dxtr:datetime" -> DateJson(Payload(x).s)
    [] x.t = "arr" /\ Tag(x) \notin {"@dxtr:bytes", "@dxtr:datetime"} -> Arr(Each(json, x.items))
    [] x.t = "map" -> Obj(EachPair("pair", json, x.items))
    [] OTHER -> ScalarJson(x)
JsonOfNormal(w) == LET json[x \in WireTrees] == JsonOfNormalBy(json, x) IN json[w]

\* decode_dxtr_wire_value
ShownBy(shown, x) ==
  LET p == Payload(x) IN
  CASE x.t \in Scalars -> ScalarJson(x)
    [] x.t = "bin"     -> BytesJson(x.items)
    [] x.t = "map"     -> ObjectOf(shown, x.items)
    [] Tag(x) = "@dxtr:map"   -> IF Entries(p) THEN ObjectOf(shown, p.items) ELSE Invalid
    [] Tag(x) = "@dxtr:list"  -> IF p.t = "arr" THEN Whole("arr", Each(shown, p.items)) ELSE Invalid
    [] Tag(x) = "@dxtr:bytes" ->
         IF p.t = "bin" \/ ByteArray(p) THEN BytesJson(p.items) ELSE Invalid
    [] Tag(x) = "@dxtr:datetime" -> IF p.t = "int" THEN DateJson(p.s) ELSE Invalid
    [] x.t = "arr" /\ Tag(x) \notin {"@dxtr:map", "@dxtr:list", "@dxtr:bytes", "@dxtr:datetime"} ->
         Whole("arr", Each(shown, x.items))
    [] OTHER -> Invalid
Shown(w) == LET shown[x \in WireTrees] == ShownBy(shown, x) IN shown[w]
=============================================================================
