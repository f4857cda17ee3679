----------------------------- MODULE MCDataPath -----------------------------
(***************************************************************************)
(* What happens to the data of one box, part by part: how its numbers      *)
(* compare and are indexed, how a value is written and read back, how a    *)
(* query reaches the engine, how reads run among commits.  The four parts  *)
(* share no variable, so a behaviour of this module is one of a single     *)
(* part: its states are those of the four added, not multiplied.           *)
(***************************************************************************)
EXTENDS NumericOrder, WireCodec, QueryBuilders, BoxReads, TLC

CONSTANTS k1, k2

VARIABLE part  \* the part that moves; the others stay where they began

MCInit ==
  /\ NumbersInit /\ CodecInit /\ BuildersInit /\ ReadsInit
  /\ part \in {"numbers", "codec", "builders", "reads"}
  /\ part # "codec" => value = Missing

MCNext ==
  /\ UNCHANGED part
  /\ \/ part = "numbers"  /\ NumbersNext  /\ UNCHANGED <<codecVars, builderVars, readVars>>
     \/ part = "codec"    /\ CodecNext    /\ UNCHANGED <<numberVars, builderVars, readVars>>
     \/ part = "builders" /\ BuildersNext /\ UNCHANGED <<numberVars, codecVars, readVars>>
     \/ part = "reads"    /\ ReadsNext    /\ UNCHANGED <<numberVars, codecVars, builderVars>>

MCSpec == MCInit /\ [][MCNext]_<<part, numberVars, codecVars, builderVars, readVars>>

-----------------------------------------------------------------------------
(* Integers of four bits, and doubles in halves from below the signed      *)
(* range to beyond the unsigned one.                                       *)
MCNumbers ==
  Integers64 \cup {NaN, PosInf, NegInf, NegZero} \cup
  {x \in [t : {"float"}, whole : (-Half - 2)..(2 * Half + 1), part : (1 - Parts)..(Parts - 1)] :
     (x.whole > 0 => x.part >= 0) /\ (x.whole < 0 => x.part <= 0)}

-----------------------------------------------------------------------------
(* All Dart values of depth two over a few leaves, among them a local date *)
(* and the strings of the tags, so that lists spell tagged pairs; and      *)
(* foreign MessagePack with native maps, untagged arrays, malformed tags.  *)
TagLeaves  == {Str(tag) : tag \in {"@dxtr:map", "@dxtr:list", "@dxtr:bytes", "@dxtr:datetime"}}
DataLeaves == {Leaf(t, "5") : t \in {"int"} \cup Dates} \cup {Node("bytes", <<Leaf("int", "5")>>)}
DartLeaves == TagLeaves \cup DataLeaves \cup {Nil, Str("x"), Leaf("double", "NaN")}

Lists(t, heads, S) ==
  {Node(t, <<>>)} \cup {Node(t, <<a>>) : a \in S} \cup {Node(t, <<a, b>>) : a \in heads, b \in S}
Maps(S) ==
  {Node("map", <<>>)} \cup {Node("map", <<Pair(Str("k"), a)>>) : a \in S}
    \cup {Node("map", <<Pair(Str("j"), Nil), Pair(Str("k"), a)>>) : a \in S}

Shallow == DartLeaves \cup Lists("list", DartLeaves, DartLeaves) \cup Maps(DartLeaves)
MCDartValues ==
  Shallow \cup Lists("list", TagLeaves \cup DataLeaves, Shallow) \cup Maps(Shallow)
    \cup {Leaf("other", ""), Node("list", <<Leaf("other", "")>>),
          Node("map", <<Pair(Leaf("int", "5"), Nil)>>)}

Wires == TagLeaves \cup {Leaf("int", "5"), Node("bin", <<Leaf("int", "5")>>), Leaf("int", "300"), Leaf("ext", "e"), Nil}
ShallowWires == Wires \cup Lists("arr", Wires, Wires) \cup Maps(Wires)
MCForeign ==
  ShallowWires \cup Lists("arr", TagLeaves, ShallowWires) \cup Maps(ShallowWires)
    \cup {Node("map", <<Pair(Leaf("int", "5"), Nil)>>)}
    \cup {Tagged("@dxtr:bytes", Arr(<<Leaf("int", n)>>)) : n \in {"5", "300"}}

MCTexts == STRING
MCPaths == {<<"k">>, <<"k", "k">>, <<"j">>, <<"k", "x">>}

-----------------------------------------------------------------------------
(* Two fields and a malformed one; comparisons of every shape: a value, a  *)
(* null test, a range, a range without its end, a local date, a list that  *)
(* spells a tag; and payloads of other frontends with one mistake each.    *)
Ask(field, op, operand, upper) == [field |-> field, op |-> op, value |-> operand, upper |-> upper]
Five == Leaf("int", "5")

MCGrouped ==
  { Ask("a", "between", Nil, Five),
    Ask("b", "notEqual", Node("list", <<Str("@dxtr:datetime"), Five>>), Nil) }
MCComparisons ==
  MCGrouped \cup
  { Ask("a", "equal", Five, Nil), Ask("b", "isNull", Nil, Nil), Ask("a", "between", Five, Nil),
    Ask(".", "equal", Five, Nil), Ask("b", "lessThan", Leaf("localtime", "5"), Nil) }

Filter(c) == Normalize(ToWire(FilterWire(Comparison(c))))
GroupMap(op, filters) ==
  MapOf(<<"type", "operator", "filters">>, <<Str("group"), Str(op), filters>>)
NoUpper == MapOf(<<"type", "field", "operator", "value">>,
                 <<Str("comparison"), Str("a"), Str("between"), Five>>)
Good == Filter(Ask("a", "equal", Five, Nil))

MCFilters ==
  { Good, Nil, NoUpper, Filter(Ask(".", "equal", Five, Nil)), Filter(Ask("a", "like", Five, Nil)),
    GroupMap("and", Arr(<<>>)), GroupMap("not", Arr(<<Good>>)), GroupMap("or", Good),
    GroupMap("or", Arr(<<Good, GroupMap("and", Arr(<<>>))>>)), GroupMap("or", Arr(<<Good, Good>>)),
    MapOf(<<"type">>, <<Str("raw")>>) }
MCSorts ==
  { Nil, Str("a"), Arr(<<>>) } \cup
  { Arr(<<Normalize(ToWire(SortWire([field |-> f, direction |-> d, nulls |-> n])))>>) :
      f \in {"a", "."}, d \in {"ascending", "up"}, n \in {"last", "none"} }
MCPages == {-1, 0, 2}
MCNumerals == [n \in -1..2 |-> ToString(n)]
PageWires == {Nil, Int_(0), Int_(2), Int_(-1), Str("2")}

MCPayloads ==
  {MapOf(<<"where", "sortBy", "limit", "offset">>, <<f, s, l, o>>) :
     f \in MCFilters, s \in MCSorts, l, o \in PageWires}
  \cup {Nil, MapOf(<<>>, <<>>), MapOf(<<"where">>, <<Good>>), MapOf(<<"limit">>, <<Nil>>)}

-----------------------------------------------------------------------------
(* A request of both keys, and one that repeats a key.                     *)
MCRequests == {<<k1, k2>>, <<k2, k1, k2>>}
=============================================================================
