--------------------------- MODULE QueryBuilders ---------------------------
(***************************************************************************)
(* A query on its way to the engine: the fluent builder of Dart            *)
(* (query_builder.dart, the model of query.dart), its wire form, decoded   *)
(* by decode_query of query.rs, and the builder of native.rs that makes    *)
(* the same QuerySpec without a wire.  One client makes the same calls on  *)
(* both builders for as long as the Rust one has them.                     *)
(*                                                                         *)
(* Dart throws at the offending call and leaves the builder as it was; the *)
(* Rust builder goes on and reports the first error when it is run.        *)
(***************************************************************************)
EXTENDS WireFormat, Integers, SequencesExt

CONSTANTS
  Fields, BadFields,  \* dotted paths, and strings that are none
  Comparisons,        \* [field, op, value, upper] a client may ask for
  Grouped,            \* those it may put in an explicit group
  Pages,              \* numbers given as limit and offset
  Payloads,           \* payloads of other frontends, as normalised maps
  Numerals,           \* the texts of the integers among them
  MaxCalls            \* bound: builder calls of one query

CompareOps == {"equal", "notEqual", "greaterThan", "greaterThanOrEqual",
               "lessThan", "lessThanOrEqual", "between", "isNull", "isNotNull"}

\* A filter is a tree as well: a group of filters, or a comparison with its
\* operands, which are Missing where there is none.
Comparison(c) ==
  [t |-> "comparison", s |-> c.op, items |-> <<Str(c.field), c.value, c.upper>>]
Operand(f, n) == IF n \in DOMAIN f.items THEN f.items[n] ELSE Missing
Group(op, filters) == [t |-> "group", s |-> op, items |-> filters]
NoFilter == Group("none", <<>>)

Spec_(where, sortBy, limit, offset) ==
  [where |-> where, sortBy |-> sortBy, limit |-> limit, offset |-> offset]
NoLimit == -1
Rejected == Spec_(NoFilter, <<>>, NoLimit, 0)
NotSent  == Spec_(Group("not sent", <<>>), <<>>, NoLimit, 0)

Int_(n) == Leaf("int", Numerals[n])
Sizes   == {n \in DOMAIN Numerals : n >= 0}

QueryTexts ==
  CompareOps \cup
  { "and", "or", "none", "not sent", "comparison", "group", "type", "field", "operator", "value",
    "upperValue", "filters", "direction", "nulls", "where", "sortBy", "limit", "offset",
    "ascending", "descending", "first", "last" }

ASSUME QueryTextsAssumption == QueryTexts \cup Fields \subseteq Texts
ASSUME NumeralsAssumption ==
  /\ Pages \cup {0} \subseteq DOMAIN Numerals /\ DOMAIN Numerals \subseteq Int
  /\ \A m, n \in DOMAIN Numerals : Numerals[n] \in Texts /\ (Numerals[m] = Numerals[n] => m = n)
ASSUME PayloadsAssumption == Payloads \subseteq WireTrees /\ MaxCalls \in Nat

\* A client compares Dart values, and the wire has room for what it builds.
ASSUME ComparisonsAssumption ==
  \E levels \in 0..Nesting :
    /\ 3 * (MaxCalls + levels) + 5 <= Nesting
    /\ \A c \in Comparisons \cup Grouped :
         /\ c.op \in CompareOps
         /\ {c.value, c.upper} \subseteq Tree[levels] /\ IsDart(c.value) /\ IsDart(c.upper)

-----------------------------------------------------------------------------
(* query.dart and box.dart: what the constructors refuse, the wire form.   *)

DartAccepts(c) == c.field \in Fields /\ (c.op = "between" => c.upper # Nil)

MapOf(keys, values) == Node("map", [i \in DOMAIN keys |-> Pair(Str(keys[i]), values[i])])

FilterWireBy(wire, f) ==
  IF f.t = "comparison"
  THEN MapOf(<<"type", "field", "operator", "value", "upperValue">>,
             <<Str("comparison"), Operand(f, 1), Str(f.s), Operand(f, 2), Operand(f, 3)>>)
  ELSE MapOf(<<"type", "operator", "filters">>,
             <<Str("group"), Str(f.s), Node("list", Each(wire, f.items))>>)
FilterWire(f) == LET wire[x \in DartTrees] == FilterWireBy(wire, x) IN wire[f]

SortWire(s) == MapOf(<<"field", "direction", "nulls">>, <<Str(s.field), Str(s.direction), Str(s.nulls)>>)

QueryWire(q) ==
  MapOf(<<"where", "sortBy", "limit", "offset">>,
        <<FilterWire(q.where), Node("list", [i \in DOMAIN q.sortBy |-> SortWire(q.sortBy[i])]),
          IF q.limit = NoLimit THEN Nil ELSE Int_(q.limit), Int_(q.offset)>>)

-----------------------------------------------------------------------------
(* query.rs: decode_query over a normalised payload.                       *)

Text(map, key) == LET v == Field(map, key) IN IF v.t = "str" THEN v.s ELSE "?"

\* as_usize: absent and nil are none, what is no size is bad.
BadNumber(map, key) ==
  LET v == Field(map, key) IN v \notin {Missing, Nil} /\ \A n \in Sizes : v # Int_(n)
NumberOr(map, key, none) ==
  LET v == Field(map, key) IN IF v \in {Missing, Nil} THEN none ELSE CHOOSE n \in Sizes : v = Int_(n)

GoodSort(w) ==
  /\ Text(w, "field") \in Fields
  /\ Text(w, "direction") \in {"ascending", "descending"}
  /\ Text(w, "nulls") \in {"first", "last"}
ParseSort(w) == [field |-> Text(w, "field"), direction |-> Text(w, "direction"), nulls |-> Text(w, "nulls")]

ComparisonOf(w) ==
  LET field == Text(w, "field")
      op    == Text(w, "operator")
      upper == Field(w, "upperValue")
  IN  IF field \in Fields /\ op \in CompareOps /\ (op = "between" => upper # Missing)
      THEN Comparison([field |-> field, op |-> op, value |-> Field(w, "value"), upper |-> upper])
      ELSE NoFilter

GroupOf(w, filters) ==
  IF /\ Text(w, "operator") \in {"and", "or"}
     /\ Field(w, "filters").t = "arr" /\ filters # <<>>
     /\ \A i \in DOMAIN filters : filters[i] # NoFilter
  THEN Group(Text(w, "operator"), filters) ELSE NoFilter

\* Seeded fault: the filters of a group are read back to front.
ParseFilterByReversed(parse, w) ==
  CASE Text(w, "type") = "comparison" -> ComparisonOf(w)
    [] Text(w, "type") = "group" -> GroupOf(w, Reverse(Each(parse, Field(w, "filters").items)))
    [] OTHER -> NoFilter

ParseFilterBy(parse, w) ==
  CASE Text(w, "type") = "comparison" -> ComparisonOf(w)
    [] Text(w, "type") = "group" -> GroupOf(w, Each(parse, Field(w, "filters").items))
    [] OTHER -> NoFilter
ParseFilter(w) == LET parse[x \in WireTrees] == ParseFilterBy(parse, x) IN parse[w]

\* Seeded fault: a limit of zero is not refused.
DecodeQueryLimitZero(w) ==
  LET sortBy == Field(w, "sortBy")
  IN  IF ParseFilter(Field(w, "where")) = NoFilter \/ BadNumber(w, "limit") \/ BadNumber(w, "offset")
      THEN Rejected
      ELSE Spec_(ParseFilter(Field(w, "where")), [i \in DOMAIN sortBy.items |-> ParseSort(sortBy.items[i])],
                 NumberOr(w, "limit", NoLimit), NumberOr(w, "offset", 0))

DecodeQuery(w) ==
  LET where  == ParseFilter(Field(w, "where"))
      sortBy == Field(w, "sortBy")
  IN  IF \/ where = NoFilter
         \/ (sortBy \notin {Missing, Nil} /\ sortBy.t # "arr")
         \/ \E i \in DOMAIN sortBy.items : ~GoodSort(sortBy.items[i])
         \/ BadNumber(w, "limit") \/ BadNumber(w, "offset")
         \/ Field(w, "limit") = Int_(0)
      THEN Rejected
      ELSE Spec_(where, [i \in DOMAIN sortBy.items |-> ParseSort(sortBy.items[i])],
                 NumberOr(w, "limit", NoLimit), NumberOr(w, "offset", 0))

-----------------------------------------------------------------------------
VARIABLES
  calls,     \* the predicates of the chain: operator and filter of each
  rejected,  \* the calls that were refused
  dart,      \* the Dart builder
  rust,      \* the Rust builder, and its first validation error
  common,    \* whether the Rust builder has every call made so far
  received   \* the query the engine has decoded, once it is sent, or Rejected

builderVars == <<calls, rejected, dart, rust, common, received>>

BuildersInit ==
  /\ calls = <<>> /\ rejected = <<>> /\ common = TRUE
  /\ dart = Spec_(NoFilter, <<>>, NoLimit, 0)
  /\ rust = [filters |-> <<>>, sorts |-> <<>>, limit |-> NoLimit, offset |-> 0, error |-> "none"]
  /\ received = NotSent

Building ==
  received = NotSent /\ Len(calls) + Len(rejected) + Len(dart.sortBy) < MaxCalls

\* Seeded fault: the new operand is appended to the group already there.
AppendFlat(op, f) ==
  /\ dart' = [dart EXCEPT !.where =
                IF @ = NoFilter THEN f
                ELSE IF @.t = "group" THEN Group(@.s, Append(@.items, f)) ELSE Group(op, <<@, f>>)]
  /\ calls' = Append(calls, [op |-> op, filter |-> f])
  /\ UNCHANGED rejected

\* BoxQueryBuilder._append: the chain so far becomes the left operand.
Append_(op, f) ==
  /\ dart' = [dart EXCEPT !.where = IF @ = NoFilter THEN f ELSE Group(op, <<@, f>>)]
  /\ calls' = Append(calls, [op |-> op, filter |-> f])
  /\ UNCHANGED rejected

DartThrows(what) == rejected' = Append(rejected, what) /\ UNCHANGED <<dart, calls>>

\* Seeded fault: a later error replaces the first.
SetLastError(r, what) == [r EXCEPT !.error = what]

SetError(r, what) == [r EXCEPT !.error = IF @ = "none" THEN what ELSE @]

\* FieldPredicateBuilder.comparison: a value only where the test has one.
RustComparison(c) ==
  Comparison([field |-> c.field, op |-> c.op,
              value |-> IF c.op \in {"isNull", "isNotNull"} THEN Missing ELSE c.value,
              upper |-> IF c.op = "between" THEN c.upper ELSE Missing])

\* where, and, or of one builder; a comparison of the other.
Compare(op, c) ==
  /\ Building
  /\ (op = "or" => dart.where # NoFilter)
  /\ IF DartAccepts(c) THEN Append_(op, Comparison(c)) ELSE DartThrows("field")
  /\ common' = (common /\ op = "and" /\ c.value.t \in Scalars /\ (c.op = "between" => c.upper # Nil))
  /\ rust' = IF ~common' THEN rust
             ELSE IF c.field \in Fields THEN [rust EXCEPT !.filters = Append(@, RustComparison(c))]
             ELSE SetError(rust, "field")
  /\ UNCHANGED received

\* andGroup and orGroup of two predicates joined by inner; a group with a sort,
\* a limit or an offset of its own is refused.
CompareGroup(op, inner, c, d, modified) ==
  /\ Building /\ dart.where # NoFilter
  /\ DartAccepts(c) /\ DartAccepts(d)
  /\ IF modified THEN DartThrows("group")
     ELSE Append_(op, Group(inner, <<Comparison(c), Comparison(d)>>))
  /\ common' = FALSE
  /\ UNCHANGED <<rust, received>>

OrderBy(f, direction, nulls) ==
  /\ Building /\ dart.where # NoFilter
  /\ LET sort == [field |-> f, direction |-> direction, nulls |-> nulls] IN
     IF f \in Fields
     THEN /\ dart' = [dart EXCEPT !.sortBy = Append(@, sort)]
          /\ rust' = IF common THEN [rust EXCEPT !.sorts = Append(@, sort)] ELSE rust
          /\ UNCHANGED <<calls, rejected>>
     ELSE /\ DartThrows("field")
          /\ rust' = IF common THEN SetError(rust, "field") ELSE rust
  /\ common' = (common /\ nulls = "last")
  /\ UNCHANGED received

\* The Rust limit and offset are unsigned: only Dart can be given a negative one.
Limit(n) ==
  /\ Building /\ dart.where # NoFilter
  /\ IF n > 0 THEN dart' = [dart EXCEPT !.limit = n] /\ UNCHANGED <<calls, rejected>>
     ELSE DartThrows("limit")
  /\ common' = (common /\ n >= 0)
  /\ rust' = IF ~common' THEN rust
             ELSE IF n > 0 THEN [rust EXCEPT !.limit = n] ELSE SetError(rust, "limit")
  /\ UNCHANGED received

Offset(n) ==
  /\ Building /\ dart.where # NoFilter
  /\ IF n >= 0 THEN dart' = [dart EXCEPT !.offset = n] /\ UNCHANGED <<calls, rejected>>
     ELSE DartThrows("offset")
  /\ rust' = IF common /\ n >= 0 THEN [rust EXCEPT !.offset = n] ELSE rust
  /\ common' = (common /\ n >= 0)
  /\ UNCHANGED received

\* Box.query: BoxCodec.encode(_queryWire(query)), then decode_query.  The codec
\* throws at a value it has no form for, and no query is sent.
Send ==
  /\ received = NotSent /\ dart.where # NoFilter
  /\ ToWire(QueryWire(dart)) # Invalid
  /\ received' = DecodeQuery(Normalize(ToWire(QueryWire(dart))))
  /\ UNCHANGED <<calls, rejected, dart, rust, common>>

\* QueryBuilder.find: the only predicate, or a flat conjunction of them all.
Find ==
  IF rust.error # "none" \/ rust.filters = <<>> THEN Rejected
  ELSE Spec_(IF Len(rust.filters) = 1 THEN rust.filters[1] ELSE Group("and", rust.filters),
             rust.sorts, rust.limit, rust.offset)

\* Another frontend calls scan_query with a payload of its own.
SendForeign ==
  /\ received = NotSent /\ calls = <<>> /\ rejected = <<>>
  /\ \E w \in Payloads : received' = DecodeQuery(w)
  /\ UNCHANGED <<calls, rejected, dart, rust, common>>

BuildersNext ==
  \/ \E op \in {"and", "or"}, c \in Comparisons : Compare(op, c)
  \/ \E op, inner \in {"and", "or"}, c, d \in Grouped, modified \in BOOLEAN :
       CompareGroup(op, inner, c, d, modified)
  \/ \E f \in Fields \cup BadFields, direction \in {"ascending", "descending"},
        nulls \in {"first", "last"} : OrderBy(f, direction, nulls)
  \/ \E n \in Pages : Limit(n) \/ Offset(n)
  \/ Send \/ SendForeign

BuildersSpec == BuildersInit /\ [][BuildersNext]_builderVars

-----------------------------------------------------------------------------
Sent == received \notin {NotSent, Rejected}

\* What a comparison reads of its operands.
Operands(f) ==
  [field |-> Operand(f, 1).s, op |-> f.s,
   value |-> IF f.s \in {"isNull", "isNotNull"} THEN Nil ELSE Operand(f, 2),
   upper |-> IF f.s = "between" THEN Operand(f, 3) ELSE Nil]

Leaves(f) ==
  LET leaves[x \in WireTrees] ==
        IF x.t = "comparison" THEN {Operands(x)} ELSE UNION {leaves[x.items[i]] : i \in DOMAIN x.items}
  IN  leaves[f]

Verdicts == {"yes", "no", "error"}
Neutral(op) == IF op = "and" THEN "yes" ELSE "no"

\* matches_filter: left to right, an error or the first decisive verdict ends it.
HoldsBy(holds, verdict, x) ==
  LET decisive == {i \in DOMAIN x.items : holds[x.items[i]] # Neutral(x.s)}
  IN  IF x.t = "comparison" THEN verdict[Operands(x)]
      ELSE IF decisive = {} THEN Neutral(x.s)
      ELSE holds[x.items[CHOOSE i \in decisive : \A j \in decisive : i <= j]]
Holds(f, verdict) == LET holds[x \in WireTrees] == HoldsBy(holds, verdict, x) IN holds[f]

\* A tree whose values have been through the wire, as those of a record have.
CarriedBy(carried, f) ==
  IF f.t = "comparison"
  THEN [ t |-> "comparison", s |-> f.s,
         items |-> <<Operand(f, 1), Normalize(ToWire(Operand(f, 2))), Normalize(ToWire(Operand(f, 3)))>> ]
  ELSE Group(f.s, Each(carried, f.items))
Carried(f) == LET carried[x \in DartTrees] == CarriedBy(carried, x) IN carried[f]

\* The engine runs the query the Dart client built: no query a builder accepts
\* is refused or changed by the wire, the tags and the parser, and its values
\* are spelled as the same values are in a record.
QueryArrives ==
  received # NotSent /\ calls # <<>> => received = [dart EXCEPT !.where = Carried(@)]

\* What the calls cs say, one after the other.
Said(cs, verdict) ==
  LET said[n \in 1..Len(cs)] ==
        IF n = 1 \/ said[n - 1] = Neutral(cs[n].op) THEN Holds(cs[n].filter, verdict) ELSE said[n - 1]
  IN  said[Len(cs)]
CarriedCalls == [n \in DOMAIN calls |-> [op |-> calls[n].op, filter |-> Carried(calls[n].filter)]]

\* A mixed chain means what its calls say from left to right
\* (query_builder.dart:41, "Mixed AND/OR chains are left-associative").
LeftAssociative ==
  Sent /\ calls # <<>> =>
    \A verdict \in [Leaves(received.where) -> Verdicts] :
      Holds(received.where, verdict) = Said(CarriedCalls, verdict)

\* The two frontends agree: the Rust builder reports an error if and only if a
\* Dart call threw, and the same one; otherwise its flat conjunction holds of
\* exactly the records, and fails on exactly the records, the nested one does.
FrontendsAgree ==
  common =>
    /\ rust.error = (IF rejected = <<>> THEN "none" ELSE rejected[1])
    /\ Find # Rejected <=> calls # <<>> /\ rejected = <<>>
    /\ Find # Rejected =>
         /\ [Find EXCEPT !.where = dart.where] = dart
         /\ \A verdict \in [Leaves(dart.where) -> Verdicts] :
              Holds(dart.where, verdict) = Holds(Find.where, verdict)

WellformedBy(well, f) ==
  IF f.t = "comparison"
  THEN Operand(f, 1).s \in Fields /\ f.s \in CompareOps /\ (f.s = "between" => Operand(f, 3) # Missing)
  ELSE f.s \in {"and", "or"} /\ f.items # <<>> /\ \A i \in DOMAIN f.items : well[f.items[i]]
Wellformed(f) == LET well[x \in WireTrees] == WellformedBy(well, x) IN well[f]

\* Whoever sends it, a query the engine starts is one it can run: no empty group,
\* no empty field, no range without its end, no page without a record.
EngineGetsWellformed ==
  Sent => /\ Wellformed(received.where)
          /\ \A i \in DOMAIN received.sortBy : received.sortBy[i].field \in Fields
          /\ received.limit \in (Nat \ {0}) \cup {NoLimit} /\ received.offset \in Nat
=============================================================================
