----------------------------- MODULE MCBoxQuery -----------------------------
(* Records and queries small enough to enumerate: every operator, an AND   *)
(* and an OR, mixed types, both encodings of a number, pages and sorts.    *)
EXTENDS BoxQuery

Cmp(f, op, v) == [kind |-> "comparison", field |-> f, op |-> op, value |-> v, upper |-> v]
Range_(f, v, w) == [kind |-> "comparison", field |-> f, op |-> "between", value |-> v, upper |-> w]
And(fs) == [kind |-> "and", filters |-> fs]
Or(fs)  == [kind |-> "or", filters |-> fs]

Rec(s, a) == [status |-> s, age |-> a]

\* Numbers in two encodings, each also asked for in the other one, a text among
\* the numbers, NaN, a null, a missing field, and a list, which no index accepts.
MCRecords ==
  { Rec(Text(1), Int_(2)), Rec(Text(2), Float(1)), Rec(Null, Text(1)),
    Rec(Text(1), Missing), Rec(List, NaN) }

Asc(f)  == [field |-> f, direction |-> "ascending",  nulls |-> "last"]
Desc(f) == [field |-> f, direction |-> "descending", nulls |-> "first"]
DescLast(f) == [field |-> f, direction |-> "descending", nulls |-> "last"]

Q(where, sortBy, offset, limit) ==
  [where |-> where, sortBy |-> sortBy, offset |-> offset, limit |-> limit]

Wheres ==
  { Cmp("age", "equal", Int_(1)), Cmp("age", "notEqual", Float(1)),
    Cmp("age", "greaterThan", Int_(1)), Cmp("age", "lessThanOrEqual", Float(1)),
    Range_("age", Int_(1), Int_(2)), Range_("age", Int_(2), Text(1)),
    Cmp("status", "isNull", Null), Cmp("status", "equal", Null),
    And(<<Cmp("status", "equal", Text(1)), Cmp("age", "greaterThanOrEqual", Int_(1))>>),
    And(<<Cmp("age", "lessThan", Int_(2)), Cmp("status", "equal", Text(1))>>),
    Or(<<Cmp("age", "equal", Float(2)), Cmp("status", "isNotNull", Null)>>),
    And(<<Or(<<Cmp("age", "isNull", Null),
               And(<<Cmp("age", "lessThan", Int_(2)), Cmp("status", "equal", Text(2))>>)>>),
          Cmp("status", "isNotNull", Null)>>) }

MCQueries ==
  {Q(w, <<>>, 0, NoLimit) : w \in Wheres}
    \cup {Q(w, <<>>, o, 1) : w \in {And(<<Cmp("status", "isNotNull", Null)>>)}, o \in {0, 1}}
    \cup {Q(w, <<DescLast("age"), Asc("status")>>, 0, 2) : w \in {Cmp("status", "isNotNull", Null)}}
    \cup {Q(w, <<Desc("age")>>, 1, 1) : w \in {Cmp("status", "equal", Text(1))}}

RECURSIVE Parts(_)
Parts(f) ==
  {f} \cup (IF f.kind = "comparison" THEN {} ELSE UNION {Parts(f.filters[n]) : n \in DOMAIN f.filters})

RECURSIVE Nesting(_)
Nesting(f) ==
  IF f.kind = "comparison" THEN 0
  ELSE 1 + Max({0} \cup {Nesting(f.filters[n]) : n \in DOMAIN f.filters})

MCFilters == UNION {Parts(q.where) : q \in MCQueries}
MCDepth   == [f \in MCFilters |-> Nesting(f)]
=============================================================================
