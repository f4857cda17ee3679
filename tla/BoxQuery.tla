------------------------------ MODULE BoxQuery ------------------------------
(***************************************************************************)
(* One query (core.rs query, query.rs, the lookups of index.rs) while the  *)
(* records and the index definitions change under it.  The query reads one *)
(* redb snapshot; the planner narrows the keys through the persisted       *)
(* indexes, every candidate is checked again against the whole filter, and *)
(* the results are ordered and cut to a page.                              *)
(*                                                                         *)
(* BoxStorage shows that the entries of an index are exactly the ones its  *)
(* records derive, so here the entries are derived from the snapshot.  A   *)
(* value is its type, its rank in the order of its type and its encoding.  *)
(***************************************************************************)
EXTENDS Integers, FiniteSets, SequencesExt

CONSTANTS
  Keys,       \* record keys: numbers, in the order of the strings
  Fields,
  Records,    \* the records writers store, Missing where a field is
  Filters,    \* the filters of the queries, with all their parts
  Depth,      \* how deep each filter nests
  Queries,    \* the queries clients ask
  Absent, NoLimit

Types  == {"missing", "nil", "bool", "num", "nan", "text", "list"}
Values == [type : Types, rank : Int, enc : {"-", "int", "float"}]

Missing == [type |-> "missing", rank |-> 0, enc |-> "-"]
Null    == [type |-> "nil",     rank |-> 0, enc |-> "-"]
NaN     == [type |-> "nan",     rank |-> 0, enc |-> "-"]
List    == [type |-> "list",    rank |-> 0, enc |-> "-"]
Int_(n)   == [type |-> "num",  rank |-> n, enc |-> "int"]
Float(n)  == [type |-> "num",  rank |-> n, enc |-> "float"]
Text(n)   == [type |-> "text", rank |-> n, enc |-> "-"]

OrderedOps == {"greaterThan", "greaterThanOrEqual", "lessThan", "lessThanOrEqual"}
Ops == OrderedOps \cup {"equal", "notEqual", "isNull", "isNotNull", "between"}

\* What the parser lets through (query.rs:83-107, 232-434).
ComparisonNodes ==
  [kind : {"comparison"}, field : Fields, op : Ops, value : Values, upper : Values]
Sorts == [field : Fields, direction : {"ascending", "descending"}, nulls : {"first", "last"}]

ASSUME RecordAssumption ==
  /\ IsFiniteSet(Keys) /\ Keys \subseteq Int
  /\ Absent \notin Records
  /\ \A r \in Records : r \in [Fields -> Values]

\* A filter is a finite tree of groups over comparisons.
ASSUME FilterAssumption ==
  /\ Depth \in [Filters -> Nat]
  /\ \A f \in Filters :
       \/ f \in ComparisonNodes
       \/ /\ f.kind \in {"and", "or"} /\ f.filters \in Seq(Filters)
          /\ \A n \in DOMAIN f.filters : Depth[f.filters[n]] < Depth[f]

ASSUME QueryAssumption ==
  /\ NoLimit \notin Nat
  /\ \A q \in Queries :
       /\ q.where \in Filters /\ q.sortBy \in Seq(Sorts) /\ q.offset \in Nat
       /\ q.limit \in (Nat \ {0}) \cup {NoLimit}

VARIABLES
  encrypted, \* whether the box is encrypted
  data,      \* the committed records
  indexed,   \* the fields an index is defined on
  snapshot,  \* what the query's read transaction sees of both
  query,     \* the query in progress
  pc,
  keys,      \* candidate keys still to be visited, in order
  matched,   \* offset accounting of the unsorted path
  rows       \* records accepted so far: [key, record]

vars == <<encrypted, data, indexed, snapshot, query, pc, keys, matched, rows>>

Present(d) == {k \in Keys : d[k] # Absent}

-----------------------------------------------------------------------------
(* Comparison and filters.                                                 *)

IsNumber(v) == v.type \in {"num", "nan"}

Sign(n) == IF n < 0 THEN "less" ELSE IF n = 0 THEN "equal" ELSE "greater"

\* compare: numbers with numbers, strings with strings; NaN has no order.
Compare(v, w) ==
  CASE IsNumber(v) /\ IsNumber(w) ->
         IF "nan" \in {v.type, w.type} THEN "none" ELSE Sign(v.rank - w.rank)
    [] v.type = "text" /\ w.type = "text" -> Sign(v.rank - w.rank)
    [] OTHER -> "error"

ValuesEqual(v, w) ==
  IF IsNumber(v) /\ IsNumber(w) THEN Compare(v, w) = "equal" ELSE v = w

Wanted(op) ==
  CASE op = "greaterThan"        -> {"greater"}
    [] op = "greaterThanOrEqual" -> {"greater", "equal"}
    [] op = "lessThan"           -> {"less"}
    [] op = "lessThanOrEqual"    -> {"less", "equal"}

Verdict(b) == IF b THEN "yes" ELSE "no"
OrderVerdict(ordering, wanted) ==
  IF ordering = "error" THEN "error" ELSE Verdict(ordering \in wanted)

AtLeast == Wanted("greaterThanOrEqual")
AtMost  == Wanted("lessThanOrEqual")

\* matches_comparison: between compares with both bounds before it decides.
MatchesComparison(v, c) ==
  IF v = Missing THEN "no" ELSE
  CASE c.op = "isNull"     -> Verdict(v = Null)
    [] c.op = "isNotNull"  -> Verdict(v # Null)
    [] c.op = "equal"      -> Verdict(ValuesEqual(v, c.value))
    [] c.op = "notEqual"   -> Verdict(~ValuesEqual(v, c.value))
    [] c.op \in OrderedOps -> OrderVerdict(Compare(v, c.value), Wanted(c.op))
    [] c.op = "between"    ->
         IF "error" \in {Compare(v, c.value), Compare(v, c.upper)} THEN "error"
         ELSE Verdict(Compare(v, c.value) \in AtLeast /\ Compare(v, c.upper) \in AtMost)

\* The first verdict that settles a group, or else the neutral one.
FirstOf(verdicts, neutral) ==
  LET at == SelectInSeq(verdicts, LAMBDA x : x # neutral)
  IN  IF at = 0 THEN neutral ELSE verdicts[at]

MatchesFilter(r, f) ==
  LET verdict[g \in Filters] ==
        IF g.kind = "comparison" THEN MatchesComparison(r[g.field], g)
        ELSE FirstOf([n \in DOMAIN g.filters |-> verdict[g.filters[n]]],
                     IF g.kind = "and" THEN "yes" ELSE "no")
  IN  verdict[f]

-----------------------------------------------------------------------------
(* The planner.                                                            *)

IsOrderedScalar(v) == v.type \in {"num", "nan", "text"}
IsIndexScalar(v)   == IsOrderedScalar(v) \/ v.type \in {"nil", "bool"}

Eligible(c) ==
  CASE c.op = "equal"      -> IsIndexScalar(c.value)
    [] c.op \in OrderedOps -> IsOrderedScalar(c.value)
    [] c.op = "between"    -> IsOrderedScalar(c.value) /\ IsOrderedScalar(c.upper)
    [] OTHER               -> FALSE

\* index_candidates: through AND groups only.
IndexCandidates[f \in Filters] ==
  IF f.kind = "comparison" THEN {c \in {f} : Eligible(c)}
  ELSE IF f.kind = "and" THEN UNION {IndexCandidates[f.filters[n]] : n \in DOMAIN f.filters}
  ELSE {}

\* Seeded fault: ranges are looked up in an encrypted box too.
UsableAlways(c) == TRUE

\* candidate_keys looks up equalities only in an encrypted box.
Usable(c) == encrypted => c.op = "equal"

\* The comparisons over a field an index is defined on.
Selected(s, f) == {c \in IndexCandidates[f] : Usable(c) /\ c.field \in s.indexed}

\* index_candidate_matches: between stops at the lower bound.
CandidateMatches(v, c) ==
  CASE c.op = "equal"      -> Verdict(ValuesEqual(v, c.value))
    [] c.op \in OrderedOps -> OrderVerdict(Compare(v, c.value), Wanted(c.op))
    [] c.op = "between"    ->
         LET lower == OrderVerdict(Compare(v, c.value), AtLeast)
         IN  IF lower = "yes" THEN OrderVerdict(Compare(v, c.upper), AtMost) ELSE lower

\* canonical_equality_scalar: a number loses its encoding.
Canonical(v) == [type |-> v.type, rank |-> v.rank]

EntryMatches(v, c) ==
  IF encrypted THEN Verdict(Canonical(v) = Canonical(c.value)) ELSE CandidateMatches(v, c)

\* Records with an entry in the index over field f.
IndexedKeys(s, f) == {k \in Present(s.data) : s.data[k][f] # Missing}

\* lookup_candidate refuses a range over encrypted tokens.
LookupFails(s, c) ==
  \/ encrypted /\ c.op # "equal"
  \/ \E k \in IndexedKeys(s, c.field) : EntryMatches(s.data[k][c.field], c) = "error"

Lookup(s, c) ==
  {k \in IndexedKeys(s, c.field) : EntryMatches(s.data[k][c.field], c) = "yes"}

\* The intersection of the candidate sets, or every key when there is none.
CandidateKeys(s, f) ==
  {k \in Present(s.data) : \A c \in Selected(s, f) : k \in Lookup(s, c)}

-----------------------------------------------------------------------------
(* Sorting.                                                                *)

\* The elements of S from the first to the last: keys and rows have no equals.
Ascending(S, Before(_, _)) ==
  CHOOSE s \in [1..Cardinality(S) -> S] : \A i, j \in DOMAIN s : i < j => Before(s[i], s[j])

\* sort_values: what a record contributes to one column.
SortValue(r, sort) ==
  LET v == r[sort.field]
  IN  CASE v \in {Missing, Null}       -> [kind |-> "nullish", rank |-> 0]
        [] v.type \in {"num", "text"} -> [kind |-> v.type, rank |-> v.rank]
        [] OTHER                       -> [kind |-> "error", rank |-> 0]

Columns(sorts) == DOMAIN sorts

\* sort_values fails, or validate_sort_rows meets two kinds in one column.
SortRefused(table, sorts) ==
  \E c \in Columns(sorts) :
    LET kinds == {SortValue(table[n].record, sorts[c]).kind : n \in DOMAIN table}
    IN  "error" \in kinds \/ {"num", "text"} \subseteq kinds

CompareColumn(v, w, sort) ==
  CASE v.kind = "nullish" /\ w.kind = "nullish" -> "equal"
    [] v.kind = "nullish" /\ w.kind # "nullish" -> IF sort.nulls = "first" THEN "less" ELSE "greater"
    [] v.kind # "nullish" /\ w.kind = "nullish" -> IF sort.nulls = "first" THEN "greater" ELSE "less"
    [] OTHER -> IF sort.direction = "ascending"
                THEN Sign(v.rank - w.rank) ELSE Sign(w.rank - v.rank)

\* compare_sort_rows: the first column that tells them apart, then the key.
SortsBefore(a, b, sorts) ==
  LET column == [c \in Columns(sorts) |->
                   CompareColumn(SortValue(a.record, sorts[c]),
                                 SortValue(b.record, sorts[c]), sorts[c])]
      order  == FirstOf(column, "equal")
  IN  order = "less" \/ (order = "equal" /\ a.key < b.key)

Page(table, q) ==
  SubSeq(table, q.offset + 1,
         IF q.limit = NoLimit THEN Len(table) ELSE Min({Len(table), q.offset + q.limit}))

-----------------------------------------------------------------------------
NoQuery == [where |-> [kind |-> "and", filters |-> <<>>],
            sortBy |-> <<>>, offset |-> 0, limit |-> NoLimit]

EmptySnapshot == [data |-> [k \in Keys |-> Absent], indexed |-> {}]

IndexableRecord(r, fs) == \A f \in fs : r[f] = Missing \/ IsIndexScalar(r[f])

Init ==
  /\ encrypted \in BOOLEAN
  /\ data \in [Keys -> Records \cup {Absent}]
  /\ indexed \in SUBSET Fields
  /\ \A k \in Present(data) : IndexableRecord(data[k], indexed)
  /\ snapshot = EmptySnapshot
  /\ query = NoQuery
  /\ pc = "idle"
  /\ keys = <<>>
  /\ matched = 0
  /\ rows = <<>>

\* Commits of other callers; BoxStorage models them.
Write(k, r) ==
  /\ r # Absent => IndexableRecord(r, indexed)
  /\ data' = [data EXCEPT ![k] = r]
  /\ UNCHANGED <<encrypted, indexed, snapshot, query, pc, keys, matched, rows>>

ToggleIndex(f) ==
  /\ f \notin indexed => \A k \in Present(data) : IndexableRecord(data[k], {f})
  /\ indexed' = IF f \in indexed THEN indexed \ {f} ELSE indexed \cup {f}
  /\ UNCHANGED <<encrypted, data, snapshot, query, pc, keys, matched, rows>>

BeginQuery(q) ==
  /\ pc = "idle"
  /\ snapshot' = [data |-> data, indexed |-> indexed]
  /\ query' = q
  /\ pc' = "plan"
  /\ keys' = <<>> /\ matched' = 0 /\ rows' = <<>>
  /\ UNCHANGED <<encrypted, data, indexed>>

Plan ==
  /\ pc = "plan"
  /\ IF \E c \in Selected(snapshot, query.where) : LookupFails(snapshot, c)
     THEN pc' = "error" /\ UNCHANGED keys
     ELSE /\ pc' = "visit"
          /\ keys' = Ascending(CandidateKeys(snapshot, query.where), <)
  /\ UNCHANGED <<encrypted, data, indexed, snapshot, query, matched, rows>>

\* Seeded fault: every record is read in a transaction of its own.
RecordOfLatest(k) == data[k]

\* query_get: the record of a candidate key, from the query's own snapshot.  A
\* key without a record is passed over.
RecordOf(k) == snapshot.data[k]

Row(k) == [key |-> k, record |-> RecordOf(k)]

Sorted == query.sortBy # <<>>

\* A match is skipped while the offset lasts; a full page ends the loop.
Accept ==
  /\ matched' = matched + 1
  /\ rows' = IF ~Sorted /\ matched < query.offset THEN rows
             ELSE Append(rows, Row(Head(keys)))
  /\ pc' = IF ~Sorted /\ query.limit # NoLimit /\ Len(rows') >= query.limit
           THEN "done" ELSE pc

Visit ==
  /\ pc = "visit" /\ keys # <<>>
  /\ LET record  == RecordOf(Head(keys))
         verdict == IF record = Absent THEN "no" ELSE MatchesFilter(record, query.where)
     IN  CASE verdict = "yes"   -> Accept
           [] verdict = "no"    -> UNCHANGED <<matched, rows, pc>>
           [] verdict = "error" -> pc' = "error" /\ UNCHANGED <<matched, rows>>
  /\ keys' = Tail(keys)
  /\ UNCHANGED <<encrypted, data, indexed, snapshot, query>>

\* The end of the loop: order, then cut.
Order ==
  /\ pc = "visit" /\ keys = <<>>
  /\ IF ~Sorted THEN pc' = "done" /\ UNCHANGED rows
     ELSE IF SortRefused(rows, query.sortBy) THEN pc' = "error" /\ UNCHANGED rows
     ELSE /\ pc' = "done"
          /\ rows' = Page(Ascending(ToSet(rows), LAMBDA a, b : SortsBefore(a, b, query.sortBy)),
                          query)
  /\ UNCHANGED <<encrypted, data, indexed, snapshot, query, keys, matched>>

EndQuery ==
  /\ pc \in {"done", "error"}
  /\ pc' = "idle"
  /\ snapshot' = EmptySnapshot
  /\ query' = NoQuery
  /\ keys' = <<>> /\ matched' = 0 /\ rows' = <<>>
  /\ UNCHANGED <<encrypted, data, indexed>>

Next ==
  \/ \E k \in Keys, r \in Records \cup {Absent} : Write(k, r)
  \/ \E f \in Fields : ToggleIndex(f)
  \/ \E q \in Queries : BeginQuery(q)
  \/ Plan \/ Visit \/ Order \/ EndQuery

Spec == Init /\ [][Next]_vars

-----------------------------------------------------------------------------
(* What a query means, without loops, indexes or early returns.            *)

\* A comparison of values that have no order does not hold.
Holds(v, c) ==
  v # Missing /\
  CASE c.op = "isNull"    -> v = Null
    [] c.op = "isNotNull" -> v # Null
    [] c.op = "equal"     -> ValuesEqual(v, c.value)
    [] c.op = "notEqual"  -> ~ValuesEqual(v, c.value)
    [] c.op = "between"   -> /\ Compare(v, c.value) \in AtLeast
                             /\ Compare(v, c.upper) \in AtMost
    [] OTHER              -> Compare(v, c.value) \in Wanted(c.op)

Satisfies(r, f) ==
  LET true[g \in Filters] ==
        CASE g.kind = "comparison" -> Holds(r[g.field], g)
          [] g.kind = "and" -> \A n \in DOMAIN g.filters : true[g.filters[n]]
          [] OTHER          -> \E n \in DOMAIN g.filters : true[g.filters[n]]
  IN  true[f]

\* The place of a record in one column: nulls at either end, ranks between them.
Place(r, sort) ==
  LET v == r[sort.field]
  IN  IF v \in {Missing, Null} THEN <<IF sort.nulls = "first" THEN -1 ELSE 1, 0>>
      ELSE <<0, IF sort.direction = "ascending" THEN v.rank ELSE 0 - v.rank>>

Lower(p, q) == p[1] < q[1] \/ (p[1] = q[1] /\ p[2] < q[2])

\* The order asked for: column by column, records with equal places by key.
Precedes(d, k, l, sorts) ==
  LET Ties(n) == \A c \in 1..n : Place(d[k], sorts[c]) = Place(d[l], sorts[c])
  IN  \/ \E c \in DOMAIN sorts : Ties(c - 1) /\ Lower(Place(d[k], sorts[c]), Place(d[l], sorts[c]))
      \/ Ties(Len(sorts)) /\ k < l

Hits(s, q) == {k \in Present(s.data) : Satisfies(s.data[k], q.where)}

Expected(s, q) ==
  LET order == Ascending(Hits(s, q), LAMBDA k, l : Precedes(s.data, k, l, q.sortBy))
      last  == IF q.limit = NoLimit THEN Len(order) ELSE Min({Len(order), q.offset + q.limit})
  IN  [n \in 1..(last - q.offset) |->
         [key |-> order[n + q.offset], record |-> s.data[order[n + q.offset]]]]

\* What the same query answers without any index.
ScanFails(s, q) ==
  LET all  == Ascending(Present(s.data), <)
      bad  == SelectInSeq(all, LAMBDA k : MatchesFilter(s.data[k], q.where) = "error")
      hits == SelectSeq(all, LAMBDA k : MatchesFilter(s.data[k], q.where) = "yes")
      full == /\ q.sortBy = <<>> /\ q.limit # NoLimit /\ bad # 0
              /\ Cardinality({n \in 1..(bad - 1) :
                   MatchesFilter(s.data[all[n]], q.where) = "yes"}) >= q.offset + q.limit
  IN  \/ bad # 0 /\ ~full
      \/ SortRefused([n \in DOMAIN hits |-> [key |-> hits[n], record |-> s.data[hits[n]]]],
                     q.sortBy)

-----------------------------------------------------------------------------
(* Properties.                                                             *)

\* A query that answers gives exactly the page of the records that satisfy the
\* filter in one committed version of the box, in the order asked for, whether
\* the planner narrowed through indexes or not, encrypted or not, whatever is
\* written and whichever index comes or goes meanwhile (core.rs:228-289,
\* index.rs:116-206; docs/QUERY_INDEX_03.md, Execution shape).
AnswersSnapshot ==
  pc = "done" => rows = Expected(snapshot, query)

Comparisons[f \in Filters] ==
  IF f.kind = "comparison" THEN {f}
  ELSE UNION {Comparisons[f.filters[n]] : n \in DOMAIN f.filters}

Ordered(v, w) == (IsNumber(v) /\ IsNumber(w)) \/ (v.type = "text" /\ w.type = "text")

\* An ordered comparison of the filter meets a value it cannot order.
MixedTypes(d, f) ==
  \E k \in Present(d), c \in Comparisons[f] :
    /\ d[k][c.field] # Missing
    /\ \/ c.op \in OrderedOps \cup {"between"} /\ ~Ordered(d[k][c.field], c.value)
       \/ c.op = "between" /\ ~Ordered(d[k][c.field], c.upper)

\* A query fails only over values that have no order: in a box whose records
\* the filter and the sort can all compare, no plan, index or encryption makes
\* it fail (index.rs:116-175, query.rs:153-179, 497-508).
FailsOnlyOnMixedTypes ==
  pc = "error" => \/ MixedTypes(snapshot.data, query.where)
                  \/ SortRefused(rows, query.sortBy)

\* A query fails exactly when a scan of the same snapshot fails.
\* docs/QUERY_INDEX_03.md:293 says "Scan and indexed execution must be logically
\* equivalent"; the index lookup compares values the scan's short-circuits
\* never reach (index.rs:170-186), and skips records the scan fails on.
ScanAndIndexAgree ==
  pc \in {"done", "error"} => (pc = "error" <=> ScanFails(snapshot, query))

-----------------------------------------------------------------------------
(* What every step keeps.                                                  *)

Contents == [Keys -> Records \cup {Absent}]

QueryTyped ==
  /\ encrypted \in BOOLEAN
  /\ data \in Contents /\ indexed \subseteq Fields
  /\ snapshot \in [data : Contents, indexed : SUBSET Fields]
  /\ pc \in {"idle", "plan", "visit", "done", "error"}
  /\ pc # "idle" => query \in Queries
  /\ keys \in Seq(Keys) /\ matched \in Nat
  /\ rows \in Seq([key : Keys, record : Records])
  /\ pc = "plan" => matched = 0 /\ rows = <<>>

\* The keys still to be visited come after the visited ones, in order.
AheadInv ==
  pc = "visit" =>
    /\ ToSet(keys) \subseteq CandidateKeys(snapshot, query.where)
    /\ \A i, j \in DOMAIN keys : i < j => keys[i] < keys[j]
    /\ \A k \in CandidateKeys(snapshot, query.where) \ ToSet(keys) :
         /\ \A n \in DOMAIN keys : k < keys[n]
         /\ MatchesFilter(snapshot.data[k], query.where) # "error"

\* h lists the keys in S.
Lists(h, S) ==
  /\ {h[n] : n \in DOMAIN h} = S
  /\ \A i, j \in DOMAIN h : i < j => h[i] < h[j]

\* The rows are the hits among the visited keys, without those the offset skips.
Skipped == IF Sorted THEN 0 ELSE query.offset

RowsInv ==
  pc = "visit" =>
    /\ \E h \in [1..matched -> Keys] :
         /\ Lists(h, Hits(snapshot, query) \ ToSet(keys))
         /\ rows = [n \in 1..(matched - Skipped) |-> Row(h[n + Skipped])]
    /\ ~Sorted /\ query.limit # NoLimit => Len(rows) < query.limit

QueryInv ==
  QueryTyped /\ AheadInv /\ RowsInv /\ AnswersSnapshot /\ FailsOnlyOnMixedTypes
=============================================================================
