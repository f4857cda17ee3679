--------------------------- MODULE BoxQueryProofs ---------------------------
(***************************************************************************)
(* A query answers from its snapshot, for any records, filters however     *)
(* deep, sorts, pages and indexes, encrypted or not, and fails only over   *)
(* values that have no order.                                              *)
(***************************************************************************)
EXTENDS BoxQuery, FoldTheorems, SequenceTheorems

-----------------------------------------------------------------------------
(* Filters are trees, so what is defined from the parts of a filter can be *)
(* unfolded, and what passes from the parts to a filter holds of all.      *)

SubFilters == [f \in Filters |-> IF f.kind = "comparison" THEN <<>> ELSE f.filters]

LEMMA FilterKinds ==
  ASSUME NEW f \in Filters
  PROVE  /\ f.kind \in {"comparison", "and", "or"}
         /\ f.kind = "comparison" => f \in ComparisonNodes
         /\ f.kind # "comparison" => f.filters \in Seq(Filters)
BY FilterAssumption DEF ComparisonNodes

LEMMA FilterTrees == AreTrees(Filters, SubFilters, Depth)
<1>1. SubFilters \in [Filters -> Seq(Filters)]
  BY FilterKinds, EmptySeq DEF SubFilters
<1>2. ASSUME NEW f \in Filters, NEW n \in DOMAIN SubFilters[f]
      PROVE  Depth[SubFilters[f][n]] < Depth[f]
  <2>1. CASE f.kind = "comparison"
    <3>1. SubFilters[f] = <<>> BY <2>1 DEF SubFilters
    <3> QED BY <1>2, <3>1
  <2>2. CASE f.kind # "comparison"
    <3>1. SubFilters[f] = f.filters /\ f \notin ComparisonNodes
      BY <2>2 DEF SubFilters, ComparisonNodes
    <3> QED BY <1>2, <3>1, FilterAssumption
  <2> QED BY <2>1, <2>2
<1> QED BY <1>1, <1>2, FilterAssumption DEF AreTrees

LEMMA GroupParts ==
  ASSUME NEW f \in Filters, f.kind # "comparison"
  PROVE  SubFilters[f] = f.filters /\ \A n \in DOMAIN f.filters : f.filters[n] \in Filters
BY FilterKinds DEF SubFilters

\* What holds of every comparison, and of a group when it holds of its parts,
\* holds of every filter.
LEMMA FilterInduction ==
  ASSUME NEW P,
         \A f \in Filters : f.kind = "comparison" => f \in P,
         \A f \in Filters :
           f.kind # "comparison" /\ (\A n \in DOMAIN f.filters : f.filters[n] \in P) => f \in P
  PROVE  Filters \subseteq P
<1>1. \A f \in Filters : (\A n \in DOMAIN SubFilters[f] : SubFilters[f][n] \in P) => f \in P
  BY GroupParts
<1> QED BY <1>1, FilterTrees, TreeInduction

-----------------------------------------------------------------------------
(* The first verdict that settles a group.                                 *)

LEMMA LeastExists ==
  ASSUME NEW I \in SUBSET Nat, I # {}
  PROVE  Min(I) \in I /\ \A i \in I : Min(I) <= i
<1>1. \E i \in I : \A j \in I : <<j, i>> \notin OpToRel(<, Nat)
  BY NatLessThanWellFounded, WFMin
<1>2. \E i \in I : \A j \in I : ~(j < i)
  BY <1>1 DEF OpToRel
<1>3. \E i \in I : \A j \in I : i <= j BY <1>2
<1> QED BY <1>3 DEF Min

LEMMA FirstSettles ==
  ASSUME NEW V, NEW s \in Seq(V), NEW x
  PROVE  \/ FirstOf(s, x) = x /\ \A n \in DOMAIN s : s[n] = x
         \/ \E n \in DOMAIN s : /\ FirstOf(s, x) = s[n] /\ s[n] # x
                                /\ \A m \in DOMAIN s : m < n => s[m] = x
<1> DEFINE I == {i \in 1..Len(s) : s[i] # x}
<1>1. Len(s) \in Nat /\ DOMAIN s = 1..Len(s) BY LenProperties
<1>2. FirstOf(s, x) = IF (IF I # {} THEN Min(I) ELSE 0) = 0 THEN x ELSE s[IF I # {} THEN Min(I) ELSE 0]
  BY DEF FirstOf, SelectInSeq
<1>3. CASE I = {} BY <1>1, <1>2, <1>3
<1>4. CASE I # {}
  <2>1. I \in SUBSET Nat BY <1>1
  <2>2. Min(I) \in I /\ \A i \in I : Min(I) <= i
    <3> HIDE DEF I
    <3> QED BY <1>4, <2>1, LeastExists
  <2>3. Min(I) # 0 BY <2>2
  <2>4. FirstOf(s, x) = s[Min(I)] BY <1>2, <1>4, <2>3
  <2>5. \A m \in DOMAIN s : m < Min(I) => s[m] = x BY <1>1, <2>1, <2>2
  <2>6. Min(I) \in DOMAIN s /\ s[Min(I)] # x BY <1>1, <2>2
  <2> QED BY <2>4, <2>5, <2>6
<1> QED BY <1>3, <1>4

-----------------------------------------------------------------------------
(* Single comparisons.                                                     *)

Verdicts == {"yes", "no", "error"}

LEMMA CompareKinds ==
  ASSUME NEW v \in Values, NEW w \in Values
  PROVE  /\ Compare(v, w) \in {"less", "equal", "greater", "none", "error"}
         /\ Compare(v, w) = "error" <=> ~Ordered(v, w)
BY DEF Compare, Ordered, IsNumber, Sign, Values

LEMMA ComparisonVerdict ==
  ASSUME NEW v \in Values, NEW c \in ComparisonNodes
  PROVE  /\ MatchesComparison(v, c) \in Verdicts
         /\ MatchesComparison(v, c) # "error" => (MatchesComparison(v, c) = "yes" <=> Holds(v, c))
         /\ MatchesComparison(v, c) = "error" =>
              /\ v # Missing
              /\ \/ c.op \in OrderedOps \cup {"between"} /\ ~Ordered(v, c.value)
                 \/ c.op = "between" /\ ~Ordered(v, c.upper)
         /\ Holds(v, c) \in BOOLEAN
<1>1. c.op \in Ops /\ c.value \in Values /\ c.upper \in Values BY DEF ComparisonNodes
<1>2. CASE v = Missing BY <1>2 DEF MatchesComparison, Holds, Verdicts
<1>3. CASE v # Missing /\ c.op = "isNull"
  <2>1. MatchesComparison(v, c) = Verdict(v = Null) BY <1>3 DEF MatchesComparison, OrderedOps
  <2>2. Holds(v, c) <=> v = Null BY <1>3 DEF Holds
  <2>3. Holds(v, c) \in BOOLEAN BY <1>3 DEF Holds
  <2> QED BY <1>3, <2>1, <2>2, <2>3 DEF Verdict, Verdicts
<1>4. CASE v # Missing /\ c.op = "isNotNull"
  <2>1. MatchesComparison(v, c) = Verdict(v # Null) BY <1>4 DEF MatchesComparison, OrderedOps
  <2>2. Holds(v, c) <=> v # Null BY <1>4 DEF Holds
  <2>3. Holds(v, c) \in BOOLEAN BY <1>4 DEF Holds
  <2> QED BY <1>4, <2>1, <2>2, <2>3 DEF Verdict, Verdicts
<1>5. CASE v # Missing /\ c.op = "equal"
  <2>1. MatchesComparison(v, c) = Verdict(ValuesEqual(v, c.value)) BY <1>5 DEF MatchesComparison, OrderedOps
  <2>2. Holds(v, c) <=> ValuesEqual(v, c.value) BY <1>5 DEF Holds
  <2>3. Holds(v, c) \in BOOLEAN BY <1>5 DEF Holds, ValuesEqual
  <2> QED BY <1>5, <2>1, <2>2, <2>3 DEF Verdict, Verdicts
<1>6. CASE v # Missing /\ c.op = "notEqual"
  <2>1. MatchesComparison(v, c) = Verdict(~ValuesEqual(v, c.value)) BY <1>6 DEF MatchesComparison, OrderedOps
  <2>2. Holds(v, c) <=> ~ValuesEqual(v, c.value) BY <1>6 DEF Holds
  <2>3. Holds(v, c) \in BOOLEAN BY <1>6 DEF Holds, ValuesEqual
  <2> QED BY <1>6, <2>1, <2>2, <2>3 DEF Verdict, Verdicts
<1>7. CASE v # Missing /\ c.op \in OrderedOps
  <2>1. MatchesComparison(v, c) = OrderVerdict(Compare(v, c.value), Wanted(c.op))
    BY <1>7 DEF MatchesComparison, OrderedOps
  <2>2. Holds(v, c) <=> Compare(v, c.value) \in Wanted(c.op)
    BY <1>7 DEF Holds, OrderedOps
  <2>3. "error" \notin Wanted(c.op) BY <1>7 DEF Wanted, OrderedOps
  <2>4. Holds(v, c) \in BOOLEAN BY <1>7, <2>3 DEF Holds, OrderedOps
  <2> QED BY <1>1, <1>7, <2>1, <2>2, <2>3, <2>4, CompareKinds DEF OrderVerdict, Verdict, Verdicts
<1>8. CASE v # Missing /\ c.op = "between"
  <2>1. MatchesComparison(v, c) =
          IF "error" \in {Compare(v, c.value), Compare(v, c.upper)} THEN "error"
          ELSE Verdict(Compare(v, c.value) \in AtLeast /\ Compare(v, c.upper) \in AtMost)
    BY <1>8 DEF MatchesComparison, OrderedOps
  <2>2. Holds(v, c) <=> Compare(v, c.value) \in AtLeast /\ Compare(v, c.upper) \in AtMost
    BY <1>8 DEF Holds
  <2>3. Holds(v, c) \in BOOLEAN BY <1>8 DEF Holds
  <2> QED BY <1>1, <1>8, <2>1, <2>2, <2>3, CompareKinds DEF Verdict, Verdicts
<1> QED BY <1>1, <1>2, <1>3, <1>4, <1>5, <1>6, <1>7, <1>8 DEF Ops

-----------------------------------------------------------------------------
(* What the recursive definitions say of a comparison and of a group.      *)

\* H gives the value of a filter from the values of its parts.
IsFilterFold(F, H, V) ==
  \A f \in Filters :
    /\ f.kind = "comparison" => F[f] = H[<<f, <<>> >>]
    /\ f.kind # "comparison" =>
         /\ [n \in DOMAIN f.filters |-> F[f.filters[n]]] \in Seq(V)
         /\ F[f] = H[<<f, [n \in DOMAIN f.filters |-> F[f.filters[n]]]>>]

LEMMA FilterRecursion ==
  ASSUME NEW V, NEW v \in V, NEW H \in [Filters \X Seq(V) -> V]
  PROVE  \E F \in [Filters -> V] : IsFilterFold(F, H, V)
<1>1. PICK F \in [Filters -> V] : IsTreeFold(F, H, SubFilters, Filters)
  BY FilterTrees, TreeRecursion
<1> SUFFICES ASSUME NEW f \in Filters
             PROVE  /\ f.kind = "comparison" => F[f] = H[<<f, <<>> >>]
                    /\ f.kind # "comparison" =>
                         /\ [n \in DOMAIN f.filters |-> F[f.filters[n]]] \in Seq(V)
                         /\ F[f] = H[<<f, [n \in DOMAIN f.filters |-> F[f.filters[n]]]>>]
  BY DEF IsFilterFold
<1>2. CASE f.kind = "comparison"
  <2>1. SubFilters[f] = <<>> BY <1>2 DEF SubFilters
  <2>2. OfParts(F, SubFilters, f) = <<>> BY <2>1 DEF OfParts
  <2> QED BY <1>1, <1>2, <2>2 DEF IsTreeFold
<1>3. CASE f.kind # "comparison"
  <2>1. OfParts(F, SubFilters, f) = [n \in DOMAIN f.filters |-> F[f.filters[n]]]
    BY <1>3, GroupParts DEF OfParts
  <2>2. [n \in DOMAIN f.filters |-> F[f.filters[n]]] \in Seq(V) BY <1>3, FilterKinds
  <2> QED BY <1>1, <1>3, <2>1, <2>2 DEF IsTreeFold
<1> QED BY <1>2, <1>3

Neutral(f) == IF f.kind = "and" THEN "yes" ELSE "no"

LEMMA FirstOfVerdicts ==
  ASSUME NEW s \in Seq(Verdicts), NEW x \in Verdicts
  PROVE  FirstOf(s, x) \in Verdicts
<1>1. \A n \in DOMAIN s : s[n] \in Verdicts BY LenProperties, ElementOfSeq
<1> QED BY <1>1, FirstSettles

LEMMA ComparedField ==
  ASSUME NEW r \in Records, NEW f \in Filters, f.kind = "comparison"
  PROVE  f \in ComparisonNodes /\ f.field \in Fields /\ r[f.field] \in Values
BY FilterKinds, RecordAssumption DEF ComparisonNodes

LEMMA MatchesUnfolds ==
  ASSUME NEW r \in Records
  PROVE  \A f \in Filters :
           /\ MatchesFilter(r, f) \in Verdicts
           /\ f.kind = "comparison" => MatchesFilter(r, f) = MatchesComparison(r[f.field], f)
           /\ f.kind # "comparison" =>
                MatchesFilter(r, f) =
                  FirstOf([n \in DOMAIN f.filters |-> MatchesFilter(r, f.filters[n])], Neutral(f))
<1> DEFINE Body(v) ==
             [g \in Filters |->
                IF g.kind = "comparison" THEN MatchesComparison(r[g.field], g)
                ELSE FirstOf([n \in DOMAIN g.filters |-> v[g.filters[n]]], Neutral(g))]
           H == [p \in Filters \X Seq(Verdicts) |->
                   IF p[1].kind = "comparison" THEN MatchesComparison(r[p[1].field], p[1])
                   ELSE FirstOf(p[2], Neutral(p[1]))]
           verdict == CHOOSE v : v = Body(v)
<1>1. H \in [Filters \X Seq(Verdicts) -> Verdicts]
  <2> SUFFICES ASSUME NEW f \in Filters, NEW s \in Seq(Verdicts) PROVE H[<<f, s>>] \in Verdicts
    OBVIOUS
  <2>1. CASE f.kind = "comparison" BY <2>1, ComparedField, ComparisonVerdict
  <2>2. CASE f.kind # "comparison"
    <3>1. Neutral(f) \in Verdicts BY DEF Neutral, Verdicts
    <3> QED BY <2>2, <3>1, FirstOfVerdicts
  <2> QED BY <2>1, <2>2
<1>2. PICK F \in [Filters -> Verdicts] : IsFilterFold(F, H, Verdicts)
  <2>1. "yes" \in Verdicts BY DEF Verdicts
  <2> HIDE DEF H
  <2> QED BY <1>1, <2>1, FilterRecursion
<1>3. F = Body(F)
  <2>1. <<>> \in Seq(Verdicts) BY EmptySeq
  <2> QED BY <1>2, <2>1 DEF IsFilterFold
<1>4. verdict = Body(verdict)
  <2> HIDE DEF Body
  <2> QED BY <1>3
<1>5. \A f : MatchesFilter(r, f) = verdict[f] BY DEF MatchesFilter, Neutral
<1> HIDE DEF verdict
<1>6. verdict \in [Filters -> Verdicts]
  <2> DEFINE P == {f \in Filters : verdict[f] \in Verdicts}
  <2>1. \A f \in Filters : f.kind = "comparison" => verdict[f] \in Verdicts
    BY <1>4, ComparedField, ComparisonVerdict
  <2>2. ASSUME NEW f \in Filters, f.kind # "comparison", \A n \in DOMAIN f.filters : f.filters[n] \in P
        PROVE  verdict[f] \in Verdicts
    <3>1. [n \in DOMAIN f.filters |-> verdict[f.filters[n]]] \in Seq(Verdicts)
      BY <2>2, FilterKinds
    <3>2. Neutral(f) \in Verdicts BY DEF Neutral, Verdicts
    <3> QED BY <1>4, <2>2, <3>1, <3>2, FirstOfVerdicts
  <2>3. Filters \subseteq P
    <3> HIDE DEF P
    <3>1. P \subseteq Filters /\ \A f \in Filters : f \in P <=> verdict[f] \in Verdicts BY DEF P
    <3> QED BY <2>1, <2>2, <3>1, FilterInduction
  <2>4. verdict = [f \in Filters |-> verdict[f]] BY <1>4
  <2> QED BY <2>3, <2>4
<1> SUFFICES ASSUME NEW f \in Filters
             PROVE  /\ verdict[f] \in Verdicts
                    /\ f.kind = "comparison" => verdict[f] = MatchesComparison(r[f.field], f)
                    /\ f.kind # "comparison" =>
                         verdict[f] = FirstOf([n \in DOMAIN f.filters |-> verdict[f.filters[n]]], Neutral(f))
  BY <1>5
<1> QED BY <1>4, <1>6

LEMMA SatisfiesUnfolds ==
  ASSUME NEW r \in Records
  PROVE  \A f \in Filters :
           /\ Satisfies(r, f) \in BOOLEAN
           /\ f.kind = "comparison" => (Satisfies(r, f) <=> Holds(r[f.field], f))
           /\ f.kind = "and" => (Satisfies(r, f) <=> \A n \in DOMAIN f.filters : Satisfies(r, f.filters[n]))
           /\ f.kind = "or"  => (Satisfies(r, f) <=> \E n \in DOMAIN f.filters : Satisfies(r, f.filters[n]))
<1> DEFINE Body(v) ==
             [g \in Filters |->
                CASE g.kind = "comparison" -> Holds(r[g.field], g)
                  [] g.kind = "and" -> \A n \in DOMAIN g.filters : v[g.filters[n]]
                  [] OTHER          -> \E n \in DOMAIN g.filters : v[g.filters[n]]]
           H == [p \in Filters \X Seq(BOOLEAN) |->
                   CASE p[1].kind = "comparison" -> Holds(r[p[1].field], p[1])
                     [] p[1].kind = "and" -> \A n \in DOMAIN p[2] : p[2][n]
                     [] OTHER -> \E n \in DOMAIN p[2] : p[2][n]]
           true == CHOOSE v : v = Body(v)
<1>1. H \in [Filters \X Seq(BOOLEAN) -> BOOLEAN]
  <2> SUFFICES ASSUME NEW f \in Filters, NEW s \in Seq(BOOLEAN) PROVE H[<<f, s>>] \in BOOLEAN
    OBVIOUS
  <2>1. CASE f.kind = "comparison" BY <2>1, ComparedField, ComparisonVerdict
  <2>2. CASE f.kind = "and" BY <2>2
  <2>3. CASE f.kind = "or" BY <2>3
  <2> QED BY <2>1, <2>2, <2>3, FilterKinds
<1>2. PICK F \in [Filters -> BOOLEAN] : IsFilterFold(F, H, BOOLEAN)
  <2>1. TRUE \in BOOLEAN OBVIOUS
  <2> HIDE DEF H
  <2> QED BY <1>1, <2>1, FilterRecursion
<1>3. F = Body(F)
  <2> SUFFICES ASSUME NEW f \in Filters PROVE F[f] = Body(F)[f]
    BY DEF Body
  <2>1. CASE f.kind = "comparison"
    <3>1. <<>> \in Seq(BOOLEAN) BY EmptySeq
    <3> QED BY <1>2, <2>1, <3>1 DEF IsFilterFold
  <2>2. CASE f.kind = "and" BY <1>2, <2>2 DEF IsFilterFold
  <2>3. CASE f.kind = "or" BY <1>2, <2>3 DEF IsFilterFold
  <2> QED BY <2>1, <2>2, <2>3, FilterKinds
<1>4. true = Body(true)
  <2> HIDE DEF Body
  <2> QED BY <1>3
<1>5. \A f : Satisfies(r, f) = true[f] BY DEF Satisfies
<1> HIDE DEF true
<1> SUFFICES ASSUME NEW f \in Filters
             PROVE  /\ true[f] \in BOOLEAN
                    /\ f.kind = "comparison" => (true[f] <=> Holds(r[f.field], f))
                    /\ f.kind = "and" => (true[f] <=> \A n \in DOMAIN f.filters : true[f.filters[n]])
                    /\ f.kind = "or"  => (true[f] <=> \E n \in DOMAIN f.filters : true[f.filters[n]])
  BY <1>5
<1>6. CASE f.kind = "comparison" BY <1>4, <1>6, ComparedField, ComparisonVerdict
<1>7. CASE f.kind = "and" BY <1>4, <1>7
<1>8. CASE f.kind = "or" BY <1>4, <1>8
<1> QED BY <1>6, <1>7, <1>8, FilterKinds

LEMMA CandidatesUnfold ==
  \A f \in Filters :
    /\ IndexCandidates[f] \in SUBSET Filters
    /\ f.kind = "comparison" => IndexCandidates[f] = {c \in {f} : Eligible(c)}
    /\ f.kind = "and" => IndexCandidates[f] = UNION {IndexCandidates[f.filters[n]] : n \in DOMAIN f.filters}
    /\ f.kind = "or"  => IndexCandidates[f] = {}
<1> DEFINE Body(v) ==
             [f \in Filters |->
                IF f.kind = "comparison" THEN {c \in {f} : Eligible(c)}
                ELSE IF f.kind = "and" THEN UNION {v[f.filters[n]] : n \in DOMAIN f.filters}
                ELSE {}]
           H == [p \in Filters \X Seq(SUBSET Filters) |->
                   IF p[1].kind = "comparison" THEN {c \in {p[1]} : Eligible(c)}
                   ELSE IF p[1].kind = "and" THEN UNION {p[2][n] : n \in DOMAIN p[2]}
                   ELSE {}]
<1>1. H \in [Filters \X Seq(SUBSET Filters) -> SUBSET Filters]
  <2> SUFFICES ASSUME NEW f \in Filters, NEW s \in Seq(SUBSET Filters)
               PROVE  H[<<f, s>>] \in SUBSET Filters
    <3>1. \A p \in Filters \X Seq(SUBSET Filters) : p[1] \in Filters /\ p[2] \in Seq(SUBSET Filters) /\ p = <<p[1], p[2]>>
      OBVIOUS
    <3> HIDE DEF H
    <3>2. H = [p \in Filters \X Seq(SUBSET Filters) |-> H[p]] BY DEF H
    <3> QED BY <3>1, <3>2
  <2>1. CASE f.kind = "comparison" BY <2>1
  <2>2. CASE f.kind = "and"
    <3>1. H[<<f, s>>] = UNION {s[n] : n \in DOMAIN s} BY <2>2
    <3>2. \A n \in DOMAIN s : s[n] \in SUBSET Filters OBVIOUS
    <3> HIDE DEF H
    <3> QED BY <3>1, <3>2
  <2>3. CASE f.kind = "or" BY <2>3
  <2> QED BY <2>1, <2>2, <2>3, FilterKinds
<1>2. PICK F \in [Filters -> SUBSET Filters] : IsFilterFold(F, H, SUBSET Filters)
  <2> HIDE DEF H
  <2> QED BY <1>1, FilterRecursion
<1>3. F = Body(F)
  <2> SUFFICES ASSUME NEW f \in Filters PROVE F[f] = Body(F)[f]
    BY DEF Body
  <2>1. CASE f.kind = "comparison"
    <3>1. <<>> \in Seq(SUBSET Filters) BY EmptySeq
    <3> QED BY <1>2, <2>1, <3>1 DEF IsFilterFold
  <2>2. CASE f.kind = "and"
    <3> DEFINE parts == [n \in DOMAIN f.filters |-> F[f.filters[n]]]
    <3>1. parts \in Seq(SUBSET Filters) /\ F[f] = H[<<f, parts>>] BY <1>2, <2>2 DEF IsFilterFold
    <3>2. H[<<f, parts>>] = UNION {parts[n] : n \in DOMAIN parts} BY <2>2, <3>1
    <3>3. {parts[n] : n \in DOMAIN parts} = {F[f.filters[n]] : n \in DOMAIN f.filters} OBVIOUS
    <3> HIDE DEF parts, H
    <3> QED BY <2>2, <3>1, <3>2, <3>3
  <2>3. CASE f.kind = "or" BY <1>2, <2>3 DEF IsFilterFold
  <2> QED BY <2>1, <2>2, <2>3, FilterKinds
<1>4. IndexCandidates = Body(IndexCandidates)
  <2> DEFINE ic == CHOOSE v : v = Body(v)
  <2>1. ic = Body(ic)
    <3> HIDE DEF Body
    <3> QED BY <1>3
  <2>2. IndexCandidates = ic BY DEF IndexCandidates
  <2> HIDE DEF ic, Body
  <2> QED BY <2>1, <2>2
<1>5. \A f \in Filters :
         /\ f.kind = "comparison" => IndexCandidates[f] = {c \in {f} : Eligible(c)}
         /\ f.kind = "and" => IndexCandidates[f] = UNION {IndexCandidates[f.filters[n]] : n \in DOMAIN f.filters}
         /\ f.kind = "or"  => IndexCandidates[f] = {}
  BY <1>4
<1>6. Filters \subseteq {f \in Filters : IndexCandidates[f] \in SUBSET Filters}
  <2> DEFINE P == {f \in Filters : IndexCandidates[f] \in SUBSET Filters}
  <2>1. \A f \in Filters : f.kind = "comparison" => f \in P BY <1>5
  <2>2. \A f \in Filters :
           f.kind # "comparison" /\ (\A n \in DOMAIN f.filters : f.filters[n] \in P) => f \in P
    <3> SUFFICES ASSUME NEW f \in Filters, f.kind = "and", \A n \in DOMAIN f.filters : f.filters[n] \in P
                 PROVE  UNION {IndexCandidates[f.filters[n]] : n \in DOMAIN f.filters} \subseteq Filters
      BY <1>5, FilterKinds
    <3> QED OBVIOUS
  <2> HIDE DEF P
  <2>3. Filters \subseteq P BY <2>1, <2>2, FilterInduction
  <2> QED BY <2>3 DEF P
<1> QED BY <1>5, <1>6

LEMMA ComparisonsUnfold ==
  \A f \in Filters :
    /\ f.kind = "comparison" => Comparisons[f] = {f}
    /\ f.kind # "comparison" =>
         \A n \in DOMAIN f.filters : Comparisons[f.filters[n]] \subseteq Comparisons[f]
<1> DEFINE Body(v) ==
             [f \in Filters |->
                IF f.kind = "comparison" THEN {f}
                ELSE UNION {v[f.filters[n]] : n \in DOMAIN f.filters}]
           H == [p \in Filters \X Seq(SUBSET Filters) |->
                   IF p[1].kind = "comparison" THEN {p[1]}
                   ELSE UNION {p[2][n] : n \in DOMAIN p[2]}]
<1>1. H \in [Filters \X Seq(SUBSET Filters) -> SUBSET Filters]
  OBVIOUS
<1>2. PICK F \in [Filters -> SUBSET Filters] : IsFilterFold(F, H, SUBSET Filters)
  <2> HIDE DEF H
  <2> QED BY <1>1, FilterRecursion
<1>3. F = Body(F)
  <2> SUFFICES ASSUME NEW f \in Filters PROVE F[f] = Body(F)[f]
    BY DEF Body
  <2>1. CASE f.kind = "comparison"
    <3>1. <<>> \in Seq(SUBSET Filters) BY EmptySeq
    <3> QED BY <1>2, <2>1, <3>1 DEF IsFilterFold
  <2>2. CASE f.kind # "comparison"
    <3> DEFINE parts == [n \in DOMAIN f.filters |-> F[f.filters[n]]]
    <3>1. parts \in Seq(SUBSET Filters) /\ F[f] = H[<<f, parts>>] BY <1>2, <2>2 DEF IsFilterFold
    <3>2. H[<<f, parts>>] = UNION {parts[n] : n \in DOMAIN parts} BY <2>2, <3>1
    <3>3. {parts[n] : n \in DOMAIN parts} = {F[f.filters[n]] : n \in DOMAIN f.filters} OBVIOUS
    <3> HIDE DEF parts, H
    <3> QED BY <2>2, <3>1, <3>2, <3>3
  <2> QED BY <2>1, <2>2
<1> DEFINE cs == CHOOSE v : v = Body(v)
<1>4. cs = Body(cs)
  <2> HIDE DEF Body
  <2> QED BY <1>3
<1>5. Comparisons = cs BY DEF Comparisons
<1> HIDE DEF cs
<1>6. \A f \in Filters :
        Comparisons[f] = IF f.kind = "comparison" THEN {f}
                         ELSE UNION {Comparisons[f.filters[n]] : n \in DOMAIN f.filters}
  BY <1>4, <1>5
<1>7. ASSUME NEW f \in Filters, f.kind # "comparison", NEW n \in DOMAIN f.filters
      PROVE  Comparisons[f.filters[n]] \subseteq Comparisons[f]
  <2>1. Comparisons[f] = UNION {Comparisons[f.filters[m]] : m \in DOMAIN f.filters}
    BY <1>6, <1>7
  <2> QED BY <2>1
<1> QED BY <1>6, <1>7

-----------------------------------------------------------------------------
(* A verdict without an error is the meaning of the filter; an error comes *)
(* from values without an order.                                           *)

LEMMA VerdictMeans ==
  ASSUME NEW r \in Records
  PROVE  \A f \in Filters :
           MatchesFilter(r, f) # "error" => (MatchesFilter(r, f) = "yes" <=> Satisfies(r, f))
<1> DEFINE Agrees(f) ==
             MatchesFilter(r, f) # "error" => (MatchesFilter(r, f) = "yes" <=> Satisfies(r, f))
           P == {f \in Filters : Agrees(f)}
<1>1. ASSUME NEW f \in Filters, f.kind = "comparison" PROVE Agrees(f)
  <2>1. MatchesFilter(r, f) = MatchesComparison(r[f.field], f) BY <1>1, MatchesUnfolds
  <2>2. Satisfies(r, f) <=> Holds(r[f.field], f) BY <1>1, SatisfiesUnfolds
  <2>3. f \in ComparisonNodes /\ r[f.field] \in Values BY <1>1, ComparedField
  <2> QED BY <2>1, <2>2, <2>3, ComparisonVerdict
<1>2. ASSUME NEW f \in Filters, f.kind # "comparison", \A n \in DOMAIN f.filters : f.filters[n] \in P
      PROVE  Agrees(f)
  <2> DEFINE s == [n \in DOMAIN f.filters |-> MatchesFilter(r, f.filters[n])]
  <2>1. \A n \in DOMAIN f.filters : f.filters[n] \in Filters /\ MatchesFilter(r, f.filters[n]) \in Verdicts
    BY <1>2, GroupParts, MatchesUnfolds
  <2>2. s \in Seq(Verdicts) /\ DOMAIN s = DOMAIN f.filters BY <1>2, <2>1, FilterKinds
  <2>3. MatchesFilter(r, f) = FirstOf(s, Neutral(f)) BY <1>2, MatchesUnfolds
  <2>4. \A n \in DOMAIN f.filters : Agrees(f.filters[n]) BY <1>2
  <2>5. \/ FirstOf(s, Neutral(f)) = Neutral(f) /\ \A n \in DOMAIN s : s[n] = Neutral(f)
        \/ \E n \in DOMAIN s : /\ FirstOf(s, Neutral(f)) = s[n] /\ s[n] # Neutral(f)
                               /\ \A m \in DOMAIN s : m < n => s[m] = Neutral(f)
    <3> HIDE DEF s
    <3> QED BY <2>2, FirstSettles
  <2>6. \A n \in DOMAIN s : s[n] = MatchesFilter(r, f.filters[n]) /\ s[n] \in Verdicts BY <2>1
  <2> HIDE DEF s
  <2>7. CASE f.kind = "and"
    <3>1. Neutral(f) = "yes" BY <2>7 DEF Neutral
    <3>2. Satisfies(r, f) <=> \A n \in DOMAIN f.filters : Satisfies(r, f.filters[n])
      BY <2>7, SatisfiesUnfolds
    <3> QED BY <2>1, <2>2, <2>3, <2>4, <2>5, <2>6, <3>1, <3>2
  <2>8. CASE f.kind = "or"
    <3>1. Neutral(f) = "no" BY <2>8 DEF Neutral
    <3>2. Satisfies(r, f) <=> \E n \in DOMAIN f.filters : Satisfies(r, f.filters[n])
      BY <2>8, SatisfiesUnfolds
    <3> QED BY <2>1, <2>2, <2>3, <2>4, <2>5, <2>6, <3>1, <3>2 DEF Verdicts
  <2> QED BY <1>2, <2>7, <2>8, FilterKinds
<1>3. P \subseteq Filters /\ \A f \in Filters : f \in P <=> Agrees(f) OBVIOUS
<1> HIDE DEF P, Agrees
<1>4. Filters \subseteq P BY <1>1, <1>2, <1>3, FilterInduction
<1> QED BY <1>3, <1>4 DEF Agrees

\* What FailsOnlyOnMixedTypes says of one value and one comparison.
CannotOrder(v, c) ==
  /\ v # Missing
  /\ \/ c.op \in OrderedOps \cup {"between"} /\ ~Ordered(v, c.value)
     \/ c.op = "between" /\ ~Ordered(v, c.upper)

LEMMA ErrorMeans ==
  ASSUME NEW r \in Records
  PROVE  \A f \in Filters :
           MatchesFilter(r, f) = "error" => \E c \in Comparisons[f] : CannotOrder(r[c.field], c)
<1> DEFINE Explained(f) ==
             MatchesFilter(r, f) = "error" => \E c \in Comparisons[f] : CannotOrder(r[c.field], c)
           P == {f \in Filters : Explained(f)}
<1>1. ASSUME NEW f \in Filters, f.kind = "comparison" PROVE Explained(f)
  <2>1. MatchesFilter(r, f) = MatchesComparison(r[f.field], f) BY <1>1, MatchesUnfolds
  <2>2. MatchesComparison(r[f.field], f) = "error" => CannotOrder(r[f.field], f)
    BY <1>1, ComparedField, ComparisonVerdict DEF CannotOrder
  <2>3. f \in Comparisons[f] BY <1>1, ComparisonsUnfold
  <2> QED BY <2>1, <2>2, <2>3
<1>2. ASSUME NEW f \in Filters, f.kind # "comparison", \A n \in DOMAIN f.filters : f.filters[n] \in P
      PROVE  Explained(f)
  <2> SUFFICES ASSUME MatchesFilter(r, f) = "error"
               PROVE  \E c \in Comparisons[f] : CannotOrder(r[c.field], c)
    OBVIOUS
  <2> DEFINE s == [n \in DOMAIN f.filters |-> MatchesFilter(r, f.filters[n])]
  <2>1. \A n \in DOMAIN f.filters : f.filters[n] \in Filters /\ MatchesFilter(r, f.filters[n]) \in Verdicts
    BY <1>2, GroupParts, MatchesUnfolds
  <2>2. s \in Seq(Verdicts) /\ DOMAIN s = DOMAIN f.filters BY <1>2, <2>1, FilterKinds
  <2>3. "error" = FirstOf(s, Neutral(f)) BY <1>2, MatchesUnfolds
  <2>4. PICK n \in DOMAIN s : s[n] = "error"
    <3>1. Neutral(f) # "error" BY DEF Neutral
    <3> HIDE DEF s
    <3> QED BY <2>2, <2>3, <3>1, FirstSettles
  <2>5. f.filters[n] \in P /\ MatchesFilter(r, f.filters[n]) = "error" BY <1>2, <2>4
  <2>6. PICK c \in Comparisons[f.filters[n]] : CannotOrder(r[c.field], c) BY <2>5
  <2>7. c \in Comparisons[f] BY <1>2, <2>4, <2>6, ComparisonsUnfold
  <2> QED BY <2>6, <2>7
<1>3. P \subseteq Filters /\ \A f \in Filters : f \in P <=> Explained(f) OBVIOUS
<1> HIDE DEF P, Explained
<1>4. Filters \subseteq P BY <1>1, <1>2, <1>3, FilterInduction
<1> QED BY <1>3, <1>4 DEF Explained

-----------------------------------------------------------------------------
(* The planner's candidates are comparisons of the filter, and every       *)
(* record the filter accepts is found through each of them.                *)

LEMMA CandidatesAreComparisons ==
  \A f \in Filters : \A c \in IndexCandidates[f] :
    c \in ComparisonNodes /\ Eligible(c) /\ c \in Comparisons[f]
<1> DEFINE Proper(f) ==
             \A c \in IndexCandidates[f] : c \in ComparisonNodes /\ Eligible(c) /\ c \in Comparisons[f]
           P == {f \in Filters : Proper(f)}
<1>1. ASSUME NEW f \in Filters, f.kind = "comparison" PROVE Proper(f)
  <2>1. IndexCandidates[f] = {c \in {f} : Eligible(c)} BY <1>1, CandidatesUnfold
  <2>2. Comparisons[f] = {f} BY <1>1, ComparisonsUnfold
  <2>3. f \in ComparisonNodes BY <1>1, FilterKinds
  <2> QED BY <2>1, <2>2, <2>3
<1>2. ASSUME NEW f \in Filters, f.kind # "comparison", \A n \in DOMAIN f.filters : f.filters[n] \in P
      PROVE  Proper(f)
  <2> SUFFICES ASSUME NEW c \in IndexCandidates[f]
               PROVE  c \in ComparisonNodes /\ Eligible(c) /\ c \in Comparisons[f]
    OBVIOUS
  <2>1. f.kind = "and" BY <1>2, CandidatesUnfold, FilterKinds
  <2>2. PICK n \in DOMAIN f.filters : c \in IndexCandidates[f.filters[n]]
    BY <2>1, CandidatesUnfold
  <2>3. c \in ComparisonNodes /\ Eligible(c) /\ c \in Comparisons[f.filters[n]] BY <1>2, <2>2
  <2>4. c \in Comparisons[f] BY <1>2, <2>3, ComparisonsUnfold
  <2> QED BY <2>3, <2>4
<1>3. P \subseteq Filters /\ \A f \in Filters : f \in P <=> Proper(f) OBVIOUS
<1> HIDE DEF P, Proper
<1>4. Filters \subseteq P BY <1>1, <1>2, <1>3, FilterInduction
<1> QED BY <1>3, <1>4 DEF Proper

LEMMA CandidatesHold ==
  ASSUME NEW r \in Records
  PROVE  \A f \in Filters : Satisfies(r, f) => \A c \in IndexCandidates[f] : Holds(r[c.field], c)
<1> DEFINE Held(f) == Satisfies(r, f) => \A c \in IndexCandidates[f] : Holds(r[c.field], c)
           P == {f \in Filters : Held(f)}
<1>1. ASSUME NEW f \in Filters, f.kind = "comparison" PROVE Held(f)
  BY <1>1, CandidatesUnfold, SatisfiesUnfolds
<1>2. ASSUME NEW f \in Filters, f.kind # "comparison", \A n \in DOMAIN f.filters : f.filters[n] \in P
      PROVE  Held(f)
  <2> SUFFICES ASSUME Satisfies(r, f), NEW c \in IndexCandidates[f] PROVE Holds(r[c.field], c)
    OBVIOUS
  <2>1. f.kind = "and" BY <1>2, CandidatesUnfold, FilterKinds
  <2>2. PICK n \in DOMAIN f.filters : c \in IndexCandidates[f.filters[n]]
    BY <2>1, CandidatesUnfold
  <2>3. Satisfies(r, f.filters[n]) BY <2>1, SatisfiesUnfolds
  <2> QED BY <1>2, <2>2, <2>3
<1>3. P \subseteq Filters /\ \A f \in Filters : f \in P <=> Held(f) OBVIOUS
<1> HIDE DEF P, Held
<1>4. Filters \subseteq P BY <1>1, <1>2, <1>3, FilterInduction
<1> QED BY <1>3, <1>4 DEF Held

\* A stored value for which an eligible comparison holds is found in the index.
LEMMA EntryFound ==
  ASSUME NEW v \in Values, NEW c \in ComparisonNodes, Eligible(c), Usable(c), Holds(v, c)
  PROVE  EntryMatches(v, c) = "yes"
<1>1. c.op \in Ops /\ c.value \in Values /\ c.upper \in Values BY DEF ComparisonNodes
<1>2. v # Missing BY DEF Holds
<1>3. CASE c.op = "equal"
  <2>1. ValuesEqual(v, c.value) BY <1>3 DEF Holds
  <2>2. CandidateMatches(v, c) = Verdict(ValuesEqual(v, c.value))
    BY <1>3 DEF CandidateMatches, OrderedOps
  <2>3. Canonical(v) = Canonical(c.value)
    <3>1. CASE IsNumber(v) /\ IsNumber(c.value)
      <4>1. Compare(v, c.value) = "equal" BY <2>1, <3>1 DEF ValuesEqual
      <4>2. v.type = "num" /\ c.value.type = "num"
        BY <3>1, <4>1 DEF Compare, IsNumber
      <4>3. Sign(v.rank - c.value.rank) = "equal" BY <3>1, <4>1, <4>2 DEF Compare
      <4>4. v.rank \in Int /\ c.value.rank \in Int BY <1>1 DEF Values
      <4>5. v.rank = c.value.rank BY <4>3, <4>4 DEF Sign
      <4> QED BY <4>2, <4>5 DEF Canonical
    <3>2. CASE ~(IsNumber(v) /\ IsNumber(c.value))
      BY <2>1, <3>2 DEF ValuesEqual
    <3> QED BY <3>1, <3>2
  <2> QED BY <2>1, <2>2, <2>3 DEF EntryMatches, Verdict
<1>4. CASE c.op # "equal"
  <2>1. ~encrypted BY <1>4 DEF Usable
  <2>2. c.op \in OrderedOps \/ c.op = "between" BY <1>4 DEF Eligible
  <2>3. CASE c.op \in OrderedOps
    <3>1. Compare(v, c.value) \in Wanted(c.op) BY <2>3 DEF Holds, OrderedOps
    <3>2. CandidateMatches(v, c) = OrderVerdict(Compare(v, c.value), Wanted(c.op))
      BY <2>3 DEF CandidateMatches, OrderedOps
    <3>3. "error" \notin Wanted(c.op) BY <2>3 DEF Wanted, OrderedOps
    <3> QED BY <2>1, <3>1, <3>2, <3>3 DEF EntryMatches, OrderVerdict, Verdict
  <2>4. CASE c.op = "between"
    <3>1. Compare(v, c.value) \in AtLeast /\ Compare(v, c.upper) \in AtMost BY <2>4 DEF Holds
    <3>2. "error" \notin AtLeast /\ "error" \notin AtMost BY DEF AtLeast, AtMost, Wanted
    <3>3. CandidateMatches(v, c) = OrderVerdict(Compare(v, c.upper), AtMost)
      BY <2>4, <3>1, <3>2 DEF CandidateMatches, OrderedOps, OrderVerdict, Verdict
    <3> QED BY <2>1, <3>1, <3>2, <3>3 DEF EntryMatches, OrderVerdict, Verdict
  <2> QED BY <2>2, <2>3, <2>4
<1> QED BY <1>3, <1>4

\* A usable lookup fails only over values it cannot order.
LEMMA EntryFails ==
  ASSUME NEW v \in Values, v # Missing, NEW c \in ComparisonNodes, Eligible(c),
         EntryMatches(v, c) = "error"
  PROVE  CannotOrder(v, c)
<1>1. c.op \in Ops /\ c.value \in Values /\ c.upper \in Values BY DEF ComparisonNodes
<1>2. ~encrypted /\ CandidateMatches(v, c) = "error" BY DEF EntryMatches, Verdict
<1>3. c.op # "equal"
  BY <1>2 DEF CandidateMatches, OrderedOps, Verdict
<1>4. c.op \in OrderedOps \/ c.op = "between" BY <1>3 DEF Eligible
<1>5. CASE c.op \in OrderedOps
  <2>1. CandidateMatches(v, c) = OrderVerdict(Compare(v, c.value), Wanted(c.op))
    BY <1>5 DEF CandidateMatches, OrderedOps
  <2>2. Compare(v, c.value) = "error" BY <1>2, <2>1 DEF OrderVerdict, Verdict
  <2> QED BY <1>1, <1>5, <2>2, CompareKinds DEF CannotOrder
<1>6. CASE c.op = "between"
  <2>1. Compare(v, c.value) = "error" \/ Compare(v, c.upper) = "error"
    BY <1>2, <1>6 DEF CandidateMatches, OrderedOps, OrderVerdict, Verdict
  <2> QED BY <1>1, <1>6, <2>1, CompareKinds DEF CannotOrder
<1> QED BY <1>4, <1>5, <1>6

-----------------------------------------------------------------------------
(* The order asked for is a strict total order: lexicographic in the       *)
(* places of a record, with its key as the last column.                    *)

Earlier(a, b, m) ==
  \E c \in 1..m : (\A e \in 1..(c - 1) : a[e] = b[e]) /\ Lower(a[c], b[c])

LEMMA LowerOrder ==
  /\ \A p \in Int \X Int : ~Lower(p, p)
  /\ \A p, q, r \in Int \X Int : Lower(p, q) /\ Lower(q, r) => Lower(p, r)
  /\ \A p, q \in Int \X Int : p = q \/ Lower(p, q) \/ Lower(q, p)
BY DEF Lower

LEMMA EarlierOrder ==
  ASSUME NEW m \in Nat, NEW a \in [1..m -> Int \X Int], NEW b \in [1..m -> Int \X Int],
         NEW d \in [1..m -> Int \X Int]
  PROVE  /\ ~Earlier(a, a, m)
         /\ Earlier(a, b, m) /\ Earlier(b, d, m) => Earlier(a, d, m)
         /\ a = b \/ Earlier(a, b, m) \/ Earlier(b, a, m)
<1>1. ~Earlier(a, a, m) BY LowerOrder DEF Earlier
<1>2. ASSUME Earlier(a, b, m), Earlier(b, d, m) PROVE Earlier(a, d, m)
  <2>1. PICK c \in 1..m : (\A e \in 1..(c - 1) : a[e] = b[e]) /\ Lower(a[c], b[c])
    BY <1>2 DEF Earlier
  <2>2. PICK g \in 1..m : (\A e \in 1..(g - 1) : b[e] = d[e]) /\ Lower(b[g], d[g])
    BY <1>2 DEF Earlier
  <2>3. CASE c < g
    <3>1. (\A e \in 1..(c - 1) : a[e] = d[e]) /\ b[c] = d[c] BY <2>1, <2>2, <2>3
    <3> QED BY <2>1, <3>1 DEF Earlier
  <2>4. CASE g < c
    <3>1. (\A e \in 1..(g - 1) : a[e] = d[e]) /\ a[g] = b[g] BY <2>1, <2>2, <2>4
    <3> QED BY <2>2, <3>1 DEF Earlier
  <2>5. CASE c = g
    <3>1. \A e \in 1..(c - 1) : a[e] = d[e] BY <2>1, <2>2, <2>5
    <3>2. Lower(a[c], d[c]) BY <2>1, <2>2, <2>5, LowerOrder
    <3> QED BY <3>1, <3>2 DEF Earlier
  <2> QED BY <2>3, <2>4, <2>5
<1>3. ASSUME a # b PROVE Earlier(a, b, m) \/ Earlier(b, a, m)
  <2> DEFINE D == {c \in 1..m : a[c] # b[c]}
  <2>1. D \in SUBSET Nat /\ D # {}
    <3>1. (\A c \in 1..m : a[c] = b[c]) => a = b OBVIOUS
    <3>2. \E c \in 1..m : a[c] # b[c]
      <4> HIDE DEF D
      <4> QED BY <1>3, <3>1
    <3>3. D # {} BY <3>2
    <3>4. D \in SUBSET Nat OBVIOUS
    <3> QED BY <3>3, <3>4
  <2>2. PICK c \in D : \A e \in D : c <= e
    <3> HIDE DEF D
    <3> QED BY <2>1, LeastExists
  <2>3. c \in 1..m /\ a[c] # b[c] /\ \A e \in 1..(c - 1) : a[e] = b[e] BY <2>2
  <2>4. Lower(a[c], b[c]) \/ Lower(b[c], a[c]) BY <2>3, LowerOrder
  <2> QED BY <2>3, <2>4 DEF Earlier
<1> QED BY <1>1, <1>2, <1>3

\* The places of record k, and its key.
Places(d, k, sorts) ==
  [n \in 1..(Len(sorts) + 1) |-> IF n <= Len(sorts) THEN Place(d[k], sorts[n]) ELSE <<k, 0>>]

LEMMA PlaceIn ==
  ASSUME NEW r \in Records, NEW sort \in Sorts
  PROVE  Place(r, sort) \in Int \X Int
<1>1. r[sort.field] \in Values BY RecordAssumption DEF Sorts
<1>2. r[sort.field].rank \in Int BY <1>1 DEF Values
<1> QED BY <1>2 DEF Place

LEMMA PresentRecord ==
  ASSUME NEW d \in Contents, NEW k \in Present(d)
  PROVE  k \in Int /\ k \in Keys /\ d[k] \in Records
BY RecordAssumption DEF Contents, Present

LEMMA PlacesIn ==
  ASSUME NEW d \in Contents, NEW sorts \in Seq(Sorts), NEW k \in Present(d)
  PROVE  Places(d, k, sorts) \in [1..(Len(sorts) + 1) -> Int \X Int]
<1>1. Len(sorts) \in Nat /\ \A n \in 1..Len(sorts) : sorts[n] \in Sorts BY LenProperties
<1> QED BY <1>1, PresentRecord, PlaceIn DEF Places

LEMMA PrecedesEarlier ==
  ASSUME NEW d \in Contents, NEW sorts \in Seq(Sorts), NEW k \in Present(d), NEW l \in Present(d)
  PROVE  Precedes(d, k, l, sorts) <=>
           Earlier(Places(d, k, sorts), Places(d, l, sorts), Len(sorts) + 1)
<1> DEFINE N == Len(sorts)
           a == Places(d, k, sorts)
           b == Places(d, l, sorts)
<1>1. N \in Nat /\ DOMAIN sorts = 1..N BY LenProperties
<1>2. \A n \in 1..N : a[n] = Place(d[k], sorts[n]) /\ b[n] = Place(d[l], sorts[n])
  BY <1>1 DEF Places
<1>3. a[N + 1] = <<k, 0>> /\ b[N + 1] = <<l, 0>> BY <1>1 DEF Places
<1>4. k \in Int /\ l \in Int BY PresentRecord
<1>5. Lower(a[N + 1], b[N + 1]) <=> k < l BY <1>3, <1>4 DEF Lower
<1>6. Precedes(d, k, l, sorts) <=>
        \/ \E c \in 1..N : (\A e \in 1..(c - 1) : Place(d[k], sorts[e]) = Place(d[l], sorts[e]))
                           /\ Lower(Place(d[k], sorts[c]), Place(d[l], sorts[c]))
        \/ (\A e \in 1..N : Place(d[k], sorts[e]) = Place(d[l], sorts[e])) /\ k < l
  BY <1>1 DEF Precedes
<1> HIDE DEF N, a, b
<1>7. Precedes(d, k, l, sorts) <=>
        \/ \E c \in 1..N : (\A e \in 1..(c - 1) : a[e] = b[e]) /\ Lower(a[c], b[c])
        \/ (\A e \in 1..N : a[e] = b[e]) /\ Lower(a[N + 1], b[N + 1])
  <2>1. \A c \in 1..N : (\A e \in 1..(c - 1) : a[e] = b[e]) <=>
                        (\A e \in 1..(c - 1) : Place(d[k], sorts[e]) = Place(d[l], sorts[e]))
    BY <1>1, <1>2
  <2> QED BY <1>2, <1>5, <1>6, <2>1
<1>8. Earlier(a, b, N + 1) <=>
        \/ \E c \in 1..N : (\A e \in 1..(c - 1) : a[e] = b[e]) /\ Lower(a[c], b[c])
        \/ (\A e \in 1..N : a[e] = b[e]) /\ Lower(a[N + 1], b[N + 1])
  <2>1. 1..(N + 1) = (1..N) \cup {N + 1} /\ N + 1 - 1 = N BY <1>1
  <2> QED BY <2>1 DEF Earlier
<1> QED BY <1>7, <1>8 DEF a, b, N

\* The pairs of keys in the order asked for.
Asked(d, S, sorts) == {p \in S \X S : Precedes(d, p[1], p[2], sorts)}

LEMMA AskedOrders ==
  ASSUME NEW d \in Contents, NEW sorts \in Seq(Sorts), NEW S \in SUBSET Present(d)
  PROVE  Orders(Asked(d, S, sorts), S)
<1> DEFINE m == Len(sorts) + 1
           P(k) == Places(d, k, sorts)
           R == Asked(d, S, sorts)
<1>1. m \in Nat /\ m >= 1 /\ ~(m <= Len(sorts)) BY LenProperties
<1>2. \A k \in S : k \in Present(d) /\ P(k) \in [1..m -> Int \X Int] BY PlacesIn
<1>3. \A k, l \in S : <<k, l>> \in R <=> Earlier(P(k), P(l), m)
  BY PrecedesEarlier DEF Asked
<1>4. \A k, l \in S : P(k) = P(l) => k = l
  <2> SUFFICES ASSUME NEW k \in S, NEW l \in S, P(k) = P(l) PROVE k = l
    OBVIOUS
  <2>1. P(k)[m] = <<k, 0>> /\ P(l)[m] = <<l, 0>> BY <1>1 DEF Places
  <2> QED BY <2>1
<1> HIDE DEF m, P, R
<1>5. \A k, l, n \in S :
        /\ ~Earlier(P(k), P(k), m)
        /\ Earlier(P(k), P(l), m) /\ Earlier(P(l), P(n), m) => Earlier(P(k), P(n), m)
        /\ P(k) = P(l) \/ Earlier(P(k), P(l), m) \/ Earlier(P(l), P(k), m)
  BY <1>1, <1>2, EarlierOrder
<1> QED BY <1>3, <1>4, <1>5 DEF Orders, R

-----------------------------------------------------------------------------
(* Sorted rows: where no row is refused, the comparison of two rows is the *)
(* order asked for of their keys.                                          *)

LEMMA ColumnOrder ==
  ASSUME NEW r \in Records, NEW t \in Records, NEW sort \in Sorts,
         SortValue(r, sort).kind # "error", SortValue(t, sort).kind # "error"
  PROVE  LET order == CompareColumn(SortValue(r, sort), SortValue(t, sort), sort)
         IN  /\ order \in {"less", "equal", "greater"}
             /\ order = "less" <=> Lower(Place(r, sort), Place(t, sort))
             /\ order = "equal" <=> Place(r, sort) = Place(t, sort)
<1> DEFINE v == r[sort.field]
           w == t[sort.field]
           a == SortValue(r, sort)
           b == SortValue(t, sort)
<1>1. v \in Values /\ w \in Values BY RecordAssumption DEF Sorts
<1>2. v.rank \in Int /\ w.rank \in Int BY <1>1 DEF Values
<1>3. sort.direction \in {"ascending", "descending"} /\ sort.nulls \in {"first", "last"} BY DEF Sorts
<1>4. \/ v \in {Missing, Null} /\ a = [kind |-> "nullish", rank |-> 0]
      \/ v \notin {Missing, Null} /\ a.kind # "nullish" /\ a.rank = v.rank
  BY DEF SortValue, Missing, Null
<1>5. \/ w \in {Missing, Null} /\ b = [kind |-> "nullish", rank |-> 0]
      \/ w \notin {Missing, Null} /\ b.kind # "nullish" /\ b.rank = w.rank
  BY DEF SortValue, Missing, Null
<1>6. Place(r, sort) = IF v \in {Missing, Null} THEN <<IF sort.nulls = "first" THEN -1 ELSE 1, 0>>
                       ELSE <<0, IF sort.direction = "ascending" THEN v.rank ELSE 0 - v.rank>>
  BY DEF Place
<1>7. Place(t, sort) = IF w \in {Missing, Null} THEN <<IF sort.nulls = "first" THEN -1 ELSE 1, 0>>
                       ELSE <<0, IF sort.direction = "ascending" THEN w.rank ELSE 0 - w.rank>>
  BY DEF Place
<1> HIDE DEF a, b, v, w
<1> SUFFICES /\ CompareColumn(a, b, sort) \in {"less", "equal", "greater"}
             /\ CompareColumn(a, b, sort) = "less" <=> Lower(Place(r, sort), Place(t, sort))
             /\ CompareColumn(a, b, sort) = "equal" <=> Place(r, sort) = Place(t, sort)
  BY DEF a, b
<1>8. CASE v \in {Missing, Null} /\ w \in {Missing, Null}
  BY <1>3, <1>4, <1>5, <1>6, <1>7, <1>8 DEF CompareColumn, Lower
<1>9. CASE v \in {Missing, Null} /\ w \notin {Missing, Null}
  BY <1>2, <1>3, <1>4, <1>5, <1>6, <1>7, <1>9 DEF CompareColumn, Lower
<1>10. CASE v \notin {Missing, Null} /\ w \in {Missing, Null}
  BY <1>2, <1>3, <1>4, <1>5, <1>6, <1>7, <1>10 DEF CompareColumn, Lower
<1>11. CASE v \notin {Missing, Null} /\ w \notin {Missing, Null}
  <2>1. CompareColumn(a, b, sort) = IF sort.direction = "ascending"
                                    THEN Sign(v.rank - w.rank) ELSE Sign(w.rank - v.rank)
    BY <1>4, <1>5, <1>11 DEF CompareColumn
  <2> QED BY <1>2, <1>3, <1>6, <1>7, <1>11, <2>1 DEF Lower, Sign
<1> QED BY <1>8, <1>9, <1>10, <1>11

LEMMA RowsCompareAsAsked ==
  ASSUME NEW d \in Contents, NEW sorts \in Seq(Sorts), NEW k \in Present(d), NEW l \in Present(d),
         \A c \in DOMAIN sorts : /\ SortValue(d[k], sorts[c]).kind # "error"
                                 /\ SortValue(d[l], sorts[c]).kind # "error"
  PROVE  SortsBefore([key |-> k, record |-> d[k]], [key |-> l, record |-> d[l]], sorts)
           <=> Precedes(d, k, l, sorts)
<1> DEFINE N == Len(sorts)
           p(c) == Place(d[k], sorts[c])
           q(c) == Place(d[l], sorts[c])
           column == [c \in DOMAIN sorts |->
                        CompareColumn(SortValue(d[k], sorts[c]), SortValue(d[l], sorts[c]), sorts[c])]
           O == {"less", "equal", "greater"}
<1>1. N \in Nat /\ DOMAIN sorts = 1..N /\ \A c \in 1..N : sorts[c] \in Sorts BY LenProperties
<1>2. d[k] \in Records /\ d[l] \in Records BY PresentRecord
<1>3. \A c \in 1..N : /\ column[c] \in O
                      /\ column[c] = "less" <=> Lower(p(c), q(c))
                      /\ column[c] = "equal" <=> p(c) = q(c)
  BY <1>1, <1>2, ColumnOrder
<1>4. column \in Seq(O) /\ DOMAIN column = 1..N
  <2>1. column \in [1..N -> O] BY <1>1, <1>3
  <2> QED BY <1>1, <2>1
<1>5. SortsBefore([key |-> k, record |-> d[k]], [key |-> l, record |-> d[l]], sorts) <=>
        FirstOf(column, "equal") = "less" \/ (FirstOf(column, "equal") = "equal" /\ k < l)
  BY DEF SortsBefore, Columns
<1>6. Precedes(d, k, l, sorts) <=>
        \/ \E c \in 1..N : (\A e \in 1..(c - 1) : p(e) = q(e)) /\ Lower(p(c), q(c))
        \/ (\A e \in 1..N : p(e) = q(e)) /\ k < l
  BY <1>1 DEF Precedes
<1> HIDE DEF column, p, q, N
<1>7. Precedes(d, k, l, sorts) <=>
        \/ \E c \in 1..N : (\A e \in 1..N : e < c => column[e] = "equal") /\ column[c] = "less"
        \/ (\A e \in 1..N : column[e] = "equal") /\ k < l
  <2>1. \A c \in 1..N : (\A e \in 1..(c - 1) : p(e) = q(e)) <=>
                        (\A e \in 1..N : e < c => column[e] = "equal")
    BY <1>1, <1>3
  <2> QED BY <1>3, <1>6, <2>1
<1>8. \/ FirstOf(column, "equal") = "equal" /\ \A n \in 1..N : column[n] = "equal"
      \/ \E n \in 1..N : /\ FirstOf(column, "equal") = column[n] /\ column[n] # "equal"
                         /\ \A m \in 1..N : m < n => column[m] = "equal"
  <2> DEFINE x == "equal"
  <2>1. \/ FirstOf(column, x) = x /\ \A n \in DOMAIN column : column[n] = x
        \/ \E n \in DOMAIN column : /\ FirstOf(column, x) = column[n] /\ column[n] # x
                                    /\ \A m \in DOMAIN column : m < n => column[m] = x
    <3> HIDE DEF x, O
    <3> QED BY <1>4, FirstSettles
  <2> QED BY <1>4, <2>1
<1>9. CASE \A n \in 1..N : column[n] = "equal"
  BY <1>5, <1>7, <1>8, <1>9
<1>10. CASE ~ \A n \in 1..N : column[n] = "equal"
  <2>1. PICK n \in 1..N : /\ FirstOf(column, "equal") = column[n] /\ column[n] # "equal"
                          /\ \A m \in 1..N : m < n => column[m] = "equal"
    BY <1>8, <1>10
  <2>2. \A c \in 1..N : (\A e \in 1..N : e < c => column[e] = "equal") /\ column[c] = "less" => c = n
    BY <1>1, <2>1
  <2> QED BY <1>5, <1>7, <1>10, <2>1, <2>2
<1> QED BY <1>9, <1>10

-----------------------------------------------------------------------------
(* The sorted lists of the model: candidate keys, hits, and rows.          *)

Below(S) == {p \in S \X S : p[1] < p[2]}

LEMMA BelowOrders ==
  ASSUME NEW S \in SUBSET Keys
  PROVE  Orders(Below(S), S)
<1>1. \A k \in S : k \in Int BY RecordAssumption
<1> QED BY <1>1 DEF Orders, Below

LEMMA FiniteKeys ==
  ASSUME NEW S \in SUBSET Keys
  PROVE  IsFiniteSet(S) /\ Cardinality(S) \in Nat
BY RecordAssumption, FS_Subset, FS_CardinalityType

LEMMA KeysAscending ==
  ASSUME NEW S \in SUBSET Keys
  PROVE  LET f == Ascending(S, <)
         IN  /\ f \in Seq(S) /\ ToSet(f) = S
             /\ \A i, j \in DOMAIN f : i < j => f[i] < f[j]
<1> DEFINE n == Cardinality(S)
           f == Ascending(S, <)
<1>1. IsFiniteSet(S) /\ n \in Nat /\ Orders(Below(S), S) BY FiniteKeys, BelowOrders
<1>2. \E g \in [1..n -> S] : \A i, j \in DOMAIN g : i < j => g[i] < g[j]
  <2>1. PICK g \in [1..n -> S] : Increasing(g, Below(S)) BY <1>1, AscendingExists
  <2> QED BY <2>1 DEF Increasing, Below
<1>3. f \in [1..n -> S] /\ \A i, j \in DOMAIN f : i < j => f[i] < f[j]
  BY <1>2 DEF Ascending
<1> HIDE DEF f
<1>4. Increasing(f, Below(S)) BY <1>3 DEF Increasing, Below
<1>5. ToSet(f) = S BY <1>1, <1>3, <1>4, AscendingCovers DEF ToSet, Elements
<1>6. f \in Seq(S) BY <1>1, <1>3
<1> QED BY <1>3, <1>5, <1>6 DEF f

KeyOrder(d, S, sorts) == Ascending(S, LAMBDA k, l : Precedes(d, k, l, sorts))

LEMMA KeyOrderLists ==
  ASSUME NEW d \in Contents, NEW sorts \in Seq(Sorts), NEW S \in SUBSET Present(d)
  PROVE  LET f == KeyOrder(d, S, sorts)
         IN  /\ Cardinality(S) \in Nat /\ f \in [1..Cardinality(S) -> S]
             /\ Increasing(f, Asked(d, S, sorts)) /\ Elements(f) = S
<1> DEFINE n == Cardinality(S)
           R == Asked(d, S, sorts)
           f == KeyOrder(d, S, sorts)
<1>1. IsFiniteSet(S) /\ n \in Nat /\ Orders(R, S) BY FiniteKeys, AskedOrders DEF Present
<1>2. \E g \in [1..n -> S] : \A i, j \in DOMAIN g : i < j => Precedes(d, g[i], g[j], sorts)
  <2>1. PICK g \in [1..n -> S] : Increasing(g, R) BY <1>1, AscendingExists
  <2> QED BY <2>1 DEF Increasing, Asked
<1>3. f \in [1..n -> S] /\ \A i, j \in DOMAIN f : i < j => Precedes(d, f[i], f[j], sorts)
  BY <1>2 DEF KeyOrder, Ascending
<1> HIDE DEF f
<1>4. Increasing(f, R) BY <1>3 DEF Increasing, Asked
<1>5. Elements(f) = S
  <2> HIDE DEF n, R
  <2> QED BY <1>1, <1>3, <1>4, AscendingCovers DEF n
<1> QED BY <1>1, <1>3, <1>4, <1>5 DEF f

RowOf(d, k) == [key |-> k, record |-> d[k]]

LEMMA RowsAscending ==
  ASSUME NEW d \in Contents, NEW sorts \in Seq(Sorts), NEW S \in SUBSET Present(d),
         \A k \in S, c \in DOMAIN sorts : SortValue(d[k], sorts[c]).kind # "error",
         NEW T, \A x : x \in T <=> \E k \in S : x = RowOf(d, k)
  PROVE  Ascending(T, LAMBDA a, b : SortsBefore(a, b, sorts))
           = [n \in 1..Cardinality(S) |-> RowOf(d, KeyOrder(d, S, sorts)[n])]
<1> DEFINE n == Cardinality(S)
           f == KeyOrder(d, S, sorts)
           h == [i \in 1..n |-> RowOf(d, f[i])]
           R == {p \in T \X T : SortsBefore(p[1], p[2], sorts)}
           g == Ascending(T, LAMBDA a, b : SortsBefore(a, b, sorts))
<1>1. n \in Nat /\ f \in [1..n -> S] /\ Increasing(f, Asked(d, S, sorts)) /\ Elements(f) = S
  BY KeyOrderLists
<1> HIDE DEF n, f
<1>2. \A k, l \in S : SortsBefore(RowOf(d, k), RowOf(d, l), sorts) <=> Precedes(d, k, l, sorts)
  BY RowsCompareAsAsked DEF RowOf
<1>3. \A k, l \in S : <<RowOf(d, k), RowOf(d, l)>> \in R <=> <<k, l>> \in Asked(d, S, sorts)
  BY <1>2 DEF Asked
<1>4. \A k, l \in S : RowOf(d, k) = RowOf(d, l) => k = l BY DEF RowOf
<1>5. Orders(R, T)
  <2>1. Orders(Asked(d, S, sorts), S) BY AskedOrders
  <2> HIDE DEF R
  <2>2. ASSUME NEW x \in T, NEW y \in T, NEW z \in T
        PROVE  /\ <<x, x>> \notin R
               /\ <<x, y>> \in R /\ <<y, z>> \in R => <<x, z>> \in R
               /\ x = y \/ <<x, y>> \in R \/ <<y, x>> \in R
    <3>1. PICK i \in S : x = RowOf(d, i) OBVIOUS
    <3>2. PICK j \in S : y = RowOf(d, j) OBVIOUS
    <3>3. PICK k \in S : z = RowOf(d, k) OBVIOUS
    <3> QED BY <1>3, <2>1, <3>1, <3>2, <3>3 DEF Orders
  <2>3. \A x \in T : <<x, x>> \notin R BY <2>2
  <2>4. \A x, y, z \in T : <<x, y>> \in R /\ <<y, z>> \in R => <<x, z>> \in R BY <2>2
  <2>5. \A x, y \in T : x = y \/ <<x, y>> \in R \/ <<y, x>> \in R BY <2>2
  <2> QED BY <2>3, <2>4, <2>5 DEF Orders
<1>6. h \in [1..n -> T] /\ Increasing(h, R)
  <2>1. h \in [1..n -> T] BY <1>1
  <2>2. \A i, j \in 1..n : i < j => <<f[i], f[j]>> \in Asked(d, S, sorts) /\ f[i] \in S /\ f[j] \in S
    BY <1>1 DEF Increasing
  <2> HIDE DEF R
  <2>3. \A i, j \in 1..n : i < j => <<h[i], h[j]>> \in R BY <1>3, <2>2
  <2> QED BY <2>1, <2>3 DEF Increasing
<1>7. Elements(h) = T
  <2>1. \A k \in S : \E i \in 1..n : f[i] = k BY <1>1 DEF Elements
  <2>2. \A i \in 1..n : f[i] \in S BY <1>1
  <2>3. Elements(h) = {RowOf(d, f[i]) : i \in 1..n} BY DEF Elements
  <2> HIDE DEF h
  <2> QED BY <2>1, <2>2, <2>3
<1>8. IsFiniteSet(T) /\ Cardinality(T) = n
  <2> HIDE DEF h, R
  <2>1. \A m \in Nat : \A s \in [1..m -> T] :
          Increasing(s, R) => IsFiniteSet(Elements(s)) /\ Cardinality(Elements(s)) = m
    BY <1>5, IncreasingCounts
  <2> QED BY <1>1, <1>6, <1>7, <2>1
<1>9. \E s \in [1..n -> T] : \A i, j \in DOMAIN s : i < j => SortsBefore(s[i], s[j], sorts)
  <2>1. \A i, j \in DOMAIN h : i < j => SortsBefore(h[i], h[j], sorts) BY <1>6 DEF Increasing
  <2> HIDE DEF h
  <2> QED BY <1>6, <2>1
<1>10. g \in [1..n -> T] /\ \A i, j \in DOMAIN g : i < j => SortsBefore(g[i], g[j], sorts)
  BY <1>8, <1>9 DEF Ascending
<1> HIDE DEF g
<1>11. Increasing(g, R) BY <1>10 DEF Increasing
<1> HIDE DEF R
<1>12. Elements(g) = T BY <1>5, <1>8, <1>10, <1>11, AscendingCovers
<1>13. \A i \in 1..n : h[i] = g[i]
  <2> HIDE DEF h
  <2>1. ASSUME NEW s \in [1..n -> T], NEW t \in [1..n -> T],
               Increasing(s, R), Elements(s) = T, Increasing(t, R), Elements(t) = T
        PROVE  \A i \in 1..n : s[i] = t[i]
    BY <1>1, <1>5, <2>1, ListUnique
  <2> QED BY <1>6, <1>7, <1>10, <1>11, <1>12, <2>1
<1>14. g = h BY <1>10, <1>13
<1> QED BY <1>14 DEF g, n, f

-----------------------------------------------------------------------------
(* What a query must answer, row by row.                                   *)

LastOf(n, q) == IF q.limit = NoLimit THEN n ELSE Min({n, q.offset + q.limit})

LEMMA QueryParts ==
  ASSUME NEW q \in Queries
  PROVE  /\ q.where \in Filters /\ q.sortBy \in Seq(Sorts) /\ q.offset \in Nat
         /\ q.limit # NoLimit => q.limit \in Nat /\ q.limit > 0
BY QueryAssumption

LEMMA LastValue ==
  ASSUME NEW q \in Queries, NEW n \in Nat
  PROVE  /\ LastOf(n, q) \in Nat /\ LastOf(n, q) <= n
         /\ q.limit = NoLimit \/ n <= q.offset + q.limit => LastOf(n, q) = n
         /\ q.limit # NoLimit /\ q.offset + q.limit <= n => LastOf(n, q) = q.offset + q.limit
<1>1. CASE q.limit = NoLimit BY <1>1 DEF LastOf
<1>2. CASE q.limit # NoLimit
  <2> DEFINE I == {n, q.offset + q.limit}
  <2>1. q.offset + q.limit \in Nat BY <1>2, QueryParts
  <2>2. I \in SUBSET Nat /\ I # {} BY <2>1
  <2>3. Min(I) \in I /\ \A i \in I : Min(I) <= i
    <3> HIDE DEF I
    <3> QED BY <2>2, LeastExists
  <2>4. LastOf(n, q) = Min(I) BY <1>2 DEF LastOf
  <2>5. /\ LastOf(n, q) \in {n, q.offset + q.limit}
        /\ LastOf(n, q) <= n /\ LastOf(n, q) <= q.offset + q.limit
    BY <2>3, <2>4
  <2> QED BY <1>2, <2>1, <2>5
<1> QED BY <1>1, <1>2

LEMMA ExpectedRows ==
  ASSUME NEW s, s.data \in Contents, NEW q \in Queries
  PROVE  Expected(s, q) =
           [i \in 1..(LastOf(Cardinality(Hits(s, q)), q) - q.offset) |->
              RowOf(s.data, KeyOrder(s.data, Hits(s, q), q.sortBy)[i + q.offset])]
<1> DEFINE f == KeyOrder(s.data, Hits(s, q), q.sortBy)
           n == Cardinality(Hits(s, q))
<1>1. Hits(s, q) \in SUBSET Present(s.data) BY DEF Hits
<1>2. n \in Nat /\ f \in [1..n -> Hits(s, q)] BY <1>1, QueryParts, KeyOrderLists
<1>3. Len(f) = n
  <2>1. f \in Seq(Hits(s, q)) /\ DOMAIN f = 1..n BY <1>2
  <2> HIDE DEF f, n
  <2> QED BY <1>2, <2>1, LenProperties
<1>4. Expected(s, q) =
        [i \in 1..((IF q.limit = NoLimit THEN Len(f) ELSE Min({Len(f), q.offset + q.limit})) - q.offset) |->
           [key |-> f[i + q.offset], record |-> s.data[f[i + q.offset]]]]
  BY DEF Expected, KeyOrder
<1> HIDE DEF f, n
<1> QED BY <1>3, <1>4 DEF LastOf, RowOf, f, n

\* The keys listed so far are the first ones of the answer of an unsorted query.
LEMMA UnsortedPrefix ==
  ASSUME NEW d \in Contents, NEW S \in SUBSET Present(d), NEW T \in SUBSET S,
         \A x \in T, y \in S \ T : x < y,
         NEW m \in Nat, NEW h \in [1..m -> Keys], Lists(h, T)
  PROVE  /\ m <= Cardinality(S) /\ (T = S => m = Cardinality(S))
         /\ \A i \in 1..m : h[i] = KeyOrder(d, S, <<>>)[i]
<1> DEFINE n == Cardinality(S)
           f == KeyOrder(d, S, <<>>)
           R == Asked(d, S, <<>>)
<1>1. <<>> \in Seq(Sorts) BY EmptySeq
<1>2. n \in Nat /\ f \in [1..n -> S] /\ Increasing(f, R) /\ Elements(f) = S
  BY <1>1, KeyOrderLists
<1>3. Orders(R, S) BY <1>1, AskedOrders
<1>4. \A k, l \in S : <<k, l>> \in R <=> k < l
  <2>1. Len(<<>>) = 0 /\ DOMAIN <<>> = {} BY EmptySeq
  <2>2. \A k, l : Precedes(d, k, l, <<>>) <=> k < l BY <2>1 DEF Precedes
  <2> QED BY <2>2 DEF Asked
<1> HIDE DEF n, f, R
<1>5. Elements(h) = T /\ \A i, j \in 1..m : i < j => h[i] < h[j]
  BY DEF Lists, Elements
<1>6. h \in [1..m -> S]
  <2>1. \A i \in 1..m : h[i] \in T BY <1>5 DEF Elements
  <2> QED BY <2>1
<1>7. Increasing(h, R) BY <1>4, <1>5, <1>6 DEF Increasing
<1>8. IsFiniteSet(T) /\ Cardinality(T) = m BY <1>3, <1>5, <1>6, <1>7, IncreasingCounts
<1>9. IsFiniteSet(S) BY FiniteKeys DEF Present
<1>10. m <= n /\ (T = S => m = n) BY <1>8, <1>9, FS_Subset DEF n
<1>11. \A x \in T, y \in S \ T : <<x, y>> \in R BY <1>4
<1>12. \A i \in 1..m : h[i] = f[i]
  BY <1>2, <1>3, <1>5, <1>6, <1>7, <1>10, <1>11, PrefixUnique
<1> QED BY <1>10, <1>12 DEF n, f

\* The answer is the keys of h from the offset to m.
IsAnswer(s, q, h, m) ==
  Expected(s, q) = [i \in 1..(m - q.offset) |-> RowOf(s.data, h[i + q.offset])]

LEMMA UnsortedAnswer ==
  ASSUME NEW s, s.data \in Contents, NEW q \in Queries, q.sortBy = <<>>,
         NEW T \in SUBSET Hits(s, q), \A x \in T, y \in Hits(s, q) \ T : x < y,
         NEW m \in Nat, NEW h \in [1..m -> Keys], Lists(h, T),
         \/ q.limit # NoLimit /\ m = q.offset + q.limit
         \/ T = Hits(s, q) /\ (q.limit # NoLimit => m <= q.offset + q.limit)
  PROVE  IsAnswer(s, q, h, m)
<1> DEFINE S == Hits(s, q)
           n == Cardinality(S)
           f == KeyOrder(s.data, S, <<>>)
<1>1. S \in SUBSET Present(s.data) BY DEF Hits
<1>2. n \in Nat BY <1>1, FiniteKeys DEF Present
<1>3. Expected(s, q) = [i \in 1..(LastOf(n, q) - q.offset) |-> RowOf(s.data, f[i + q.offset])]
  BY ExpectedRows
<1>4. /\ m <= n /\ (T = S => m = n)
      /\ \A i \in 1..m : h[i] = f[i]
  <2> HIDE DEF S
  <2>1. T \in SUBSET S /\ \A x \in T, y \in S \ T : x < y BY DEF S
  <2> QED BY <1>1, <2>1, UnsortedPrefix
<1>5. LastOf(n, q) = m
  <2>1. CASE q.limit # NoLimit /\ m = q.offset + q.limit
    <3> HIDE DEF n
    <3> QED BY <1>2, <1>4, <2>1, LastValue
  <2>2. CASE T = S /\ (q.limit # NoLimit => m <= q.offset + q.limit)
    <3>1. m = n BY <1>4, <2>2
    <3> HIDE DEF n, S
    <3> QED BY <1>2, <2>2, <3>1, LastValue
  <2> QED BY <2>1, <2>2
<1> HIDE DEF n, f, S
<1>6. \A i \in 1..(m - q.offset) : i + q.offset \in 1..m BY QueryParts
<1> QED BY <1>3, <1>4, <1>5, <1>6 DEF IsAnswer

LEMMA PageRows ==
  ASSUME NEW V, NEW g \in Seq(V), NEW q \in Queries
  PROVE  /\ Page(g, q) \in Seq(V)
         /\ Page(g, q) = [i \in 1..(LastOf(Len(g), q) - q.offset) |-> g[i + q.offset]]
<1> DEFINE a == q.offset + 1
           b == LastOf(Len(g), q)
<1>1. Len(g) \in Nat /\ g \in [1..Len(g) -> V] BY LenProperties
<1>2. q.offset \in Nat BY QueryParts
<1>3. b \in Nat /\ b <= Len(g) BY <1>1, LastValue
<1>4. Page(g, q) = SubSeq(g, a, b) BY DEF Page, LastOf
<1> HIDE DEF b
<1>5. \A i \in a..b : g[i] \in V BY <1>1, <1>2, <1>3
<1>6. /\ SubSeq(g, a, b) \in Seq(V)
      /\ Len(SubSeq(g, a, b)) = IF a <= b THEN b - a + 1 ELSE 0
      /\ \A i \in 1..(b - a + 1) : SubSeq(g, a, b)[i] = g[a + i - 1]
  <2>1. a \in Int /\ b \in Int BY <1>2, <1>3
  <2> HIDE DEF a
  <2> QED BY <1>5, <2>1, SubSeqProperties
<1> DEFINE t == SubSeq(g, a, b)
           u == [i \in 1..(b - q.offset) |-> g[i + q.offset]]
<1>7. DOMAIN t = 1..(b - q.offset)
  <2>1. t \in Seq(V) /\ DOMAIN t = 1..Len(t) BY <1>6, LenProperties
  <2>2. Len(t) = IF a <= b THEN b - q.offset ELSE 0 BY <1>2, <1>3, <1>6
  <2> HIDE DEF t
  <2> QED BY <1>2, <1>3, <2>1, <2>2
<1>8. \A i \in 1..(b - q.offset) : t[i] = g[i + q.offset]
  <2>1. \A i \in 1..(b - q.offset) : i \in 1..(b - a + 1) /\ a + i - 1 = i + q.offset
    BY <1>2, <1>3
  <2> QED BY <1>6, <2>1
<1>9. t = [i \in DOMAIN t |-> t[i]] BY <1>6
<1>10. t = u
  <2> HIDE DEF t
  <2> QED BY <1>7, <1>8, <1>9
<1> QED BY <1>4, <1>6, <1>10 DEF b

-----------------------------------------------------------------------------
(* What the planner and the loop rely on, in the state of a query.         *)

LEMMA TypedQuery ==
  ASSUME QueryTyped, pc # "idle"
  PROVE  /\ query \in Queries /\ query.where \in Filters /\ query.sortBy \in Seq(Sorts)
         /\ query.offset \in Nat /\ Skipped \in Nat
         /\ query.limit # NoLimit => query.limit \in Nat /\ query.limit > 0
         /\ snapshot.data \in Contents
BY QueryParts DEF QueryTyped, Skipped

LEMMA HitsAreCandidates ==
  ASSUME QueryTyped, pc # "idle"
  PROVE  Hits(snapshot, query) \subseteq CandidateKeys(snapshot, query.where)
<1> DEFINE d == snapshot.data
           w == query.where
<1>1. w \in Filters /\ d \in Contents BY TypedQuery
<1> SUFFICES ASSUME NEW k \in Present(d), Satisfies(d[k], w), NEW c \in Selected(snapshot, w)
             PROVE  k \in Lookup(snapshot, c)
  BY DEF Hits, CandidateKeys
<1>2. d[k] \in Records BY <1>1, PresentRecord
<1>3. c \in IndexCandidates[w] /\ Usable(c) BY DEF Selected
<1>4. c \in ComparisonNodes /\ Eligible(c) BY <1>1, <1>3, CandidatesAreComparisons
<1>5. Holds(d[k][c.field], c) BY <1>1, <1>2, <1>3, CandidatesHold
<1>6. d[k][c.field] \in Values BY <1>2, <1>4, RecordAssumption DEF ComparisonNodes
<1>7. EntryMatches(d[k][c.field], c) = "yes" BY <1>3, <1>4, <1>5, <1>6, EntryFound
<1>8. d[k][c.field] # Missing BY <1>5 DEF Holds
<1> QED BY <1>7, <1>8 DEF Lookup, IndexedKeys

LEMMA MixedMeans ==
  ASSUME NEW d, NEW f, NEW k \in Present(d), NEW c \in Comparisons[f], CannotOrder(d[k][c.field], c)
  PROVE  MixedTypes(d, f)
BY DEF MixedTypes, CannotOrder

LEMMA LookupFailsOnMixedTypes ==
  ASSUME QueryTyped, pc # "idle", NEW c \in Selected(snapshot, query.where), LookupFails(snapshot, c)
  PROVE  MixedTypes(snapshot.data, query.where)
<1> DEFINE d == snapshot.data
           w == query.where
<1>1. w \in Filters /\ d \in Contents BY TypedQuery
<1>2. c \in IndexCandidates[w] /\ Usable(c) BY DEF Selected
<1>3. c \in ComparisonNodes /\ Eligible(c) /\ c \in Comparisons[w]
  BY <1>1, <1>2, CandidatesAreComparisons
<1>4. PICK k \in IndexedKeys(snapshot, c.field) : EntryMatches(d[k][c.field], c) = "error"
  BY <1>2 DEF LookupFails, Usable
<1>5. k \in Present(d) /\ d[k][c.field] # Missing BY <1>4 DEF IndexedKeys
<1>6. d[k] \in Records BY <1>1, <1>5, PresentRecord
<1>7. d[k][c.field] \in Values BY <1>3, <1>6, RecordAssumption DEF ComparisonNodes
<1>8. CannotOrder(d[k][c.field], c) BY <1>3, <1>4, <1>5, <1>7, EntryFails
<1> QED BY <1>3, <1>5, <1>8, MixedMeans

LEMMA VerdictFailsOnMixedTypes ==
  ASSUME NEW d \in Contents, NEW f \in Filters, NEW k \in Present(d), MatchesFilter(d[k], f) = "error"
  PROVE  MixedTypes(d, f)
<1>1. d[k] \in Records BY PresentRecord
<1>2. PICK c \in Comparisons[f] : CannotOrder(d[k][c.field], c) BY <1>1, ErrorMeans
<1> QED BY <1>2, MixedMeans

-----------------------------------------------------------------------------
(* The steps.                                                              *)

LEMMA InitKeeps == Init => QueryInv
<1> SUFFICES ASSUME Init PROVE QueryInv OBVIOUS
<1>1. pc = "idle" BY DEF Init
<1>2. QueryTyped
  <2>1. snapshot \in [data : Contents, indexed : SUBSET Fields]
    BY DEF Init, EmptySnapshot, Contents
  <2>2. <<>> \in Seq(Keys) /\ <<>> \in Seq([key : Keys, record : Records]) BY EmptySeq
  <2> QED BY <2>1, <2>2 DEF Init, QueryTyped, Contents
<1> QED BY <1>1, <1>2 DEF QueryInv, AheadInv, RowsInv, AnswersSnapshot, FailsOnlyOnMixedTypes

\* Steps that leave the query alone.
LEMMA OthersKeep ==
  ASSUME QueryInv, UNCHANGED <<encrypted, snapshot, query, pc, keys, matched, rows>>,
         data' \in Contents, indexed' \subseteq Fields
  PROVE  QueryInv'
<1>1. QueryTyped' BY DEF QueryInv, QueryTyped
<1>2. Hits(snapshot, query)' = Hits(snapshot, query) BY DEF Hits, Satisfies, Present
<1>3. CandidateKeys(snapshot, query.where)' = CandidateKeys(snapshot, query.where)
  BY DEF CandidateKeys, Selected, Usable, Lookup, IndexedKeys, EntryMatches, Present
<1>4. AheadInv' BY <1>3 DEF QueryInv, AheadInv
<1>5. RowsInv'
  <2>1. Skipped' = Skipped /\ Sorted' = Sorted /\ \A k : Row(k)' = Row(k)
    BY DEF Skipped, Sorted, Row, RecordOf
  <2> SUFFICES ASSUME pc = "visit"
               PROVE  /\ \E h \in [1..matched -> Keys] :
                           /\ Lists(h, Hits(snapshot, query) \ ToSet(keys))
                           /\ rows = [n \in 1..(matched - Skipped) |-> Row(h[n + Skipped])]
                      /\ ~Sorted /\ query.limit # NoLimit => Len(rows) < query.limit
    BY <1>2, <2>1 DEF RowsInv
  <2> QED BY DEF QueryInv, RowsInv
<1>6. AnswersSnapshot' BY DEF QueryInv, AnswersSnapshot
<1>7. FailsOnlyOnMixedTypes' BY DEF QueryInv, FailsOnlyOnMixedTypes
<1> QED BY <1>1, <1>4, <1>5, <1>6, <1>7 DEF QueryInv

LEMMA WriteKeeps ==
  ASSUME QueryInv, NEW k \in Keys, NEW r \in Records \cup {Absent}, Write(k, r)
  PROVE  QueryInv'
<1>1. data' \in Contents /\ indexed' \subseteq Fields
  BY DEF Write, QueryInv, QueryTyped, Contents
<1>2. UNCHANGED <<encrypted, snapshot, query, pc, keys, matched, rows>> BY DEF Write
<1> QED BY <1>1, <1>2, OthersKeep

LEMMA ToggleIndexKeeps ==
  ASSUME QueryInv, NEW f \in Fields, ToggleIndex(f)
  PROVE  QueryInv'
<1>1. data' \in Contents /\ indexed' \subseteq Fields
  BY DEF ToggleIndex, QueryInv, QueryTyped
<1>2. UNCHANGED <<encrypted, snapshot, query, pc, keys, matched, rows>> BY DEF ToggleIndex
<1> QED BY <1>1, <1>2, OthersKeep

LEMMA BeginQueryKeeps ==
  ASSUME QueryInv, NEW q \in Queries, BeginQuery(q)
  PROVE  QueryInv'
<1>1. pc' = "plan" BY DEF BeginQuery
<1>2. QueryTyped'
  <2>1. <<>> \in Seq(Keys) /\ <<>> \in Seq([key : Keys, record : Records]) BY EmptySeq
  <2> QED BY <1>1, <2>1 DEF BeginQuery, QueryInv, QueryTyped
<1> QED BY <1>1, <1>2 DEF QueryInv, AheadInv, RowsInv, AnswersSnapshot, FailsOnlyOnMixedTypes

LEMMA EndQueryKeeps ==
  ASSUME QueryInv, EndQuery
  PROVE  QueryInv'
<1>1. pc' = "idle" BY DEF EndQuery
<1>2. QueryTyped'
  <2>1. <<>> \in Seq(Keys) /\ <<>> \in Seq([key : Keys, record : Records]) BY EmptySeq
  <2>2. EmptySnapshot \in [data : Contents, indexed : SUBSET Fields]
    BY DEF EmptySnapshot, Contents
  <2> QED BY <1>1, <2>1, <2>2 DEF EndQuery, QueryInv, QueryTyped
<1> QED BY <1>1, <1>2 DEF QueryInv, AheadInv, RowsInv, AnswersSnapshot, FailsOnlyOnMixedTypes

LEMMA PlanKeeps ==
  ASSUME QueryInv, Plan
  PROVE  QueryInv'
<1> DEFINE S == CandidateKeys(snapshot, query.where)
           H == Hits(snapshot, query)
<1>1. QueryTyped /\ pc = "plan" /\ matched = 0 /\ rows = <<>>
  BY DEF QueryInv, QueryTyped, Plan
<1>2. query \in Queries /\ query.where \in Filters /\ Skipped \in Nat BY <1>1, TypedQuery
<1>3. UNCHANGED <<encrypted, data, indexed, snapshot, query, matched, rows>> BY DEF Plan
<1>4. CASE \E c \in Selected(snapshot, query.where) : LookupFails(snapshot, c)
  <2>1. pc' = "error" /\ keys' = keys BY <1>4 DEF Plan
  <2>2. QueryTyped' BY <1>1, <1>2, <1>3, <2>1 DEF QueryTyped
  <2>3. MixedTypes(snapshot.data, query.where) BY <1>1, <1>4, LookupFailsOnMixedTypes
  <2>4. FailsOnlyOnMixedTypes' BY <1>3, <2>3 DEF FailsOnlyOnMixedTypes
  <2> QED BY <2>1, <2>2, <2>4 DEF QueryInv, AheadInv, RowsInv, AnswersSnapshot
<1>5. CASE ~ \E c \in Selected(snapshot, query.where) : LookupFails(snapshot, c)
  <2>1. pc' = "visit" /\ keys' = Ascending(S, <) BY <1>5 DEF Plan
  <2>2. S \in SUBSET Keys BY DEF CandidateKeys, Present
  <2>3. /\ keys' \in Seq(S) /\ ToSet(keys') = S
        /\ \A i, j \in DOMAIN keys' : i < j => keys'[i] < keys'[j]
    <3> HIDE DEF S
    <3> QED BY <2>1, <2>2, KeysAscending
  <2>4. keys' \in Seq(Keys) BY <2>2, <2>3, SeqMonotonic
  <2>5. QueryTyped' BY <1>1, <1>2, <1>3, <2>1, <2>4 DEF QueryTyped
  <2>6. CandidateKeys(snapshot, query.where)' = S
    BY <1>3 DEF CandidateKeys, Selected, Usable, Lookup, IndexedKeys, EntryMatches, Present
  <2>7. AheadInv'
    <3> HIDE DEF S
    <3> QED BY <2>3, <2>6 DEF AheadInv
  <2>8. RowsInv'
    <3>1. H \ ToSet(keys') = {} BY <1>1, <2>3, HitsAreCandidates
    <3>2. Hits(snapshot, query)' = H BY <1>3
    <3>3. Skipped' = Skipped /\ Sorted' = Sorted BY <1>3 DEF Skipped, Sorted
    <3> DEFINE h == [i \in 1..0 |-> i]
    <3>4. h \in [1..matched' -> Keys] /\ Lists(h, {}) BY <1>1, <1>3 DEF Lists
    <3>5. rows' = [n \in 1..(matched' - Skipped) |-> Row(h[n + Skipped])']
      <4>1. 1..(matched' - Skipped) = {} BY <1>1, <1>2, <1>3
      <4> QED BY <1>1, <1>3, <4>1
    <3>6. ~Sorted /\ query.limit # NoLimit => Len(rows') < query.limit
      <4>1. Len(rows') = 0 BY <1>1, <1>3, EmptySeq
      <4> QED BY <1>1, <4>1, TypedQuery
    <3> HIDE DEF h, H
    <3> QED BY <1>3, <3>1, <3>2, <3>3, <3>4, <3>5, <3>6 DEF RowsInv
  <2> QED BY <2>1, <2>5, <2>7, <2>8 DEF QueryInv, AnswersSnapshot, FailsOnlyOnMixedTypes
<1> QED BY <1>4, <1>5

\* The head of the keys is the least of those still to be visited.
LEMMA NextKey ==
  ASSUME QueryInv, pc = "visit", keys # <<>>
  PROVE  LET k == Head(keys)
             S == CandidateKeys(snapshot, query.where)
         IN  /\ k \in S /\ k \in Keys /\ k \in Present(snapshot.data)
             /\ Tail(keys) \in Seq(Keys)
             /\ ToSet(keys) = {k} \cup ToSet(Tail(keys)) /\ k \notin ToSet(Tail(keys))
             /\ \A n \in DOMAIN Tail(keys) : k < Tail(keys)[n]
             /\ \A i, j \in DOMAIN Tail(keys) : i < j => Tail(keys)[i] < Tail(keys)[j]
             /\ \A x \in S \ ToSet(keys) : x < k /\ \A n \in DOMAIN Tail(keys) : x < Tail(keys)[n]
<1> DEFINE k == Head(keys)
           S == CandidateKeys(snapshot, query.where)
           t == Tail(keys)
           N == Len(keys)
<1>1. keys \in Seq(Keys) BY DEF QueryInv, QueryTyped
<1>2. N \in Nat /\ N > 0 /\ DOMAIN keys = 1..N /\ \A i \in 1..N : keys[i] \in Keys
  BY <1>1, EmptySeq, LenProperties
<1>3. t \in Seq(Keys) /\ Len(t) = N - 1 /\ \A i \in 1..(N - 1) : t[i] = keys[i + 1]
  <2>1. t \in Seq(Keys) /\ Len(t) = Len(keys) - 1 /\ \A i \in 1..Len(t) : t[i] = keys[i + 1]
    BY <1>1, HeadTailProperties
  <2> QED BY <2>1
<1>4. k = keys[1] BY <1>1
<1>5. DOMAIN t = 1..(N - 1) BY <1>3, LenProperties
<1> HIDE DEF k, t, N
<1>6. \A i, j \in 1..N : i < j => keys[i] < keys[j] BY <1>2 DEF QueryInv, AheadInv
<1>7. \A i \in 1..N : keys[i] \in Int BY <1>2, RecordAssumption
<1>8. ToSet(keys) = {keys[i] : i \in 1..N} /\ ToSet(t) = {keys[i + 1] : i \in 1..(N - 1)}
  BY <1>2, <1>3, <1>5 DEF ToSet
<1>9. ToSet(keys) = {k} \cup ToSet(t)
  <2>1. \A i \in 1..N : i = 1 \/ (i - 1 \in 1..(N - 1) /\ i = (i - 1) + 1) BY <1>2
  <2>2. 1 \in 1..N /\ \A i \in 1..(N - 1) : i + 1 \in 1..N BY <1>2
  <2>3. ToSet(keys) \subseteq {k} \cup ToSet(t) BY <1>4, <1>8, <2>1
  <2>4. {k} \cup ToSet(t) \subseteq ToSet(keys) BY <1>4, <1>8, <2>2
  <2> QED BY <2>3, <2>4
<1>10. \A n \in 1..(N - 1) : k < t[n] BY <1>2, <1>3, <1>4, <1>6
<1>11. k \notin ToSet(t)
  <2>1. k \in Int BY <1>2, <1>4, <1>7
  <2>2. \A n \in 1..(N - 1) : t[n] # k BY <2>1, <1>10
  <2> QED BY <2>2, <1>3, <1>8
<1>12. \A i, j \in 1..(N - 1) : i < j => t[i] < t[j] BY <1>2, <1>3, <1>6
<1>13. k \in S /\ k \in Keys /\ k \in Present(snapshot.data)
  <2>1. k \in ToSet(keys) BY <1>9
  <2> QED BY <2>1 DEF QueryInv, AheadInv, CandidateKeys, Present
<1>14. ASSUME NEW x \in S \ ToSet(keys) PROVE x < k /\ \A n \in 1..(N - 1) : x < t[n]
  <2>1. \A n \in 1..N : x < keys[n] BY <1>2 DEF QueryInv, AheadInv
  <2> QED BY <1>2, <1>3, <1>4, <2>1
<1> QED BY <1>3, <1>5, <1>9, <1>10, <1>11, <1>12, <1>13, <1>14 DEF k, t

\* A match is listed after the matches before it.
LEMMA NextRow ==
  ASSUME QueryInv, pc = "visit", keys # <<>>, Accept, Satisfies(snapshot.data[Head(keys)], query.where)
  PROVE  /\ rows' \in Seq([key : Keys, record : Records])
         /\ matched' = matched + 1
         /\ \E h \in [1..(matched + 1) -> Keys] :
              /\ Lists(h, Hits(snapshot, query) \ ToSet(Tail(keys)))
              /\ rows' = [n \in 1..(matched + 1 - Skipped) |-> Row(h[n + Skipped])]
         /\ Len(rows') = Len(rows) \/ Len(rows') = Len(rows) + 1
         /\ Len(rows') = IF matched < Skipped THEN 0 ELSE matched + 1 - Skipped
<1> DEFINE k == Head(keys)
           H == Hits(snapshot, query)
           S == CandidateKeys(snapshot, query.where)
           V == [key : Keys, record : Records]
<1>1. QueryTyped /\ pc # "idle" BY DEF QueryInv
<1>2. snapshot.data \in Contents /\ Skipped \in Nat /\ matched \in Nat /\ rows \in Seq(V)
  BY <1>1, TypedQuery DEF QueryTyped
<1>3. H \subseteq S BY <1>1, HitsAreCandidates
<1>4. /\ k \in Keys /\ k \in Present(snapshot.data)
      /\ ToSet(keys) = {k} \cup ToSet(Tail(keys)) /\ k \notin ToSet(Tail(keys))
      /\ \A x \in S \ ToSet(keys) : x < k
  BY NextKey
<1>5. k \in H BY <1>4 DEF Hits
<1>6. PICK h \in [1..matched -> Keys] :
        /\ Lists(h, H \ ToSet(keys))
        /\ rows = [n \in 1..(matched - Skipped) |-> Row(h[n + Skipped])]
  BY DEF QueryInv, RowsInv
<1> HIDE DEF k, H, S
<1> DEFINE g == [i \in 1..(matched + 1) |-> IF i <= matched THEN h[i] ELSE k]
<1>7. g \in [1..(matched + 1) -> Keys] BY <1>2, <1>4
<1>8. Lists(g, H \ ToSet(Tail(keys)))
  <2>1. {h[n] : n \in 1..matched} = H \ ToSet(keys) /\ \A i, j \in 1..matched : i < j => h[i] < h[j]
    BY <1>6 DEF Lists
  <2>2. H \ ToSet(Tail(keys)) = (H \ ToSet(keys)) \cup {k} BY <1>4, <1>5
  <2>3. \A i \in 1..matched : h[i] < k BY <1>3, <1>4, <2>1
  <2>4. DOMAIN g = 1..(matched + 1) /\ g[matched + 1] = k /\ \A i \in 1..matched : g[i] = h[i] /\ i \in 1..(matched + 1)
    BY <1>2
  <2>5. \A i \in 1..(matched + 1) : i = matched + 1 \/ i \in 1..matched BY <1>2
  <2> HIDE DEF g
  <2>6. {g[n] : n \in 1..(matched + 1)} \subseteq {h[n] : n \in 1..matched} \cup {k} BY <2>4, <2>5
  <2>7. {h[n] : n \in 1..matched} \cup {k} \subseteq {g[n] : n \in 1..(matched + 1)}
    <3>1. matched + 1 \in 1..(matched + 1) BY <1>2
    <3> QED BY <2>4, <3>1
  <2>8. \A i, j \in 1..(matched + 1) : i < j => g[i] < g[j]
    <3> SUFFICES ASSUME NEW i \in 1..(matched + 1), NEW j \in 1..(matched + 1), i < j PROVE g[i] < g[j]
      OBVIOUS
    <3>1. i \in 1..matched BY <1>2
    <3>2. CASE j \in 1..matched BY <2>1, <2>4, <3>1, <3>2
    <3>3. CASE j = matched + 1 BY <2>3, <2>4, <3>1, <3>3
    <3> QED BY <2>5, <3>2, <3>3
  <2> QED BY <2>1, <2>2, <2>4, <2>6, <2>7, <2>8 DEF Lists
<1>9. Row(k) \in V BY <1>2, <1>4, PresentRecord DEF Row, RecordOf
<1>10. matched' = matched + 1 /\ rows' = IF matched < Skipped THEN rows ELSE Append(rows, Row(k))
  <2>1. matched' = matched + 1
        /\ rows' = IF ~Sorted /\ matched < query.offset THEN rows ELSE Append(rows, Row(k))
    BY DEF Accept, k
  <2>2. matched < Skipped <=> ~Sorted /\ matched < query.offset BY <1>2 DEF Skipped
  <2> QED BY <2>1, <2>2
<1>11. DOMAIN rows = 1..(matched - Skipped) /\ \A n \in 1..(matched - Skipped) : rows[n] = Row(h[n + Skipped])
  BY <1>6
<1>12. Len(rows) = IF matched < Skipped THEN 0 ELSE matched - Skipped
  <2>1. DOMAIN rows = 1..Len(rows) /\ Len(rows) \in Nat BY <1>2, LenProperties
  <2> QED BY <1>2, <1>11, <2>1
<1>13. CASE matched < Skipped
  <2>1. rows' = rows BY <1>10, <1>13
  <2>2. 1..(matched - Skipped) = {} /\ 1..(matched + 1 - Skipped) = {} BY <1>2, <1>13
  <2>3. rows' = [n \in 1..(matched + 1 - Skipped) |-> Row(g[n + Skipped])]
    <3> HIDE DEF g
    <3> QED BY <1>6, <2>1, <2>2
  <2> HIDE DEF g
  <2> QED BY <1>2, <1>7, <1>8, <1>10, <1>12, <1>13, <2>1, <2>3 DEF H
<1>14. CASE ~(matched < Skipped)
  <2> DEFINE a == Append(rows, Row(k))
  <2>1. rows' = a BY <1>10, <1>14
  <2>2. /\ a \in Seq(V) /\ Len(a) = Len(rows) + 1
        /\ (\A i \in 1..Len(rows) : a[i] = rows[i]) /\ a[Len(rows) + 1] = Row(k)
    BY <1>2, <1>9, AppendProperties
  <2>3. DOMAIN a = 1..Len(a) BY <2>2, LenProperties
  <2> HIDE DEF a
  <2>4. DOMAIN a = 1..(matched + 1 - Skipped) BY <1>2, <1>12, <1>14, <2>2, <2>3
  <2>5. \A n \in 1..(matched + 1 - Skipped) : a[n] = Row(g[n + Skipped])
    <3> SUFFICES ASSUME NEW n \in 1..(matched + 1 - Skipped) PROVE a[n] = Row(g[n + Skipped])
      OBVIOUS
    <3>1. n + Skipped \in 1..(matched + 1) BY <1>2
    <3>2. CASE n <= matched - Skipped
      <4>1. n + Skipped <= matched /\ n \in 1..(matched - Skipped) /\ n \in 1..Len(rows)
        BY <1>2, <1>12, <1>14, <3>2
      <4>2. g[n + Skipped] = h[n + Skipped] BY <3>1, <4>1
      <4> QED BY <1>11, <2>2, <4>1, <4>2
    <3>3. CASE ~(n <= matched - Skipped)
      <4>1. n = Len(rows) + 1 /\ ~(n + Skipped <= matched) BY <1>2, <1>12, <1>14, <3>3
      <4>2. g[n + Skipped] = k BY <3>1, <4>1
      <4> QED BY <2>2, <4>1, <4>2
    <3> QED BY <3>2, <3>3
  <2>6. a = [n \in DOMAIN a |-> a[n]] BY <2>2
  <2>7. rows' = [n \in 1..(matched + 1 - Skipped) |-> Row(g[n + Skipped])]
    <3> HIDE DEF g
    <3> QED BY <2>1, <2>4, <2>5, <2>6
  <2> HIDE DEF g
  <2>8. rows' \in Seq(V) /\ matched' = matched + 1 BY <1>10, <2>1, <2>2
  <2>9. Len(rows') = Len(rows) + 1 BY <2>1, <2>2
  <2>10. Len(rows') = matched + 1 - Skipped BY <1>2, <1>12, <1>14, <2>9
  <2>11. \E h2 \in [1..(matched + 1) -> Keys] :
           /\ Lists(h2, Hits(snapshot, query) \ ToSet(Tail(keys)))
           /\ rows' = [n \in 1..(matched + 1 - Skipped) |-> Row(h2[n + Skipped])]
    BY <1>7, <1>8, <2>7 DEF H
  <2> QED BY <1>14, <2>8, <2>9, <2>10, <2>11
<1> QED BY <1>13, <1>14

LEMMA RowsListed ==
  ASSUME UNCHANGED <<snapshot, query>>, NEW h \in [1..matched' -> Keys],
         Lists(h, Hits(snapshot, query) \ ToSet(keys')),
         rows' = [n \in 1..(matched' - Skipped) |-> RowOf(snapshot.data, h[n + Skipped])],
         ~Sorted /\ query.limit # NoLimit => Len(rows') < query.limit
  PROVE  RowsInv'
<1>1. Skipped' = Skipped /\ Sorted' = Sorted BY DEF Skipped, Sorted
<1>2. \A k : Row(k)' = RowOf(snapshot.data, k) BY DEF Row, RecordOf, RowOf
<1>3. (Hits(snapshot, query) \ ToSet(keys))' = Hits(snapshot, query) \ ToSet(keys') OBVIOUS
<1>4. rows' = [n \in 1..(matched' - Skipped') |-> Row(h[n + Skipped])'] BY <1>1, <1>2
<1>5. /\ Lists(h, (Hits(snapshot, query) \ ToSet(keys))')
      /\ rows' = [n \in 1..(matched - Skipped) |-> Row(h[n + Skipped])]'
  BY <1>1, <1>3, <1>4
<1>6. (~Sorted /\ query.limit # NoLimit => Len(rows) < query.limit)' BY <1>1
<1> QED BY <1>5, <1>6 DEF RowsInv

LEMMA VisitKeeps ==
  ASSUME QueryInv, Visit
  PROVE  QueryInv'
<1> DEFINE k == Head(keys)
           d == snapshot.data
           w == query.where
           S == CandidateKeys(snapshot, w)
           H == Hits(snapshot, query)
           t == Tail(keys)
<1>1. QueryTyped /\ pc = "visit" /\ keys # <<>> BY DEF QueryInv, Visit
<1>2. /\ query \in Queries /\ w \in Filters /\ query.offset \in Nat /\ Skipped \in Nat
      /\ query.limit # NoLimit => query.limit \in Nat /\ query.limit > 0
      /\ d \in Contents
  BY <1>1, TypedQuery
<1>3. /\ k \in S /\ k \in Keys /\ k \in Present(d)
      /\ t \in Seq(Keys)
      /\ ToSet(keys) = {k} \cup ToSet(t) /\ k \notin ToSet(t)
      /\ \A n \in DOMAIN t : k < t[n]
      /\ \A i, j \in DOMAIN t : i < j => t[i] < t[j]
      /\ \A x \in S \ ToSet(keys) : x < k /\ \A n \in DOMAIN t : x < t[n]
  BY <1>1, NextKey
<1>4. d[k] \in Records /\ d[k] # Absent BY <1>2, <1>3, PresentRecord, RecordAssumption
<1>5. MatchesFilter(d[k], w) \in Verdicts BY <1>2, <1>4, MatchesUnfolds
<1>6. UNCHANGED <<encrypted, data, indexed, snapshot, query>> /\ keys' = t BY DEF Visit
<1>7. \/ MatchesFilter(d[k], w) = "yes" /\ Accept
      \/ MatchesFilter(d[k], w) = "no" /\ UNCHANGED <<matched, rows, pc>>
      \/ MatchesFilter(d[k], w) = "error" /\ pc' = "error" /\ UNCHANGED <<matched, rows>>
  BY <1>4, <1>5 DEF Visit, RecordOf, Verdicts
<1>8. MatchesFilter(d[k], w) # "error" => (MatchesFilter(d[k], w) = "yes" <=> k \in H)
  BY <1>2, <1>3, <1>4, VerdictMeans DEF Hits
<1>9. CandidateKeys(snapshot, query.where)' = S
  BY <1>6 DEF CandidateKeys, Selected, Usable, Lookup, IndexedKeys, EntryMatches, Present
<1>16. \A x : Row(x) = RowOf(d, x) BY DEF Row, RecordOf, RowOf
\* The visited candidates stay behind the keys ahead, none of them an error.
<1>11. ASSUME MatchesFilter(d[k], w) # "error"
       PROVE  /\ ToSet(t) \subseteq S
              /\ \A x \in S \ ToSet(t) : /\ \A n \in DOMAIN t : x < t[n]
                                         /\ MatchesFilter(d[x], w) # "error"
  <2>1. ToSet(t) \subseteq S BY <1>1, <1>3 DEF QueryInv, AheadInv
  <2>2. \A x \in S \ ToSet(keys) : MatchesFilter(d[x], w) # "error"
    BY <1>1 DEF QueryInv, AheadInv
  <2> HIDE DEF k, t, S
  <2> QED BY <1>3, <1>11, <2>1, <2>2
<1>12. MatchesFilter(d[k], w) # "error" => AheadInv'
  <2> HIDE DEF k, S, t
  <2> QED BY <1>3, <1>6, <1>9, <1>11 DEF AheadInv
<1>13. CASE MatchesFilter(d[k], w) = "error" /\ pc' = "error" /\ UNCHANGED <<matched, rows>>
  <2>1. QueryTyped' BY <1>1, <1>3, <1>6, <1>13 DEF QueryTyped
  <2>2. MixedTypes(d, w) BY <1>2, <1>3, <1>13, VerdictFailsOnMixedTypes
  <2>3. FailsOnlyOnMixedTypes' BY <1>6, <2>2 DEF FailsOnlyOnMixedTypes
  <2> QED BY <1>13, <2>1, <2>3 DEF QueryInv, AheadInv, RowsInv, AnswersSnapshot
<1>14. CASE MatchesFilter(d[k], w) = "no" /\ UNCHANGED <<matched, rows, pc>>
  <2>1. QueryTyped' BY <1>1, <1>3, <1>6, <1>14 DEF QueryTyped
  <2>2. H \ ToSet(t) = H \ ToSet(keys) BY <1>3, <1>8, <1>14
  <2>3. RowsInv'
    <3>1. PICK h \in [1..matched -> Keys] :
            /\ Lists(h, H \ ToSet(keys))
            /\ rows = [n \in 1..(matched - Skipped) |-> Row(h[n + Skipped])]
      BY <1>1 DEF QueryInv, RowsInv
    <3>2. ~Sorted /\ query.limit # NoLimit => Len(rows) < query.limit
      BY <1>1 DEF QueryInv, RowsInv
    <3>3. Lists(h, H \ ToSet(keys')) BY <1>6, <2>2, <3>1
    <3>4. rows' = [n \in 1..(matched' - Skipped) |-> RowOf(d, h[n + Skipped])] BY <1>14, <1>16, <3>1
    <3>5. h \in [1..matched' -> Keys] /\ UNCHANGED <<snapshot, query>> BY <1>6, <1>14
    <3>6. ~Sorted /\ query.limit # NoLimit => Len(rows') < query.limit BY <1>14, <3>2
    <3> QED BY <3>3, <3>4, <3>5, <3>6, RowsListed
  <2> QED BY <1>1, <1>12, <1>14, <2>1, <2>3 DEF QueryInv, AnswersSnapshot, FailsOnlyOnMixedTypes
<1>15. CASE MatchesFilter(d[k], w) = "yes" /\ Accept
  <2>1. /\ rows' \in Seq([key : Keys, record : Records])
        /\ matched' = matched + 1
        /\ \E h \in [1..(matched + 1) -> Keys] :
             /\ Lists(h, H \ ToSet(t))
             /\ rows' = [n \in 1..(matched + 1 - Skipped) |-> Row(h[n + Skipped])]
        /\ Len(rows') = Len(rows) \/ Len(rows') = Len(rows) + 1
        /\ Len(rows') = IF matched < Skipped THEN 0 ELSE matched + 1 - Skipped
    <3>1. Satisfies(d[k], w) BY <1>8, <1>15 DEF Hits
    <3> QED BY <1>1, <1>15, <3>1, NextRow
  <2>2. matched \in Nat BY <1>1 DEF QueryTyped
  <2>8. /\ Len(rows') = Len(rows) \/ Len(rows') = Len(rows) + 1
        /\ Len(rows') = IF matched < Skipped THEN 0 ELSE matched + 1 - Skipped
    BY <2>1
  <2>3. PICK h \in [1..(matched + 1) -> Keys] :
          /\ Lists(h, H \ ToSet(t))
          /\ rows' = [n \in 1..(matched + 1 - Skipped) |-> Row(h[n + Skipped])]
    BY <2>1
  <2>4. pc' = IF ~Sorted /\ query.limit # NoLimit /\ Len(rows') >= query.limit THEN "done" ELSE "visit"
    BY <1>1, <1>15 DEF Accept
  <2>5. QueryTyped' BY <1>1, <1>2, <1>3, <1>6, <2>1, <2>2, <2>4 DEF QueryTyped
  <2>6. CASE ~Sorted /\ query.limit # NoLimit /\ Len(rows') >= query.limit
    <3>1. pc' = "done" BY <2>4, <2>6
    <3>2. Len(rows) < query.limit BY <1>1, <2>6 DEF QueryInv, RowsInv
    <3>3. Len(rows) \in Nat BY <1>1, LenProperties DEF QueryTyped
    <3>4. matched + 1 = query.offset + query.limit /\ Skipped = query.offset
      <4>1. Skipped = query.offset BY <2>6 DEF Skipped
      <4>2. Len(rows') = query.limit BY <1>2, <2>6, <2>8, <3>2, <3>3
      <4> QED BY <1>2, <2>2, <2>6, <2>8, <4>1, <4>2
    <3>5. \A x \in H \ ToSet(t), y \in H \ (H \ ToSet(t)) : x < y
      <4>1. H \subseteq S BY <1>1, HitsAreCandidates
      <4>2. \A y \in ToSet(t) : \E n \in DOMAIN t : y = t[n] BY DEF ToSet
      <4>3. \A x \in S \ ToSet(t) : \A n \in DOMAIN t : x < t[n] BY <1>11, <1>15
      <4> HIDE DEF H, S, t
      <4> QED BY <4>1, <4>2, <4>3
    <3>6. query.sortBy = <<>> BY <2>6 DEF Sorted
    <3>7. Expected(snapshot, query)
            = [i \in 1..((matched + 1) - query.offset) |-> RowOf(d, h[i + query.offset])]
      <4>1. matched + 1 \in Nat BY <2>2
      <4>2. H \ ToSet(t) \in SUBSET H OBVIOUS
      <4>3. query.limit # NoLimit /\ matched + 1 = query.offset + query.limit BY <2>6, <3>4
      <4> DEFINE T == H \ ToSet(t)
                 m == matched + 1
      <4>4. Lists(h, T) /\ h \in [1..m -> Keys] BY <2>3
      <4> HIDE DEF T, m
      <4>5. T \in SUBSET H /\ \A x \in T, y \in H \ T : x < y BY <3>5, <4>2 DEF T
      <4>6. m \in Nat /\ query.limit # NoLimit /\ m = query.offset + query.limit
        BY <4>1, <4>3 DEF m
      <4>7. Expected(snapshot, query) = [i \in 1..(m - query.offset) |-> RowOf(d, h[i + query.offset])]
        <5>1. snapshot.data \in Contents /\ query \in Queries BY <1>2
        <5>2. T \in SUBSET Hits(snapshot, query) /\ \A x \in T, y \in Hits(snapshot, query) \ T : x < y
          BY <4>5
        <5>3. \/ query.limit # NoLimit /\ m = query.offset + query.limit
              \/ T = Hits(snapshot, query) /\ (query.limit # NoLimit => m <= query.offset + query.limit)
          BY <4>6
        <5> HIDE DEF H, d
        <5>4. IsAnswer(snapshot, query, h, m)
          BY <3>6, <4>4, <4>6, <5>1, <5>2, <5>3, UnsortedAnswer
        <5> QED BY <5>4 DEF d, IsAnswer
      <4> QED BY <4>7 DEF m
    <3>9. rows' = Expected(snapshot, query)
      <4>1. rows' = [n \in 1..((matched + 1) - query.offset) |-> Row(h[n + query.offset])]
        <5>1. Skipped = query.offset BY <3>4
        <5>2. rows' = [n \in 1..(matched + 1 - Skipped) |-> Row(h[n + Skipped])] BY <2>3
        <5> QED BY <1>2, <2>2, <5>1, <5>2
      <4> QED BY <1>2, <1>16, <2>2, <3>7, <4>1
    <3>10. AnswersSnapshot' BY <1>6, <3>9 DEF AnswersSnapshot
    <3> QED BY <2>5, <3>1, <3>10 DEF QueryInv, AheadInv, RowsInv, FailsOnlyOnMixedTypes
  <2>7. CASE ~(~Sorted /\ query.limit # NoLimit /\ Len(rows') >= query.limit)
    <3>1. pc' = "visit" BY <2>4, <2>7
    <3>2. ~Sorted /\ query.limit # NoLimit => Len(rows') < query.limit
      <4>1. Len(rows') \in Nat BY <2>1, LenProperties
      <4> QED BY <1>2, <2>7, <4>1
    <3>3. RowsInv'
      <4>1. Lists(h, H \ ToSet(keys')) BY <1>6, <2>3
      <4>4. matched' = matched + 1 BY <2>1
      <4>2. rows' = [n \in 1..(matched' - Skipped) |-> RowOf(d, h[n + Skipped])] 
        <5>1. rows' = [n \in 1..(matched + 1 - Skipped) |-> Row(h[n + Skipped])] BY <2>3
        <5> QED BY <1>2, <2>2, <1>16, <4>4, <5>1
      <4>3. h \in [1..matched' -> Keys] /\ UNCHANGED <<snapshot, query>> BY <1>6, <4>4
      <4> QED BY <3>2, <4>1, <4>2, <4>3, RowsListed
    <3> QED BY <1>12, <1>15, <2>5, <3>1, <3>3 DEF QueryInv, AnswersSnapshot, FailsOnlyOnMixedTypes
  <2> QED BY <2>6, <2>7
<1> QED BY <1>7, <1>13, <1>14, <1>15

LEMMA OrderKeeps ==
  ASSUME QueryInv, Order
  PROVE  QueryInv'
<1> DEFINE d == snapshot.data
           H == Hits(snapshot, query)
           V == [key : Keys, record : Records]
<1>1. QueryTyped /\ pc = "visit" /\ keys = <<>> BY DEF QueryInv, Order
<1>2. /\ query \in Queries /\ query.offset \in Nat /\ Skipped \in Nat /\ query.sortBy \in Seq(Sorts)
      /\ query.limit # NoLimit => query.limit \in Nat /\ query.limit > 0
      /\ d \in Contents /\ matched \in Nat
  BY <1>1, TypedQuery DEF QueryTyped
<1>3. UNCHANGED <<encrypted, data, indexed, snapshot, query, keys, matched>> BY DEF Order
<1>4. PICK h \in [1..matched -> Keys] :
        Lists(h, H) /\ rows = [n \in 1..(matched - Skipped) |-> Row(h[n + Skipped])]
  <2>1. ToSet(keys) = {} BY <1>1 DEF ToSet
  <2> QED BY <1>1, <2>1 DEF QueryInv, RowsInv
<1>5. \A x : Row(x) = RowOf(d, x) BY DEF Row, RecordOf, RowOf
<1>6. DOMAIN rows = 1..(matched - Skipped) /\ \A n \in 1..(matched - Skipped) : rows[n] = RowOf(d, h[n + Skipped])
  BY <1>4, <1>5
<1>7. rows \in Seq(V) /\ DOMAIN rows = 1..Len(rows) /\ Len(rows) \in Nat
  BY <1>1, LenProperties DEF QueryTyped
<1>8. H \in SUBSET Present(d) BY DEF Hits
<1>9. CASE ~Sorted
  <2>1. pc' = "done" /\ rows' = rows BY <1>9 DEF Order
  <2>2. QueryTyped' BY <1>1, <1>3, <2>1 DEF QueryTyped
  <2>3. Skipped = query.offset /\ query.sortBy = <<>> BY <1>9 DEF Skipped, Sorted
  <2>4. query.limit # NoLimit => matched <= query.offset + query.limit
    <3> SUFFICES ASSUME query.limit # NoLimit PROVE matched <= query.offset + query.limit
      OBVIOUS
    <3>1. Len(rows) < query.limit BY <1>1, <1>9 DEF QueryInv, RowsInv
    <3>2. 1..Len(rows) = 1..(matched - query.offset) BY <1>6, <1>7, <2>3
    <3>3. matched - query.offset <= Len(rows)
      <4> SUFFICES ASSUME matched - query.offset > 0 PROVE matched - query.offset <= Len(rows)
        BY <1>2, <1>7
      <4>1. matched - query.offset \in 1..(matched - query.offset) BY <1>2
      <4> QED BY <1>7, <3>2, <4>1
    <3> QED BY <1>2, <1>7, <3>1, <3>3
  <2>5. IsAnswer(snapshot, query, h, matched)
    <3>1. snapshot.data \in Contents /\ query \in Queries /\ matched \in Nat BY <1>2
    <3> DEFINE T == H
    <3>2. T \in SUBSET Hits(snapshot, query) /\ \A x \in T, y \in Hits(snapshot, query) \ T : x < y
      OBVIOUS
    <3>3. Lists(h, T) BY <1>4
    <3>4. \/ query.limit # NoLimit /\ matched = query.offset + query.limit
          \/ T = Hits(snapshot, query) /\ (query.limit # NoLimit => matched <= query.offset + query.limit)
      BY <2>4
    <3> HIDE DEF T, H, d
    <3> QED BY <2>3, <3>1, <3>2, <3>3, <3>4, UnsortedAnswer
  <2>6. rows' = Expected(snapshot, query)
    <3>1. rows = [n \in 1..(matched - query.offset) |-> Row(h[n + query.offset])]
      BY <1>2, <1>4, <2>3
    <3> QED BY <1>2, <1>5, <2>1, <2>5, <3>1 DEF IsAnswer
  <2>7. AnswersSnapshot' BY <1>3, <2>6 DEF AnswersSnapshot
  <2> QED BY <2>1, <2>2, <2>7 DEF QueryInv, AheadInv, RowsInv, FailsOnlyOnMixedTypes
<1>10. CASE Sorted /\ SortRefused(rows, query.sortBy)
  <2>1. pc' = "error" /\ rows' = rows BY <1>10 DEF Order
  <2>2. QueryTyped' BY <1>1, <1>3, <2>1 DEF QueryTyped
  <2>3. FailsOnlyOnMixedTypes'
    <3>1. SortRefused(rows', query.sortBy) BY <1>10, <2>1
    <3> QED BY <1>3, <3>1 DEF FailsOnlyOnMixedTypes
  <2> QED BY <2>1, <2>2, <2>3 DEF QueryInv, AheadInv, RowsInv, AnswersSnapshot
<1>11. CASE Sorted /\ ~SortRefused(rows, query.sortBy)
  <2> DEFINE sorts == query.sortBy
             T == ToSet(rows)
             n == Cardinality(H)
             f == KeyOrder(d, H, sorts)
             g == Ascending(T, LAMBDA a, b : SortsBefore(a, b, sorts))
  <2>1. pc' = "done" /\ rows' = Page(g, query) BY <1>11 DEF Order
  <2>2. Skipped = 0 BY <1>11 DEF Skipped
  <2>3. DOMAIN rows = 1..matched /\ \A i \in 1..matched : rows[i] = RowOf(d, h[i])
    BY <1>2, <1>6, <2>2
  <2>4. {h[i] : i \in 1..matched} = H BY <1>4 DEF Lists
  <2>5. \A x : x \in T <=> \E k \in H : x = RowOf(d, k)
    <3> HIDE DEF H
    <3> QED BY <2>3, <2>4 DEF ToSet
  <2>6. \A k \in H, c \in DOMAIN sorts : SortValue(d[k], sorts[c]).kind # "error"
    <3> SUFFICES ASSUME NEW k \in H, NEW c \in DOMAIN sorts PROVE SortValue(d[k], sorts[c]).kind # "error"
      OBVIOUS
    <3>1. PICK i \in 1..matched : h[i] = k
      <4> HIDE DEF H
      <4> QED BY <2>4
    <3>2. i \in DOMAIN rows /\ rows[i].record = d[k] BY <2>3, <3>1 DEF RowOf
    <3>3. "error" \notin {SortValue(rows[j].record, sorts[c]).kind : j \in DOMAIN rows}
      BY <1>11 DEF SortRefused, Columns
    <3> QED BY <3>2, <3>3
  <2>7. g = [i \in 1..n |-> RowOf(d, f[i])]
    <3> HIDE DEF H, T, d
    <3> QED BY <1>2, <1>8, <2>5, <2>6, RowsAscending
  <2>8. n \in Nat /\ f \in [1..n -> H]
    <3> HIDE DEF H, d
    <3> QED BY <1>2, <1>8, KeyOrderLists
  <2> HIDE DEF g, f, n
  <2>9. g \in Seq(V) /\ Len(g) = n
    <3>1. \A k \in H : RowOf(d, k) \in V
      <4> SUFFICES ASSUME NEW k \in H PROVE RowOf(d, k) \in V OBVIOUS
      <4>1. k \in Present(d) BY <1>8
      <4> QED BY <1>2, <4>1, PresentRecord DEF RowOf
    <3>2. \A i \in 1..n : f[i] \in H BY <2>8
    <3> HIDE DEF H, d, V
    <3>3. g \in [1..n -> V] BY <2>7, <3>1, <3>2
    <3>4. g \in Seq(V) /\ DOMAIN g = 1..n BY <2>8, <3>3
    <3>5. DOMAIN g = 1..Len(g) /\ Len(g) \in Nat BY <3>4, LenProperties
    <3> QED BY <2>8, <3>4, <3>5
  <2>10. /\ rows' \in Seq(V)
         /\ rows' = [i \in 1..(LastOf(n, query) - query.offset) |-> g[i + query.offset]]
    <3> HIDE DEF V
    <3> QED BY <1>2, <2>1, <2>9, PageRows
  <2>11. rows' = Expected(snapshot, query)
    <3>1. LastOf(n, query) \in Nat /\ LastOf(n, query) <= n BY <1>2, <2>8, LastValue
    <3>2. \A i \in 1..(LastOf(n, query) - query.offset) : g[i + query.offset] = RowOf(d, f[i + query.offset])
      BY <1>2, <2>7, <2>8, <3>1
    <3>3. Expected(snapshot, query)
            = [i \in 1..(LastOf(n, query) - query.offset) |-> RowOf(d, f[i + query.offset])]
      BY <1>2, ExpectedRows DEF n, f
    <3> QED BY <1>2, <2>10, <3>1, <3>2, <3>3
  <2>12. QueryTyped' BY <1>1, <1>3, <2>1, <2>10 DEF QueryTyped
  <2>13. AnswersSnapshot' BY <1>3, <2>11 DEF AnswersSnapshot
  <2> QED BY <2>1, <2>12, <2>13 DEF QueryInv, AheadInv, RowsInv, FailsOnlyOnMixedTypes
<1> QED BY <1>9, <1>10, <1>11

-----------------------------------------------------------------------------
LEMMA QueryInductive == QueryInv /\ [Next]_vars => QueryInv'
<1> SUFFICES ASSUME QueryInv, [Next]_vars PROVE QueryInv' OBVIOUS
<1>1. CASE UNCHANGED vars
  <2>1. data' \in Contents /\ indexed' \subseteq Fields BY <1>1 DEF vars, QueryInv, QueryTyped
  <2>2. UNCHANGED <<encrypted, snapshot, query, pc, keys, matched, rows>> BY <1>1 DEF vars
  <2> QED BY <2>1, <2>2, OthersKeep
<1>2. ASSUME NEW k \in Keys, NEW r \in Records \cup {Absent}, Write(k, r) PROVE QueryInv'
  BY <1>2, WriteKeeps
<1>3. ASSUME NEW f \in Fields, ToggleIndex(f) PROVE QueryInv' BY <1>3, ToggleIndexKeeps
<1>4. ASSUME NEW q \in Queries, BeginQuery(q) PROVE QueryInv' BY <1>4, BeginQueryKeeps
<1>5. CASE Plan BY <1>5, PlanKeeps
<1>6. CASE Visit BY <1>6, VisitKeeps
<1>7. CASE Order BY <1>7, OrderKeeps
<1>8. CASE EndQuery BY <1>8, EndQueryKeeps
<1> QED BY <1>1, <1>2, <1>3, <1>4, <1>5, <1>6, <1>7, <1>8 DEF Next

LEMMA QueryInvariant == Spec => []QueryInv
<1>1. Init => QueryInv BY InitKeeps
<1>2. QueryInv /\ [Next]_vars => QueryInv' BY QueryInductive
<1> QED BY <1>1, <1>2, PTL DEF Spec

\* A query that answers gives exactly the page of the records its filter
\* accepts in one committed version of the box, in the order asked for, however
\* the planner narrowed and whatever is committed meanwhile (core.rs query).
THEOREM QueryAnswersSnapshot == Spec => []AnswersSnapshot
<1>1. QueryInv => AnswersSnapshot BY DEF QueryInv
<1> QED BY <1>1, QueryInvariant, PTL

\* A query fails only where the filter or the sort meets values it cannot
\* order (index.rs lookup_candidate, query.rs compare and validate_sort_rows).
THEOREM QueryFailsOnMixedTypes == Spec => []FailsOnlyOnMixedTypes
<1>1. QueryInv => FailsOnlyOnMixedTypes BY DEF QueryInv
<1> QED BY <1>1, QueryInvariant, PTL
=============================================================================
