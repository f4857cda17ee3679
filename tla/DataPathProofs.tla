---------------------------- MODULE DataPathProofs ----------------------------
(***************************************************************************)
(* What MCDataPath checks of numbers, of batch reads, of the wire format   *)
(* and of the query builders on one instance, for every instance: at any   *)
(* width of integers and fineness of fractions comparisons follow the real *)
(* numbers and canonical tokens decide equality, so an encrypted index     *)
(* finds what a scan finds; a batch read answers from one commit, for any  *)
(* number of readers, keys, requests, passwords, files and commits; values *)
(* of any depth read back as they were stored, with the three readers of   *)
(* the wire format in agreement; and a query reaches the engine as it was  *)
(* built, means what its calls say from left to right, and can be run,     *)
(* whatever was sent.                                                      *)
(***************************************************************************)
EXTENDS NumericOrder, BoxReads, WireCodec, QueryBuilders, FoldTheorems,
        FiniteSetTheorems, SequenceTheorems, TLAPS

-----------------------------------------------------------------------------
(* The order of finite numbers is lexicographic in integral part and       *)
(* fraction, since the fraction has the sign of the number.                *)

LEMMA Scaling ==
  ASSUME NEW m \in Int, NEW n \in Int, m < n
  PROVE  Parts * m + Parts <= Parts * n
<1> DEFINE d == n - m - 1
<1>1. d \in Nat /\ n = m + 1 + d
  OBVIOUS
<1>2. Parts * n = Parts * m + Parts + Parts * d
  BY <1>1, PartsAssumption
<1>3. Parts * d \in Nat
  BY <1>1, PartsAssumption
<1> QED BY <1>2, <1>3, PartsAssumption

LEMMA Shape ==
  ASSUME NEW x \in AllNumbers
  PROVE  /\ x.whole \in Int /\ x.part \in Int
         /\ 1 - Parts <= x.part /\ x.part <= Parts - 1
         /\ x.whole > 0 => x.part >= 0
         /\ x.whole < 0 => x.part <= 0
         /\ x = [t |-> x.t, whole |-> x.whole, part |-> x.part]
         /\ x.t \in {"int", "float", "nan", "+inf", "-inf", "-0.0"}
         /\ x.t = "int" => -Half <= x.whole /\ x.whole < 2 * Half /\ x.part = 0
         /\ x.t \notin {"int", "float"} => x.whole = 0 /\ x.part = 0
<1>1. CASE x \in Integers64
  BY <1>1, HalfAssumption, PartsAssumption DEF Integers64
<1>2. CASE x \in Doubles
  BY <1>2, PartsAssumption DEF Doubles
<1>3. CASE x \in {NaN, PosInf, NegInf, NegZero}
  BY <1>3, PartsAssumption DEF NaN, PosInf, NegInf, NegZero, Special
<1> QED BY <1>1, <1>2, <1>3 DEF AllNumbers

LEMMA FiniteBelow ==
  ASSUME NEW x \in AllNumbers, NEW y \in AllNumbers, x.whole < y.whole
  PROVE  Value(x) < Value(y)
<1>1. Parts * x.whole + Parts <= Parts * y.whole
  BY Scaling, Shape
<1>2. x.part - y.part < Parts
  BY Shape, PartsAssumption
<1>3. Parts * x.whole \in Int /\ Parts * y.whole \in Int
  BY Shape, PartsAssumption
<1> QED BY <1>1, <1>2, <1>3, Shape, PartsAssumption DEF Value

LEMMA FiniteOrder ==
  ASSUME NEW x \in AllNumbers, NEW y \in AllNumbers
  PROVE  Cmp(Value(x), Value(y)) =
           IF x.whole # y.whole THEN Cmp(x.whole, y.whole) ELSE Cmp(x.part, y.part)
<1>0. Value(x) \in Int /\ Value(y) \in Int
  BY Shape, PartsAssumption DEF Value
<1>1. CASE x.whole < y.whole
  BY <1>0, <1>1, FiniteBelow, Shape DEF Cmp
<1>2. CASE y.whole < x.whole
  BY <1>0, <1>2, FiniteBelow, Shape DEF Cmp
<1>3. CASE x.whole = y.whole
  <2>1. Parts * x.whole \in Int
    BY Shape, PartsAssumption
  <2> QED BY <1>3, <2>1, Shape DEF Cmp, Value
<1> QED BY <1>1, <1>2, <1>3, Shape

-----------------------------------------------------------------------------
(* compare_i64_f64 and compare_u64_f64 are exact at every boundary.        *)

LEMMA SignedAgainstDouble ==
  ASSUME NEW x \in AllNumbers, NEW y \in AllNumbers,
         x.t = "int", x.whole < Half, y.t # "int"
  PROVE  CompareI64F64(x.whole, y) = Exact(x, y)
<1>1. CASE y.t \in {"nan", "+inf", "-inf"}
  BY <1>1 DEF CompareI64F64, Exact, Finite
<1>2. CASE y.t \notin {"nan", "+inf", "-inf"}
  <2>1. Exact(x, y) = IF x.whole # y.whole THEN Cmp(x.whole, y.whole) ELSE Cmp(x.part, y.part)
    BY <1>2, FiniteOrder, Shape DEF Exact, Finite
  <2> QED BY <1>2, <2>1, Shape, HalfAssumption DEF CompareI64F64, Cmp, Saturate, AgainstTruncated
<1> QED BY <1>1, <1>2

LEMMA UnsignedAgainstDouble ==
  ASSUME NEW x \in AllNumbers, NEW y \in AllNumbers,
         x.t = "int", x.whole >= Half, y.t # "int"
  PROVE  CompareU64F64(x.whole, y) = Exact(x, y)
<1>1. CASE y.t \in {"nan", "+inf", "-inf"}
  BY <1>1 DEF CompareU64F64, Exact, Finite
<1>2. CASE y.t \notin {"nan", "+inf", "-inf"}
  <2>1. Exact(x, y) = IF x.whole # y.whole THEN Cmp(x.whole, y.whole) ELSE Cmp(x.part, y.part)
    BY <1>2, FiniteOrder, Shape DEF Exact, Finite
  <2> QED BY <1>2, <2>1, Shape, HalfAssumption DEF CompareU64F64, Cmp, Saturate, AgainstTruncated
<1> QED BY <1>1, <1>2

LEMMA DoubleAgainstDouble ==
  ASSUME NEW x \in AllNumbers, NEW y \in AllNumbers, x.t # "int", y.t # "int"
  PROVE  CompareF64(x, y) = Exact(x, y)
<1>1. CASE Finite(x) /\ Finite(y)
  BY <1>1, FiniteOrder, Shape DEF CompareF64, Exact, Finite
<1>2. CASE ~(Finite(x) /\ Finite(y))
  BY <1>2, Shape DEF CompareF64, Exact, Finite
<1> QED BY <1>1, <1>2

LEMMA ExactReversed ==
  ASSUME NEW x \in AllNumbers, NEW y \in AllNumbers
  PROVE  ReverseOrdering(Exact(x, y)) = Exact(y, x)
<1>1. CASE Finite(x) /\ Finite(y)
  <2>1. Value(x) \in Int /\ Value(y) \in Int
    BY Shape, PartsAssumption DEF Value
  <2> QED BY <1>1, <2>1 DEF Exact, Finite, ReverseOrdering, Cmp
<1>2. CASE ~(Finite(x) /\ Finite(y))
  BY <1>2, Shape DEF Exact, Finite, ReverseOrdering
<1> QED BY <1>1, <1>2

\* Every comparison of two numbers of the wire is the comparison of the reals
\* they stand for: nothing is lost where an integer becomes a double or a double
\* an integer (query.rs, compare_numeric).
THEOREM CompareIsExact ==
  ASSUME NEW x \in AllNumbers, NEW y \in AllNumbers
  PROVE  CompareNumeric(x, y) = Exact(x, y)
<1>1. CASE x.t = "int" /\ y.t = "int"
  <2>1. Exact(x, y) = Cmp(x.whole, y.whole)
    BY <1>1, FiniteOrder, Shape DEF Exact, Finite, Cmp
  <2> QED BY <1>1, <2>1, Shape, HalfAssumption DEF CompareNumeric, AsNumeric, Cmp, ReverseOrdering
<1>2. CASE x.t = "int" /\ y.t # "int"
  <2>1. CASE x.whole < Half
    BY <1>2, <2>1, SignedAgainstDouble DEF CompareNumeric, AsNumeric
  <2>2. CASE ~(x.whole < Half)
    <3>1. x.whole >= Half
      BY <2>2, Shape, HalfAssumption
    <3> QED BY <1>2, <2>2, <3>1, UnsignedAgainstDouble DEF CompareNumeric, AsNumeric
  <2> QED BY <2>1, <2>2
<1>3. CASE x.t # "int" /\ y.t = "int"
  <2>1. CASE y.whole < Half
    <3>1. CompareNumeric(x, y) = ReverseOrdering(CompareI64F64(y.whole, x))
      BY <1>3, <2>1 DEF CompareNumeric, AsNumeric
    <3> QED BY <1>3, <2>1, <3>1, SignedAgainstDouble, ExactReversed
  <2>2. CASE ~(y.whole < Half)
    <3>1. CompareNumeric(x, y) = ReverseOrdering(CompareU64F64(y.whole, x))
      BY <1>3, <2>2 DEF CompareNumeric, AsNumeric
    <3>2. y.whole >= Half
      BY <2>2, Shape, HalfAssumption
    <3> QED BY <1>3, <3>1, <3>2, UnsignedAgainstDouble, ExactReversed
  <2> QED BY <2>1, <2>2
<1>4. CASE x.t # "int" /\ y.t # "int"
  BY <1>4, DoubleAgainstDouble DEF CompareNumeric, AsNumeric
<1> QED BY <1>1, <1>2, <1>3, <1>4

-----------------------------------------------------------------------------
(* Canonical tokens.                                                       *)

\* canonical_equality_scalar: two numbers have one token exactly when they are
\* equal as reals; only a NaN has a token and no equal (index_token.rs).
THEOREM TokensDecideEquality ==
  ASSUME NEW x \in AllNumbers, NEW y \in AllNumbers, y # NaN
  PROVE  Token(x) = Token(y) <=> ValuesEqual(x, y)
<1> DEFINE AsInteger(z) ==
      \/ z.t = "int"
      \/ z.t \in {"float", "-0.0"} /\ z.part = 0 /\ -Half <= z.whole /\ z.whole < 2 * Half
<1>0. ValuesEqual(x, y) <=> Exact(x, y) = "equal"
  BY CompareIsExact DEF ValuesEqual
<1>1. y.t # "nan"
  BY Shape DEF NaN, Special
<1>2. \A m, n : PushInteger(m) = PushInteger(n) <=> m = n
  <2> SUFFICES ASSUME NEW m, NEW n, PushInteger(m) = PushInteger(n) PROVE m = n
    OBVIOUS
  <2> QED BY DEF PushInteger
<1>3. \A m, z : PushInteger(m) # PushBits(z)
  <2> SUFFICES ASSUME NEW m, NEW z, PushInteger(m) = PushBits(z) PROVE FALSE
    OBVIOUS
  <2>1. PushInteger(m).tag = PushBits(z).tag
    OBVIOUS
  <2> QED BY <2>1 DEF PushInteger, PushBits
<1>4. PushBits(x) = PushBits(y) <=> x = y
  <2> SUFFICES ASSUME PushBits(x) = PushBits(y) PROVE x = y
    OBVIOUS
  <2> QED BY DEF PushBits
<1>5. Finite(x) /\ Finite(y) =>
        (Exact(x, y) = "equal" <=> x.whole = y.whole /\ x.part = y.part)
  BY FiniteOrder, Shape DEF Exact, Finite, Cmp
<1>6. CASE AsInteger(x) /\ AsInteger(y)
  <2>1. x.part = 0 /\ y.part = 0 /\ Finite(x) /\ Finite(y)
    BY <1>6, Shape DEF Finite
  <2>2. Token(x) = PushInteger(x.whole) /\ Token(y) = PushInteger(y.whole)
    BY <1>6 DEF Token
  <2> QED BY <1>0, <1>2, <1>5, <2>1, <2>2
<1>7. CASE AsInteger(x) /\ ~AsInteger(y)
  <2>1. Token(x) = PushInteger(x.whole) /\ Token(y) = PushBits(y)
    BY <1>7 DEF Token
  <2>2. Exact(x, y) # "equal"
    <3>1. CASE Finite(y)
      BY <1>5, <1>7, <3>1, Shape DEF Finite
    <3>2. CASE ~Finite(y)
      BY <1>7, <3>2, Shape DEF Exact, Finite
    <3> QED BY <3>1, <3>2
  <2> QED BY <1>0, <1>3, <2>1, <2>2
<1>8. CASE ~AsInteger(x) /\ AsInteger(y)
  <2>1. Token(x) = PushBits(x) /\ Token(y) = PushInteger(y.whole)
    BY <1>8 DEF Token
  <2>2. Exact(x, y) # "equal"
    <3>1. CASE Finite(x)
      BY <1>5, <1>8, <3>1, Shape DEF Finite
    <3>2. CASE ~Finite(x)
      BY <1>8, <3>2, Shape DEF Exact, Finite
    <3> QED BY <3>1, <3>2
  <2>3. Token(x) # Token(y)
    BY <1>3, <2>1
  <2> QED BY <1>0, <2>2, <2>3
<1>9. CASE ~AsInteger(x) /\ ~AsInteger(y)
  <2>1. Token(x) = PushBits(x) /\ Token(y) = PushBits(y)
    BY <1>9 DEF Token
  <2>2. Exact(x, y) = "equal" <=> x = y
    <3>1. CASE Finite(x) /\ Finite(y)
      <4>1. x.t = "float" /\ y.t = "float"
        BY <1>9, <3>1, Shape, HalfAssumption DEF Finite
      <4> QED BY <1>5, <3>1, <4>1, Shape
    <3>2. CASE ~(Finite(x) /\ Finite(y))
      BY <1>1, <3>2, Shape DEF Exact, Finite
    <3> QED BY <3>1, <3>2
  <2> QED BY <1>0, <1>4, <2>1, <2>2
<1> QED BY <1>6, <1>7, <1>8, <1>9

-----------------------------------------------------------------------------
(* The index of a box.                                                     *)

LEMMA StepKeepsIndex == IndexInStep /\ [NumbersNext]_numberVars => IndexInStep'
<1> SUFFICES ASSUME IndexInStep, [NumbersNext]_numberVars PROVE IndexInStep'
  OBVIOUS
<1> USE DEF IndexInStep
<1>1. ASSUME NEW k \in RecordIds, NEW x \in Numbers, PutNumber(k, x)
      PROVE  IndexInStep'
  <2>1. data' \in [RecordIds -> Numbers \cup {NoNumber}]
    BY <1>1 DEF PutNumber
  <2>2. data'[k] = x /\ \A j \in RecordIds \ {k} : data'[j] = data[j]
    BY <1>1 DEF PutNumber
  <2>3. \A j \in RecordIds : \A e : e \in EntriesOf(j, data[j]) => e.key = j
    BY DEF EntriesOf
  <2>4. entries' = UNION {EntriesOf(j, data'[j]) : j \in RecordIds}
    BY <1>1, <2>2, <2>3 DEF PutNumber
  <2> QED BY <2>1, <2>4
<1>2. ASSUME NEW k \in RecordIds, DeleteNumber(k)
      PROVE  IndexInStep'
  <2>1. data' \in [RecordIds -> Numbers \cup {NoNumber}]
    BY <1>2 DEF DeleteNumber
  <2>2. EntriesOf(k, data'[k]) = {} /\ \A j \in RecordIds \ {k} : data'[j] = data[j]
    BY <1>2 DEF DeleteNumber, EntriesOf
  <2>3. \A j \in RecordIds : \A e : e \in EntriesOf(j, data[j]) => e.key = j
    BY DEF EntriesOf
  <2>4. entries' = UNION {EntriesOf(j, data'[j]) : j \in RecordIds}
    BY <1>2, <2>2, <2>3 DEF DeleteNumber
  <2> QED BY <2>1, <2>4
<1>3. CASE UNCHANGED numberVars
  BY <1>3 DEF numberVars
<1> QED BY <1>1, <1>2, <1>3 DEF NumbersNext

\* Every history of puts and deletes leaves exactly the entries of the records
\* (maintain_put and maintain_delete of index.rs).
THEOREM IndexAlwaysInStep == NumbersSpec => []IndexInStep
<1>1. NumbersInit => IndexInStep
  BY DEF NumbersInit, IndexInStep, EntriesOf
<1> QED BY <1>1, StepKeepsIndex, PTL DEF NumbersSpec

\* Range filters and sorts follow the real numbers, whatever records are stored.
THEOREM SortAlwaysFollowsReals == NumbersSpec => []SortFollowsReals
<1>1. IndexInStep => SortFollowsReals
  BY CompareIsExact, NumbersAssumption DEF IndexInStep, SortFollowsReals
<1> QED BY <1>1, IndexAlwaysInStep, PTL

\* An encrypted equality lookup finds what a scan finds, whatever records are
\* stored and whatever encodings they and the query have.
THEOREM LookupAlwaysFindsAll == NumbersSpec => []LookupFindsAll
<1>1. IndexInStep => LookupFindsAll
  <2> SUFFICES ASSUME IndexInStep, NEW y \in Numbers
               PROVE  Scan(y) \subseteq Lookup(y) /\ (y # NaN => Lookup(y) = Scan(y))
    BY DEF LookupFindsAll
  <2>1. \A k \in RecordIds : data[k] # NoNumber => data[k] \in AllNumbers
    BY NumbersAssumption DEF IndexInStep
  <2>2. \A k \in RecordIds : k \in Lookup(y) <=> data[k] # NoNumber /\ Token(data[k]) = Token(y)
    <3> TAKE k \in RecordIds
    <3>1. [token |-> Token(y), key |-> k] \in entries
            <=> \E j \in RecordIds : [token |-> Token(y), key |-> k] \in EntriesOf(j, data[j])
      BY DEF IndexInStep
    <3>2. \A j \in RecordIds : [token |-> Token(y), key |-> k] \in EntriesOf(j, data[j])
            <=> data[j] # NoNumber /\ j = k /\ Token(data[j]) = Token(y)
      BY DEF EntriesOf
    <3> QED BY <3>1, <3>2 DEF Lookup
  <2>3. CASE y = NaN
    <3>1. \A k \in RecordIds : data[k] # NoNumber => ~ValuesEqual(data[k], y)
      BY <2>1, <2>3, CompareIsExact, NumbersAssumption DEF ValuesEqual, Exact, NaN, Special
    <3> QED BY <2>3, <3>1 DEF Scan
  <2>4. CASE y # NaN
    <3>1. \A k \in RecordIds : data[k] # NoNumber => (Token(data[k]) = Token(y) <=> ValuesEqual(data[k], y))
      BY <2>1, <2>4, TokensDecideEquality, NumbersAssumption
    <3> QED BY <2>2, <2>4, <3>1 DEF Scan, Lookup
  <2> QED BY <2>3, <2>4
<1> QED BY <1>1, IndexAlwaysInStep, PTL

-----------------------------------------------------------------------------
(* A batch read answers from one commit.                                   *)

LEMMA ListedSet ==
  ASSUME NEW S, IsFiniteSet(S)
  PROVE  SetToSeq(S) \in Seq(S) /\ ToSet(SetToSeq(S)) = S
  <1> DEFINE n == Cardinality(S)
             f == SetToSeq(S)
  <1>1. n \in Nat /\ ExistsBijection(1..n, S)
    BY FS_CardinalityType
  <1>2. \E g \in [1..n -> S] : IsInjective(g)
    BY <1>1 DEF ExistsBijection, Bijection, Injection, IsInjective
  <1>3. f \in [1..n -> S] /\ IsInjective(f)
    BY <1>2 DEF SetToSeq
  <1>4. f \in Seq(S) /\ DOMAIN f = 1..n
    BY <1>1, <1>3, SeqDef
  <1>5. f \in Injection(1..n, S)
    BY <1>3 DEF Injection, IsInjective
  <1>6. IsFiniteSet(1..n) /\ Cardinality(1..n) = n
    BY <1>1, FS_Interval
  <1> HIDE DEF f
  <1>7. f \in Surjection(1..n, S)
    BY <1>5, <1>6, FS_Injection
  <1>8. ToSet(f) = S
    BY <1>3, <1>4, <1>7 DEF ToSet, Surjection
  <1>9. QED BY <1>4, <1>8 DEF f

-----------------------------------------------------------------------------
(* Contents and files.                                                     *)

File == [data : [Keys -> Records \cup {Absent}], mode : Modes]

LEMMA StoredTyped ==
  ASSUME NEW c \in Contents, NEW m \in Modes
  PROVE  /\ StoredAs(c, m) \in [Keys -> Records \cup {Absent}]
         /\ \A k \in Keys : /\ StoredAs(c, m)[k] = Absent <=> c[k] = Absent
                            /\ c[k] # Absent => StoredAs(c, m)[k] = Stored(c[k], m)
  BY AbsentAssumption DEF StoredAs, Contents, Records, Stored

LEMMA EmptyFacts ==
  /\ Empty \in Contents
  /\ \A m \in Modes : StoredAs(Empty, m) = Empty
  BY DEF Empty, Contents, StoredAs

\* A file in place of another one.
LEMMA Replaced ==
  ASSUME NEW s \in Seq(File), NEW i \in DOMAIN s, NEW x \in File
  PROVE  LET t == [s EXCEPT ![i] = x]
         IN  /\ t \in Seq(File) /\ Len(t) = Len(s) /\ t[i] = x
             /\ \A n \in DOMAIN s : n # i => t[n] = s[n]
  BY ExceptSeq

\* Encrypting the records of a plaintext file gives the file of the same content.
LEMMA EncryptedAs ==
  ASSUME NEW c \in Contents, NEW p \in Passwords, NEW d, d = StoredAs(c, Plain)
  PROVE  [k \in Keys |-> IF d[k] = Absent THEN Absent ELSE Stored(d[k].value, p)] = StoredAs(c, p)
  <1>1. ASSUME NEW k \in Keys
        PROVE  (IF d[k] = Absent THEN Absent ELSE Stored(d[k].value, p))
                 = (IF c[k] = Absent THEN Absent ELSE Stored(c[k], p))
    <2>1. Plain \in Modes
      BY DEF Modes
    <2>2. CASE c[k] = Absent
      BY <2>1, <2>2, StoredTyped
    <2>3. CASE c[k] # Absent
      <3>1. d[k] = Stored(c[k], Plain) /\ d[k] # Absent
        BY <2>1, <2>3, StoredTyped
      <3>2. d[k].value = c[k]
        BY <3>1 DEF Stored
      <3>3. QED BY <2>3, <3>1, <3>2
    <2>4. QED BY <2>2, <2>3
  <1>2. QED BY <1>1 DEF StoredAs

-----------------------------------------------------------------------------
(* The steps that change the box.                                          *)

BoxStep ==
  \/ \E mode \in Modes : Open(mode)
  \/ \E password \in Passwords : EncryptBox(password)
  \/ Close \/ DeleteBox
  \/ \E content \in Contents : Commit(content)

ReaderStep(r) ==
  \/ \E keys \in Requests : Call(r, "get_all", keys)
  \/ Call(r, "all_keys", <<>>)
  \/ FindBox(r) \/ Begin(r) \/ Visit(r) \/ Return(r) \/ Forget(r)

LEMMA NextCases == ReadsNext => BoxStep \/ \E r \in Readers : ReaderStep(r)
  BY DEF ReadsNext, BoxStep, ReaderStep

BoxTyped ==
  /\ files \in Seq(File) /\ linked \in 0..Len(files)
  /\ db \in [file : 0..Len(files), mode : Modes]
  /\ history \in Seq(Contents) /\ history # <<>>

\* A file that a reader has open keeps its mode, and holds what it held or what
\* was committed last.
LEMMA BoxSteps ==
  ASSUME ReadsTyped, NamedFileInv, BoxStep
  PROVE  /\ BoxTyped' /\ NamedFileInv' /\ reads' = reads
         /\ history' = history \/ \E c \in Contents : history' = Append(history, c)
         /\ \A n \in DOMAIN files :
              /\ n \in DOMAIN files'
              /\ FileInUse(n) => files'[n].mode = files[n].mode
              /\ \/ files'[n].data = files[n].data
                 \/ FileInUse(n) => files'[n].data = StoredAs(Last(history'), files[n].mode)
  <1> USE DEF NamedFileInv
  <1>9. BoxTyped
    BY DEF ReadsTyped, BoxTyped, File
  <1>10. \A n \in DOMAIN files : files[n] \in File /\ files[n].mode \in Modes
    <2>1. \A n \in DOMAIN files : files[n] \in File
      BY <1>9 DEF BoxTyped
    <2>2. \A f \in File : f.mode \in Modes
      BY DEF File
    <2>3. QED BY <2>1, <2>2
  <1> USE <1>9 DEF BoxTyped
  <1>0. /\ Len(history) \in Nat \ {0} /\ Last(history) = history[Len(history)]
        /\ Last(history) \in Contents
        /\ \A c : Last(Append(history, c)) = c
    BY DEF Last
  <1>1. ASSUME NEW mode \in Modes, Open(mode)
        PROVE  /\ BoxTyped' /\ NamedFileInv' /\ reads' = reads /\ history' = history
               /\ \A n \in DOMAIN files : n \in DOMAIN files' /\ files'[n] = files[n]
    <2>1. CASE linked = 0
      <3>1. /\ files' = Append(files, [data |-> Empty, mode |-> mode])
            /\ linked' = Len(files') /\ db' = [file |-> linked', mode |-> mode]
            /\ UNCHANGED <<history, reads>>
        BY <1>1, <2>1 DEF Open
      <3>2. [data |-> Empty, mode |-> mode] \in File
        BY DEF Empty, File
      <3>3. /\ files' \in Seq(File) /\ Len(files') = Len(files) + 1
            /\ files'[Len(files) + 1] = [data |-> Empty, mode |-> mode]
            /\ \A n \in DOMAIN files : n \in DOMAIN files' /\ files'[n] = files[n]
        BY <3>1, <3>2
      <3>4. Empty = StoredAs(Last(history), mode)
        BY <2>1, EmptyFacts
      <3>5. QED BY <3>1, <3>3, <3>4
    <2>2. CASE linked # 0
      BY <1>0, <1>1, <2>2 DEF Open, Closed
    <2>3. QED BY <2>1, <2>2
  <1>2. ASSUME NEW p \in Passwords, EncryptBox(p)
        PROVE  /\ BoxTyped' /\ NamedFileInv' /\ reads' = reads /\ history' = history
               /\ \A n \in DOMAIN files : n \in DOMAIN files' /\ (FileInUse(n) => files'[n] = files[n])
    <2> DEFINE d == files[linked].data
               e == [k \in Keys |-> IF d[k] = Absent THEN Absent ELSE Stored(d[k].value, p)]
    <2>1. /\ db = Closed /\ linked # 0 /\ linked \in DOMAIN files /\ ~FileInUse(linked) /\ files[linked].mode = Plain
          /\ files' = [files EXCEPT ![linked].mode = p, ![linked].data = e]
          /\ UNCHANGED <<linked, db, history, reads>>
      BY <1>2 DEF EncryptBox
    <2>6. d = StoredAs(Last(history), Plain)
      BY <2>1
    <2>2. e = StoredAs(Last(history), p) /\ p \in Modes
      <3> HIDE DEF d
      <3>1. QED BY <1>0, <2>6, EncryptedAs DEF Modes
    <2>3. e \in [Keys -> Records \cup {Absent}]
      BY <1>0, <2>2, StoredTyped
    <2> HIDE DEF e
    <2> DEFINE x == [data |-> e, mode |-> p]
    <2>7. files[linked] \in File /\ x \in File
      BY <1>10, <2>1, <2>2, <2>3 DEF File
    <2>9. x = [[files[linked] EXCEPT !.mode = p] EXCEPT !.data = e]
      <3>1. files[linked] = [data |-> files[linked].data, mode |-> files[linked].mode]
        BY <2>7 DEF File
      <3> DEFINE y == [data |-> files[linked].data, mode |-> p]
      <3>2. [files[linked] EXCEPT !.mode = p] = y
        BY <3>1
      <3>3. x = [y EXCEPT !.data = e]
        OBVIOUS
      <3> HIDE DEF x, y
      <3>4. QED BY <3>2, <3>3
    <2>8. files' = [files EXCEPT ![linked] = x]
      <3> HIDE DEF x
      <3>1. QED BY <2>1, <2>9
    <2>4. /\ files' \in Seq(File) /\ Len(files') = Len(files)
          /\ files'[linked].data = e /\ files'[linked].mode = p
          /\ \A n \in DOMAIN files : n # linked => files'[n] = files[n]
      <3>1. x.data = e /\ x.mode = p
        OBVIOUS
      <3>2. linked \in DOMAIN files
        BY <2>1
      <3> HIDE DEF x
      <3>3. QED BY <2>7, <2>8, <3>1, <3>2, Replaced
    <2>5. QED BY <2>1, <2>2, <2>4 DEF Closed
  <1>3. CASE Close
    <2>1. UNCHANGED <<files, linked, history, reads>> /\ db' = [file |-> 0, mode |-> Plain]
      BY <1>3 DEF Close, Closed
    <2>2. QED BY <2>1 DEF Closed, Modes
  <1>4. CASE DeleteBox
    BY <1>0, <1>4, EmptyFacts DEF DeleteBox, Closed
  <1>5. ASSUME NEW c \in Contents, Commit(c)
        PROVE  /\ BoxTyped' /\ NamedFileInv' /\ reads' = reads /\ history' = Append(history, c)
               /\ \A n \in DOMAIN files :
                    /\ n \in DOMAIN files' /\ files'[n].mode = files[n].mode
                    /\ \/ files'[n].data = files[n].data
                       \/ files'[n].data = StoredAs(c, files[n].mode)
    <2> DEFINE e == StoredAs(c, db.mode)
    <2>1. /\ db.file # 0 /\ files' = [files EXCEPT ![db.file].data = e]
          /\ history' = Append(history, c) /\ UNCHANGED <<linked, db, reads>>
      BY <1>5 DEF Commit
    <2>2. db.file = linked /\ db.mode = files[linked].mode /\ linked \in DOMAIN files
      BY <2>1
    <2>3. e \in [Keys -> Records \cup {Absent}]
      BY StoredTyped
    <2> HIDE DEF e
    <2> DEFINE x == [data |-> e, mode |-> files[linked].mode]
    <2>7. files[linked] \in File /\ x \in File
      BY <1>10, <2>2, <2>3 DEF File
    <2>9. x = [files[linked] EXCEPT !.data = e]
      BY <2>7 DEF File
    <2>8. files' = [files EXCEPT ![linked] = x]
      <3> HIDE DEF x
      <3>1. QED BY <2>1, <2>2, <2>9
    <2>4. /\ files' \in Seq(File) /\ Len(files') = Len(files)
          /\ files'[linked].data = e /\ files'[linked].mode = files[linked].mode
          /\ \A n \in DOMAIN files : n # linked => files'[n] = files[n]
      BY <2>2, <2>7, <2>8, Replaced
    <2>5. history' \in Seq(Contents) /\ history' # <<>> /\ Last(history') = c
      BY <1>0, <2>1
    <2>6. QED BY <2>1, <2>2, <2>4, <2>5 DEF e
  <1>6. CASE \E mode \in Modes : Open(mode)
    BY <1>1, <1>6
  <1>7. CASE \E p \in Passwords : EncryptBox(p)
    BY <1>2, <1>7
  <1>8. CASE \E c \in Contents : Commit(c)
    <2>1. PICK c \in Contents : Commit(c)
      BY <1>8
    <2>2. Last(history') = c
      BY <1>0, <1>5, <2>1
    <2>3. QED BY <1>5, <2>1, <2>2
  <1>11. QED BY <1>3, <1>4, <1>6, <1>7, <1>8 DEF BoxStep

-----------------------------------------------------------------------------
(* Readers while the box changes.                                          *)

ReadRec ==
  [ op : {"none", "get_all", "all_keys"}, pc : ReadPcs, since : Nat,
    arc : [file : Nat, mode : Modes], snapshot : [Keys -> Records \cup {Absent}],
    rest : Seq(Keys), keys : Seq(Keys), answer : Seq([key : Keys, stored : Records]) ]

\* ReaderInv for one reader.
ReadOK(read) ==
  /\ read.pc # "idle" => read.since \in 1..Len(history)
  /\ read.pc = "begin" =>
       /\ read.arc.file \in DOMAIN files /\ files[read.arc.file].mode = read.arc.mode
       /\ Since(read, files[read.arc.file].data)
  /\ read.pc \in {"find", "begin"} => read.answer = <<>> /\ read.rest = read.keys
  /\ read.pc \in {"visit", "done"} => Since(read, read.snapshot) /\ Visited(read)
  /\ read.pc = "done" => read.rest = <<>>

\* Since, for a history of one's own.
Lived(read, content, h) == \E n \in read.since..Len(h) : content = StoredAs(h[n], read.arc.mode)

\* ReadOK, for files and a history of one's own.
ReadOKIn(read, f, h) ==
  /\ read.pc # "idle" => read.since \in 1..Len(h)
  /\ read.pc = "begin" =>
       /\ read.arc.file \in DOMAIN f /\ f[read.arc.file].mode = read.arc.mode
       /\ Lived(read, f[read.arc.file].data, h)
  /\ read.pc \in {"find", "begin"} => read.answer = <<>> /\ read.rest = read.keys
  /\ read.pc \in {"visit", "done"} => Lived(read, read.snapshot, h) /\ Visited(read)
  /\ read.pc = "done" => read.rest = <<>>

LEMMA OKNow ==
  ASSUME NEW read
  PROVE  ReadOK(read) <=> ReadOKIn(read, files, history)
  BY DEF ReadOK, ReadOKIn, Since, Lived

LEMMA OKNext ==
  ASSUME NEW r
  PROVE  ReadOK(reads[r])' <=> ReadOKIn(reads'[r], files', history')
  BY DEF ReadOK, ReadOKIn, Since, Lived, Visited

LEMMA Split ==
  /\ ReadsTyped <=> BoxTyped /\ reads \in [Readers -> ReadRec]
  /\ ReaderInv <=> \A r \in Readers : ReadOK(reads[r])
  BY DEF ReadsTyped, BoxTyped, File, ReadRec, ReaderInv, ReadOK

LEMMA BoxStepKeeps == ReadsInv /\ BoxStep => ReadsInv'
  <1> SUFFICES ASSUME ReadsInv, BoxStep PROVE ReadsInv'
    OBVIOUS
  <1>1. /\ BoxTyped' /\ NamedFileInv' /\ reads' = reads
        /\ history' = history \/ \E c \in Contents : history' = Append(history, c)
    BY BoxSteps DEF ReadsInv
  <1>2. BoxTyped /\ reads \in [Readers -> ReadRec]
    BY Split DEF ReadsInv
  <1>3. /\ Len(history) \in Nat \ {0} /\ Len(history') \in Nat /\ Len(history) <= Len(history')
        /\ \A n \in 1..Len(history) : history'[n] = history[n]
        /\ Last(history') = history'[Len(history')]
    BY <1>1, <1>2 DEF BoxTyped, Last
  <1>4. ASSUME NEW read \in ReadRec, ReadOK(read), FileInUse(read.arc.file) PROVE ReadOKIn(read, files', history')
    <2>1. ASSUME NEW d, read.pc # "idle", Lived(read, d, history) PROVE Lived(read, d, history')
      BY <1>3, <1>4, <2>1 DEF Lived, ReadOK
    <2>2. ASSUME read.pc = "begin"
          PROVE  /\ read.arc.file \in DOMAIN files' /\ files'[read.arc.file].mode = read.arc.mode
                 /\ Lived(read, files'[read.arc.file].data, history')
      <3>2. /\ read.arc.file \in DOMAIN files /\ files[read.arc.file].mode = read.arc.mode
            /\ Lived(read, files[read.arc.file].data, history)
        BY <1>4, <2>2 DEF ReadOK, Since, Lived
      <3>3. PICK d : d = files'[read.arc.file].data
        OBVIOUS
      <3>4. /\ read.arc.file \in DOMAIN files' /\ files'[read.arc.file].mode = read.arc.mode
            /\ d = files[read.arc.file].data \/ d = StoredAs(Last(history'), read.arc.mode)
        BY <1>4, <3>2, <3>3, BoxSteps DEF ReadsInv
      <3>5. Lived(read, d, history')
        <4>1. CASE d = files[read.arc.file].data
          BY <2>1, <2>2, <3>2, <4>1 DEF Lived
        <4>2. CASE d = StoredAs(Last(history'), read.arc.mode)
          <5>1. Len(history') \in read.since..Len(history')
            BY <1>3, <1>4, <2>2 DEF ReadOK, ReadRec
          <5>2. QED BY <1>3, <4>2, <5>1 DEF Lived
        <4>3. QED BY <3>4, <4>1, <4>2
      <3>6. QED BY <3>3, <3>4, <3>5
    <2>3. read.pc # "idle" => read.since \in 1..Len(history')
      BY <1>3, <1>4 DEF ReadOK
    <2>4. read.pc \in {"visit", "done"} => Lived(read, read.snapshot, history')
      BY <1>4, <2>1 DEF ReadOK, Since, Lived
    <2>5. QED BY <1>4, <2>2, <2>3, <2>4 DEF ReadOK, ReadOKIn
  <1>5. ASSUME NEW r \in Readers PROVE ReadOK(reads[r])'
    <2>1. PICK read \in ReadRec : read = reads[r] /\ ReadOK(read)
      BY <1>2, Split DEF ReadsInv
    <2>2. FileInUse(read.arc.file)
      BY <2>1 DEF FileInUse
    <2>3. ReadOKIn(read, files', history') /\ reads'[r] = read
      BY <1>1, <1>4, <2>1, <2>2
    <2>4. QED BY <2>3, OKNext
  <1>7. ReadsTyped'
    BY <1>1, <1>2 DEF ReadsTyped, BoxTyped, File, ReadRec
  <1>8. ReaderInv'
    BY <1>5 DEF ReaderInv, ReadOK
  <1>9. QED BY <1>1, <1>7, <1>8 DEF ReadsInv

-----------------------------------------------------------------------------
(* The steps of a reader.                                                  *)

\* r goes on with the record new, and the box stays as it is.
Becomes(r, new) ==
  /\ new \in ReadRec /\ ReadOK(new)
  /\ reads' = [reads EXCEPT ![r] = new]
  /\ UNCHANGED <<files, linked, db, history>>

LEMMA ReaderFacts ==
  ASSUME ReadsInv, NEW r \in Readers
  PROVE  reads[r] \in ReadRec /\ ReadOK(reads[r])
  BY Split DEF ReadsInv

LEMMA NoReadOK == NoRead \in ReadRec /\ ReadOK(NoRead)
  <1>1. NoRead \in ReadRec
    BY DEF NoRead, ReadRec, ReadPcs, Closed, Modes, Empty
  <1>2. QED BY <1>1 DEF ReadOK, NoRead

LEMMA CallStep ==
  ASSUME ReadsInv, NEW r \in Readers, NEW op \in {"get_all", "all_keys"}, NEW keys \in Seq(Keys),
         Call(r, op, keys)
  PROVE  \E new : Becomes(r, new)
  <1> DEFINE new == [NoRead EXCEPT !.op = op, !.pc = "find", !.since = Len(history),
                                   !.keys = keys, !.rest = keys]
  <1>1. reads' = [reads EXCEPT ![r] = new] /\ UNCHANGED <<files, linked, db, history>>
    BY DEF Call, Step
  <1>2. Len(history) \in Nat \ {0}
    BY DEF ReadsInv, ReadsTyped
  <1>3. /\ new.pc = "find" /\ new.since = Len(history) /\ new.answer = <<>>
        /\ new.rest = keys /\ new.keys = keys
    BY DEF NoRead
  <1>4. new \in ReadRec
    BY <1>2, NoReadOK DEF ReadRec, ReadPcs, NoRead
  <1> HIDE DEF new
  <1>5. ReadOK(new)
    BY <1>2, <1>3 DEF ReadOK
  <1>6. QED BY <1>1, <1>4, <1>5 DEF Becomes

LEMMA FindStep ==
  ASSUME ReadsInv, NEW r \in Readers, FindBox(r)
  PROVE  \E new : Becomes(r, new)
  <1> DEFINE read == reads[r]
             new == [read EXCEPT !.pc = IF db = Closed THEN "refused" ELSE "begin", !.arc = db]
  <1>1. /\ reads' = [reads EXCEPT ![r] = new] /\ UNCHANGED <<files, linked, db, history>>
        /\ read.pc = "find"
    BY DEF FindBox, Step
  <1>2. read \in ReadRec /\ ReadOK(read)
    BY ReaderFacts
  <1>3. BoxTyped /\ NamedFileInv
    BY Split DEF ReadsInv
  <1>9. read.answer = <<>> /\ read.rest = read.keys /\ db \in [file : Nat, mode : Modes]
    BY <1>1, <1>2, <1>3 DEF ReadOK, BoxTyped
  <1> HIDE DEF read
  <1>4. /\ new.pc = IF db = Closed THEN "refused" ELSE "begin"
        /\ new.arc = db /\ new.since = read.since /\ new.answer = <<>> /\ new.rest = new.keys
        /\ new \in ReadRec
    BY <1>2, <1>9 DEF ReadRec, ReadPcs
  <1>5. read.since \in 1..Len(history)
    BY <1>1, <1>2 DEF ReadOK
  <1> HIDE DEF new
  <1>6. CASE db = Closed
    BY <1>1, <1>4, <1>5, <1>6 DEF ReadOK, Becomes
  <1>7. CASE db # Closed
    <2>1. /\ db.file \in DOMAIN files /\ files[db.file].mode = db.mode
          /\ files[db.file].data = StoredAs(history[Len(history)], db.mode)
      BY <1>3, <1>7 DEF BoxTyped, NamedFileInv, Last
    <2>2. Len(history) \in new.since..Len(history)
      BY <1>3, <1>4, <1>5 DEF BoxTyped
    <2>3. Since(new, files[new.arc.file].data)
      BY <1>4, <2>1, <2>2 DEF Since
    <2>4. ReadOK(new)
      BY <1>4, <1>5, <1>7, <2>1, <2>3 DEF ReadOK
    <2>5. QED BY <1>1, <1>4, <2>4 DEF Becomes
  <1>8. QED BY <1>6, <1>7

LEMMA BeginStep ==
  ASSUME ReadsInv, NEW r \in Readers, Begin(r)
  PROVE  \E new : Becomes(r, new)
  <1> DEFINE read == reads[r]
             content == files[read.arc.file].data
             S == {k \in Keys : content[k] # Absent}
             rest == IF read.op = "all_keys" THEN SetToSeq(S) ELSE read.rest
             new == [read EXCEPT !.pc = "visit", !.snapshot = content, !.rest = rest]
  <1>1. /\ reads' = [reads EXCEPT ![r] = new] /\ UNCHANGED <<files, linked, db, history>>
        /\ read.pc = "begin"
    <2>1. read.pc = "begin" /\ UNCHANGED <<files, linked, db, history>>
      BY DEF Begin, Step
    <2>2. reads' = [reads EXCEPT ![r] = new]
      BY DEF Begin
    <2>3. QED BY <2>1, <2>2
  <1>2. read \in ReadRec /\ ReadOK(read)
    BY ReaderFacts
  <1>3. BoxTyped
    BY Split DEF ReadsInv
  <1>4. /\ Since(read, content) /\ read.since \in 1..Len(history)
        /\ read.answer = <<>> /\ read.rest = read.keys
        /\ content \in [Keys -> Records \cup {Absent}]
    <2>1. read.arc.file \in DOMAIN files
      BY <1>1, <1>2 DEF ReadOK
    <2>2. files[read.arc.file] \in File
      BY <1>3, <2>1 DEF BoxTyped
    <2>3. QED BY <1>1, <1>2, <2>2 DEF ReadOK, File
  <1> HIDE DEF content
  <1>5. SetToSeq(S) \in Seq(Keys) /\ ToSet(SetToSeq(S)) = S
    <2>1. IsFiniteSet(S) /\ S \subseteq Keys
      BY ReadsAssumption, FS_Subset
    <2> HIDE DEF S
    <2>2. SetToSeq(S) \in Seq(S) /\ ToSet(SetToSeq(S)) = S
      BY <2>1, ListedSet
    <2>3. QED BY <2>1, <2>2
  <1> HIDE DEF read
  <1>6. rest \in Seq(Keys)
    BY <1>2, <1>5 DEF ReadRec
  <1>7. rest = IF read.op = "all_keys" THEN SetToSeq(S) ELSE read.keys
    BY <1>4
  <1> HIDE DEF rest
  <1>8. /\ new.pc = "visit" /\ new.snapshot = content /\ new.rest = rest
        /\ new.arc = read.arc /\ new.since = read.since /\ new.answer = <<>>
        /\ new.keys = read.keys /\ new.op = read.op
        /\ new \in ReadRec
    BY <1>2, <1>4, <1>6 DEF ReadRec, ReadPcs
  <1> HIDE DEF new
  <1>9. Since(new, new.snapshot)
    BY <1>4, <1>8 DEF Since
  <1>10. Visited(new)
    <2>1. CASE read.op = "all_keys"
      BY <1>5, <1>7, <1>8, <2>1 DEF Visited
    <2>2. CASE read.op # "all_keys"
      <3>1. new.rest = new.keys /\ new.keys \in Seq(Keys)
        BY <1>7, <1>8, <2>2 DEF ReadRec
      <3>2. Len(new.keys) - Len(new.rest) = 0 /\ \A i \in DOMAIN new.rest : new.rest[i] = new.keys[0 + i]
        BY <3>1
      <3>3. <<>> \in [DOMAIN <<>> -> 1..0] /\ DOMAIN <<>> = {}
        OBVIOUS
      <3>4. Enumerates(<<>>, {i \in 1..0 : new.snapshot[new.keys[i]] # Absent})
        BY <3>3 DEF Enumerates
      <3>5. PICK m : m = Len(new.keys) - Len(new.rest)
        OBVIOUS
      <3>6. PICK place : place = <<>>
        OBVIOUS
      <3>7. /\ place \in [DOMAIN new.answer -> 1..m]
            /\ Enumerates(place, {i \in 1..m : new.snapshot[new.keys[i]] # Absent})
            /\ \A n \in DOMAIN new.answer : new.answer[n].key = new.keys[place[n]]
        BY <1>8, <3>2, <3>3, <3>4, <3>5, <3>6
      <3>8. m \in Nat /\ \A i \in DOMAIN new.rest : new.rest[i] = new.keys[m + i]
        BY <3>2, <3>5
      <3>9. \A n \in DOMAIN new.answer : new.answer[n].stored = new.snapshot[new.answer[n].key]
        BY <1>8
      <3>10. QED BY <1>8, <2>2, <3>5, <3>7, <3>8, <3>9 DEF Visited
    <2>3. QED BY <2>1, <2>2
  <1>11. QED BY <1>1, <1>4, <1>8, <1>9, <1>10 DEF Becomes, ReadOK

\* One more position of the request has been looked at.
LEMMA NextPlace ==
  ASSUME NEW L \in Nat, NEW m \in Nat, NEW S \in SUBSET (1..m),
         NEW place \in [1..L -> 1..m], Enumerates(place, S),
         NEW more, more = [n \in 1..(L + 1) |-> IF n = L + 1 THEN m + 1 ELSE place[n]]
  PROVE  /\ place \in [1..L -> 1..(m + 1)] /\ more \in [1..(L + 1) -> 1..(m + 1)]
         /\ Enumerates(more, S \cup {m + 1})
  <1>1. place \in [1..L -> 1..(m + 1)] /\ more \in [1..(L + 1) -> 1..(m + 1)]
    OBVIOUS
  <1>2. {place[i] : i \in 1..L} = S /\ \A i, j \in 1..L : i < j => place[i] < place[j]
    BY DEF Enumerates
  <1>3. \A i, j \in 1..(L + 1) : i < j => more[i] < more[j]
    BY <1>2
  <1>4. DOMAIN more = 1..(L + 1)
    OBVIOUS
  <1>5. \A n \in 1..L : n \in 1..(L + 1) /\ n # L + 1 /\ more[n] = place[n]
    OBVIOUS
  <1>6. more[L + 1] = m + 1 /\ \A n \in 1..(L + 1) : n = L + 1 \/ n \in 1..L
    OBVIOUS
  <1>7. {more[i] : i \in 1..(L + 1)} = S \cup {m + 1}
    <2>1. \A n \in 1..(L + 1) : more[n] \in S \cup {m + 1}
      BY <1>2, <1>5, <1>6
    <2>2. \A x \in S : \E n \in 1..(L + 1) : more[n] = x
      BY <1>2, <1>5
    <2>3. \E n \in 1..(L + 1) : more[n] = m + 1
      BY <1>6
    <2>4. \A x : x \in {more[i] : i \in 1..(L + 1)} <=> x \in S \cup {m + 1}
      <3>1. \A x \in {more[i] : i \in 1..(L + 1)} : x \in S \cup {m + 1}
        BY <2>1
      <3>2. \A x \in S \cup {m + 1} : x \in {more[i] : i \in 1..(L + 1)}
        BY <2>2, <2>3
      <3>3. QED BY <3>1, <3>2
    <2>5. QED BY <2>4
  <1>8. QED BY <1>1, <1>3, <1>4, <1>7 DEF Enumerates

LEMMA VisitStep ==
  ASSUME ReadsInv, NEW r \in Readers, Visit(r)
  PROVE  \E new : Becomes(r, new)
  <1> DEFINE read == reads[r]
             k == Head(read.rest)
             got  == read.snapshot[k]
             row == [key |-> k, stored |-> got]
             answer == IF got = Absent THEN read.answer ELSE Append(read.answer, row)
             new == [read EXCEPT !.rest = Tail(read.rest), !.answer = answer]
  <1>1. /\ reads' = [reads EXCEPT ![r] = new] /\ UNCHANGED <<files, linked, db, history>>
        /\ read.pc = "visit" /\ read.rest # <<>>
    <2>1. read.pc = "visit" /\ read.rest # <<>> /\ UNCHANGED <<files, linked, db, history>>
      BY DEF Visit, Step
    <2>2. reads' = [reads EXCEPT ![r] = new]
      BY DEF Visit, Answer
    <2>3. QED BY <2>1, <2>2
  <1>2. read \in ReadRec /\ ReadOK(read)
    BY ReaderFacts
  <1> HIDE DEF read
  <1>3. /\ read.rest \in Seq(Keys) /\ read.keys \in Seq(Keys)
        /\ read.snapshot \in [Keys -> Records \cup {Absent}]
        /\ read.answer \in Seq([key : Keys, stored : Records])
        /\ read.since \in 1..Len(history) /\ Since(read, read.snapshot) /\ Visited(read)
    BY <1>1, <1>2 DEF ReadRec, ReadOK
  <1>4. k \in Keys /\ k = read.rest[1] /\ got \in Records \cup {Absent}
    BY <1>1, <1>3
  <1>5. /\ Tail(read.rest) \in Seq(Keys) /\ Len(Tail(read.rest)) = Len(read.rest) - 1
        /\ \A i \in DOMAIN Tail(read.rest) : i + 1 \in DOMAIN read.rest /\ Tail(read.rest)[i] = read.rest[i + 1]
        /\ ToSet(read.rest) = {k} \cup ToSet(Tail(read.rest))
    <2>1. /\ Tail(read.rest) \in Seq(Keys) /\ Len(Tail(read.rest)) = Len(read.rest) - 1
          /\ \A i \in DOMAIN Tail(read.rest) : i + 1 \in DOMAIN read.rest /\ Tail(read.rest)[i] = read.rest[i + 1]
      BY <1>1, <1>3
    <2>2. ToSet(read.rest) = {k} \cup ToSet(Tail(read.rest))
      <3>1. ASSUME NEW i \in DOMAIN read.rest PROVE read.rest[i] \in {k} \cup ToSet(Tail(read.rest))
        <4>1. CASE i = 1
          BY <1>4, <4>1
        <4>2. CASE i # 1
          <5>1. i - 1 \in DOMAIN Tail(read.rest) /\ (i - 1) + 1 = i
            BY <1>3, <2>1, <4>2
          <5>2. QED BY <2>1, <5>1 DEF ToSet
        <4>3. QED BY <4>1, <4>2
      <3>2. 1 \in DOMAIN read.rest
        BY <1>1, <1>3
      <3>3. QED BY <1>4, <2>1, <3>1, <3>2 DEF ToSet
    <2>3. QED BY <2>1, <2>2
  <1>6. answer \in Seq([key : Keys, stored : Records])
    <2>1. got # Absent => row \in [key : Keys, stored : Records]
      BY <1>4
    <2> HIDE DEF row, got
    <2>2. read.answer \in Seq([key : Keys, stored : Records])
      BY <1>3
    <2>3. CASE got = Absent
      BY <2>2, <2>3
    <2>4. CASE got # Absent
      BY <2>1, <2>2, <2>4
    <2>5. QED BY <2>3, <2>4
  <1>14. got # Absent =>
           /\ Len(answer) = Len(read.answer) + 1
           /\ DOMAIN answer = 1..(Len(read.answer) + 1)
           /\ answer[Len(read.answer) + 1] = row
           /\ \A n \in 1..Len(read.answer) : answer[n] = read.answer[n]
    <2> HIDE DEF row, got
    <2>1. QED BY <1>3
  <1>15. got = Absent => answer = read.answer
    OBVIOUS
  <1>16. row.key = k /\ row.stored = got
    OBVIOUS
  <1>17. DOMAIN read.answer = 1..Len(read.answer) /\ Len(read.answer) \in Nat
    BY <1>3
  <1> HIDE DEF answer, row
  <1>7. /\ new.pc = "visit" /\ new.snapshot = read.snapshot /\ new.rest = Tail(read.rest)
        /\ new.arc = read.arc /\ new.since = read.since /\ new.answer = answer
        /\ new.keys = read.keys /\ new.op = read.op
        /\ new \in ReadRec
    BY <1>1, <1>2, <1>5, <1>6 DEF ReadRec, ReadPcs
  <1> HIDE DEF new
  <1>8. Since(new, new.snapshot)
    BY <1>3, <1>7 DEF Since
  <1>9. \A n \in DOMAIN new.answer : new.answer[n].stored = new.snapshot[new.answer[n].key]
    <2>1. \A n \in DOMAIN read.answer : read.answer[n].stored = read.snapshot[read.answer[n].key]
      BY <1>3 DEF Visited
    <2>2. row.stored = read.snapshot[row.key]
      BY <1>16
    <2> HIDE DEF got
    <2>3. CASE got = Absent
      BY <1>7, <1>15, <2>1, <2>3
    <2>4. CASE got # Absent
      <3>1. ASSUME NEW n \in DOMAIN answer PROVE answer[n].stored = read.snapshot[answer[n].key]
        <4>1. CASE n = Len(read.answer) + 1
          BY <1>14, <2>2, <2>4, <4>1
        <4>2. CASE n # Len(read.answer) + 1
          BY <1>14, <1>17, <2>1, <2>4, <4>2
        <4>3. QED BY <4>1, <4>2
      <3>2. QED BY <1>7, <3>1
    <2>5. QED BY <2>3, <2>4
  <1>10. CASE read.op = "all_keys"
    <2>1. {read.answer[n].key : n \in DOMAIN read.answer} \cup ToSet(read.rest)
            = {x \in Keys : read.snapshot[x] # Absent}
      BY <1>3, <1>10 DEF Visited
    <2>2. got # Absent
      BY <1>4, <1>5, <2>1
    <2>3. {answer[n].key : n \in DOMAIN answer} = {read.answer[n].key : n \in DOMAIN read.answer} \cup {k}
      <3> HIDE DEF got, k
      <3>1. \A n \in DOMAIN answer : answer[n].key \in {read.answer[i].key : i \in DOMAIN read.answer} \cup {k}
        BY <1>14, <1>16, <1>17, <2>2
      <3>2. \A n \in DOMAIN read.answer : n \in DOMAIN answer /\ answer[n].key = read.answer[n].key
        BY <1>14, <1>17, <2>2
      <3>3. Len(read.answer) + 1 \in DOMAIN answer /\ answer[Len(read.answer) + 1].key = k
        BY <1>14, <1>16, <1>17, <2>2
      <3>4. QED BY <3>1, <3>2, <3>3
    <2>4. {answer[n].key : n \in DOMAIN answer} \cup ToSet(Tail(read.rest))
            = {x \in Keys : read.snapshot[x] # Absent}
      BY <1>5, <2>1, <2>3
    <2>5. Visited(new)
      BY <1>7, <1>9, <1>10, <2>4 DEF Visited
    <2>6. QED BY <1>1, <1>3, <1>7, <1>8, <2>5 DEF Becomes, ReadOK
  <1>11. CASE read.op # "all_keys"
    <2>1. PICK m : m = Len(read.keys) - Len(read.rest)
      OBVIOUS
    <2>2. /\ m \in Nat /\ \A i \in DOMAIN read.rest : read.rest[i] = read.keys[m + i]
          /\ \E place \in [DOMAIN read.answer -> 1..m] :
               /\ Enumerates(place, {i \in 1..m : read.snapshot[read.keys[i]] # Absent})
               /\ \A n \in DOMAIN read.answer : read.answer[n].key = read.keys[place[n]]
      BY <1>3, <1>11, <2>1 DEF Visited
    <2>3. PICK place \in [1..Len(read.answer) -> 1..m] :
               /\ Enumerates(place, {i \in 1..m : read.snapshot[read.keys[i]] # Absent})
               /\ \A n \in DOMAIN read.answer : read.answer[n].key = read.keys[place[n]]
      BY <1>17, <2>2
    <2>4. k = read.keys[m + 1]
      BY <1>1, <1>3, <1>4, <2>2
    <2>5. \A i \in DOMAIN Tail(read.rest) : Tail(read.rest)[i] = read.keys[(m + 1) + i]
      <3>1. SUFFICES ASSUME NEW i \in DOMAIN Tail(read.rest) PROVE Tail(read.rest)[i] = read.keys[(m + 1) + i]
        OBVIOUS
      <3>2. i \in Nat /\ m + (i + 1) = (m + 1) + i
        <4>1. m \in Nat
          BY <2>2
        <4>2. Tail(read.rest) \in Seq(Keys)
          BY <1>5
        <4>3. QED BY <4>1, <4>2
      <3>3. Tail(read.rest)[i] = read.keys[m + (i + 1)]
        BY <1>5, <2>2
      <3>4. QED BY <3>2, <3>3
    <2>6. m + 1 = Len(read.keys) - Len(Tail(read.rest)) /\ m + 1 \in Nat
      <3>1. m \in Nat /\ Len(Tail(read.rest)) = Len(read.rest) - 1
        BY <1>5, <2>2
      <3>2. Len(read.rest) \in Nat /\ Len(read.keys) \in Nat
        BY <1>3
      <3>3. PICK a, b, c : a = Len(read.keys) /\ b = Len(read.rest) /\ c = Len(Tail(read.rest))
        OBVIOUS
      <3>4. a \in Nat /\ b \in Nat /\ c = b - 1 /\ m = a - b
        BY <2>1, <3>1, <3>2, <3>3
      <3>5. m + 1 = a - c
        BY <3>4
      <3>6. m + 1 = Len(read.keys) - Len(Tail(read.rest))
        BY <3>3, <3>5
      <3>7. m \in Nat
        BY <2>2
      <3>8. m + 1 \in Nat
        BY <3>7
      <3>9. QED BY <3>6, <3>8
    <2> DEFINE T(i) == read.snapshot[read.keys[i]] # Absent
               L == Len(read.answer)
               more == [n \in 1..(L + 1) |-> IF n = L + 1 THEN m + 1 ELSE place[n]]
    <2>7. /\ place \in [1..L -> 1..(m + 1)] /\ more \in [1..(L + 1) -> 1..(m + 1)]
          /\ ~T(m + 1) => Enumerates(place, {i \in 1..(m + 1) : T(i)})
          /\ T(m + 1) => Enumerates(more, {i \in 1..(m + 1) : T(i)})
      <3>1. PICK l, S : l = L /\ S = {i \in 1..m : T(i)}
        OBVIOUS
      <3>2. l \in Nat /\ m \in Nat /\ S \in SUBSET (1..m) /\ place \in [1..l -> 1..m] /\ Enumerates(place, S)
        BY <1>17, <2>2, <2>3, <3>1
      <3>3. /\ ~T(m + 1) => {i \in 1..(m + 1) : T(i)} = S
            /\ T(m + 1) => {i \in 1..(m + 1) : T(i)} = S \cup {m + 1}
        BY <2>2, <3>1
      <3> HIDE DEF T, L
      <3>4. PICK plus : plus = [n \in 1..(l + 1) |-> IF n = l + 1 THEN m + 1 ELSE place[n]]
        OBVIOUS
      <3>5. /\ place \in [1..l -> 1..(m + 1)] /\ plus \in [1..(l + 1) -> 1..(m + 1)]
            /\ Enumerates(plus, S \cup {m + 1})
        <4>1. /\ place \in [1..l -> 1..(m + 1)] /\ plus \in [1..(l + 1) -> 1..(m + 1)]
          BY <3>2, <3>4
        <4>2. Enumerates(plus, S \cup {m + 1})
          BY <3>2, <3>4, NextPlace
        <4>3. QED BY <4>1, <4>2
      <3>6. plus = more
        BY <3>1, <3>4
      <3> HIDE DEF more
      <3>7. QED BY <3>1, <3>2, <3>3, <3>5, <3>6
    <2>8. \E p \in [DOMAIN answer -> 1..(m + 1)] :
            /\ Enumerates(p, {i \in 1..(m + 1) : read.snapshot[read.keys[i]] # Absent})
            /\ \A n \in DOMAIN answer : answer[n].key = read.keys[p[n]]
      <3>1. CASE got = Absent
        <4>1. ~T(m + 1) /\ answer = read.answer
          BY <1>15, <2>4, <3>1
        <4>2. QED BY <1>17, <2>3, <2>7, <4>1
      <3>2. CASE got # Absent
        <4>1. T(m + 1)
          BY <2>4, <3>2
        <4>2. more \in [DOMAIN answer -> 1..(m + 1)]
          BY <1>14, <2>7, <3>2
        <4>3. ASSUME NEW n \in DOMAIN answer PROVE answer[n].key = read.keys[more[n]]
          <5>1. n \in 1..(L + 1)
            BY <1>14, <3>2
          <5>2. CASE n = L + 1
            BY <1>14, <1>16, <2>4, <3>2, <5>1, <5>2
          <5>3. CASE n # L + 1
            <6>1. n \in 1..L /\ more[n] = place[n]
              BY <1>17, <5>1, <5>3
            <6>2. QED BY <1>14, <1>17, <2>3, <3>2, <6>1
          <5>4. QED BY <5>2, <5>3
        <4> HIDE DEF more
        <4>4. QED BY <2>7, <4>1, <4>2, <4>3
      <3>3. QED BY <3>1, <3>2
    <2>9. PICK j : j = Len(new.keys) - Len(new.rest)
      OBVIOUS
    <2>10. j = m + 1
      BY <1>7, <2>6, <2>9
    <2>11. Visited(new)
      <3>1. j \in Nat /\ \A i \in DOMAIN new.rest : new.rest[i] = new.keys[j + i]
        BY <1>7, <2>5, <2>6, <2>10
      <3>2. \E p \in [DOMAIN new.answer -> 1..j] :
              /\ Enumerates(p, {i \in 1..j : new.snapshot[new.keys[i]] # Absent})
              /\ \A n \in DOMAIN new.answer : new.answer[n].key = new.keys[p[n]]
        BY <1>7, <2>8, <2>10
      <3>3. new.op # "all_keys"
        BY <1>7, <1>11
      <3>4. QED BY <1>9, <2>9, <3>1, <3>2, <3>3 DEF Visited
    <2>12. QED BY <1>1, <1>3, <1>7, <1>8, <2>11 DEF Becomes, ReadOK
  <1>12. QED BY <1>10, <1>11

\* Visited is about five of the fields.
VisitedBy(op, answer, snapshot, rest, keys) ==
  /\ \A n \in DOMAIN answer : answer[n].stored = snapshot[answer[n].key]
  /\ IF op = "all_keys"
     THEN {answer[n].key : n \in DOMAIN answer} \cup ToSet(rest) = {k \in Keys : snapshot[k] # Absent}
     ELSE LET m == Len(keys) - Len(rest) IN
          /\ m \in Nat
          /\ \A i \in DOMAIN rest : rest[i] = keys[m + i]
          /\ \E place \in [DOMAIN answer -> 1..m] :
               /\ Enumerates(place, {i \in 1..m : snapshot[keys[i]] # Absent})
               /\ \A n \in DOMAIN answer : answer[n].key = keys[place[n]]

LEMMA VisitedFields ==
  ASSUME NEW read
  PROVE  Visited(read) <=> VisitedBy(read.op, read.answer, read.snapshot, read.rest, read.keys)
  BY DEF Visited, VisitedBy

LEMMA VisitedSame ==
  ASSUME NEW a, NEW b, a.op = b.op, a.answer = b.answer, a.snapshot = b.snapshot,
         a.rest = b.rest, a.keys = b.keys, Visited(a)
  PROVE  Visited(b)
  BY VisitedFields

LEMMA ReturnStep ==
  ASSUME ReadsInv, NEW r \in Readers, Return(r)
  PROVE  \E new : Becomes(r, new)
  <1> DEFINE read == reads[r]
             new == [read EXCEPT !.pc = "done"]
  <1>1. /\ reads' = [reads EXCEPT ![r] = new] /\ UNCHANGED <<files, linked, db, history>>
        /\ read.pc = "visit" /\ read.rest = <<>>
    BY DEF Return, Step
  <1>2. read \in ReadRec /\ ReadOK(read)
    BY ReaderFacts
  <1> HIDE DEF read
  <1>3. /\ new.pc = "done" /\ new.snapshot = read.snapshot /\ new.rest = read.rest
        /\ new.arc = read.arc /\ new.since = read.since /\ new.answer = read.answer
        /\ new.keys = read.keys /\ new.op = read.op
        /\ new \in ReadRec
    BY <1>2 DEF ReadRec, ReadPcs
  <1> HIDE DEF new
  <1>4. read.since \in 1..Len(history) /\ Since(read, read.snapshot) /\ Visited(read)
    BY <1>1, <1>2 DEF ReadOK
  <1>5. Since(new, new.snapshot)
    BY <1>3, <1>4 DEF Since
  <1>6. Visited(new)
    BY <1>3, <1>4, VisitedSame
  <1>7. QED BY <1>1, <1>3, <1>4, <1>5, <1>6 DEF Becomes, ReadOK

LEMMA ForgetStep ==
  ASSUME ReadsInv, NEW r \in Readers, Forget(r)
  PROVE  \E new : Becomes(r, new)
  <1>1. reads' = [reads EXCEPT ![r] = NoRead] /\ UNCHANGED <<files, linked, db, history>>
    BY DEF Forget
  <1>2. QED BY <1>1, NoReadOK DEF Becomes

LEMMA ReaderStepBecomes ==
  ASSUME ReadsInv, NEW r \in Readers, ReaderStep(r)
  PROVE  \E new : Becomes(r, new)
  <1>1. CASE \E keys \in Requests : Call(r, "get_all", keys)
    <2>1. PICK keys \in Requests : Call(r, "get_all", keys)
      BY <1>1
    <2>2. keys \in Seq(Keys)
      BY ReadsAssumption
    <2>3. QED BY <2>1, <2>2, CallStep
  <1>2. CASE Call(r, "all_keys", <<>>)
    <2>1. <<>> \in Seq(Keys)
      OBVIOUS
    <2>2. QED BY <1>2, <2>1, CallStep
  <1>3. CASE FindBox(r)
    BY <1>3, FindStep
  <1>4. CASE Begin(r)
    BY <1>4, BeginStep
  <1>5. CASE Visit(r)
    BY <1>5, VisitStep
  <1>6. CASE Return(r)
    BY <1>6, ReturnStep
  <1>7. CASE Forget(r)
    BY <1>7, ForgetStep
  <1>8. QED BY <1>1, <1>2, <1>3, <1>4, <1>5, <1>6, <1>7 DEF ReaderStep

\* Every other reader has its record and the box as they were.
LEMMA ReaderStepKeeps ==
  ASSUME ReadsInv, NEW r \in Readers, ReaderStep(r)
  PROVE  ReadsInv'
  <1>1. PICK new : Becomes(r, new)
    BY ReaderStepBecomes
  <1>2. /\ new \in ReadRec /\ ReadOK(new) /\ reads' = [reads EXCEPT ![r] = new]
        /\ files' = files /\ linked' = linked /\ db' = db /\ history' = history
    BY <1>1 DEF Becomes
  <1>3. BoxTyped /\ reads \in [Readers -> ReadRec] /\ \A q \in Readers : ReadOK(reads[q])
    BY Split DEF ReadsInv
  <1>4. reads' \in [Readers -> ReadRec] /\ BoxTyped'
    BY <1>2, <1>3 DEF BoxTyped
  <1>5. ASSUME NEW q \in Readers PROVE ReadOK(reads[q])'
    <2>1. PICK read : read = reads'[q] /\ ReadOK(read)
      BY <1>2, <1>3
    <2>2. ReadOKIn(read, files', history')
      BY <1>2, <2>1, OKNow
    <2>3. QED BY <2>1, <2>2, OKNext
  <1>6. NamedFileInv'
    BY <1>2 DEF ReadsInv, NamedFileInv, Last
  <1>7. ReadsTyped'
    BY <1>4 DEF ReadsTyped, BoxTyped, File, ReadRec
  <1>8. ReaderInv'
    BY <1>5 DEF ReaderInv, ReadOK
  <1>9. QED BY <1>6, <1>7, <1>8 DEF ReadsInv

LEMMA ReadsInvInit == ReadsInit => ReadsInv
  <1> SUFFICES ASSUME ReadsInit PROVE ReadsInv
    OBVIOUS
  <1>1. /\ files = <<>> /\ linked = 0 /\ db = Closed /\ history = <<Empty>>
        /\ reads = [r \in Readers |-> NoRead]
    BY DEF ReadsInit
  <1>2. BoxTyped
    BY <1>1, EmptyFacts DEF BoxTyped, Closed, Modes
  <1>3. NamedFileInv
    BY <1>1 DEF NamedFileInv, Closed, Last
  <1>4. reads \in [Readers -> ReadRec] /\ \A r \in Readers : ReadOK(reads[r])
    BY <1>1, NoReadOK
  <1>5. QED BY <1>2, <1>3, <1>4, Split DEF ReadsInv

LEMMA ReadsInvNext == ReadsInv /\ [ReadsNext]_readVars => ReadsInv'
  <1>1. CASE ReadsInv /\ ReadsNext
    BY <1>1, NextCases, BoxStepKeeps, ReaderStepKeeps
  <1>2. CASE ReadsInv /\ UNCHANGED readVars
    <2>1. files' = files /\ linked' = linked /\ db' = db /\ history' = history /\ reads' = reads
      BY <1>2 DEF readVars
    <2>2. ReadsTyped' /\ NamedFileInv'
      BY <1>2, <2>1 DEF ReadsInv, ReadsTyped, NamedFileInv, Last
    <2>3. ASSUME NEW r \in Readers PROVE ReadOK(reads[r])'
      <3>1. PICK read : read = reads[r] /\ ReadOK(read)
        BY <1>2, ReaderFacts
      <3>2. ReadOKIn(read, files', history') /\ read = reads'[r]
        BY <2>1, <3>1, OKNow
      <3>3. QED BY <3>2, OKNext
    <2>4. ReaderInv'
      BY <2>3 DEF ReaderInv, ReadOK
    <2>5. QED BY <2>2, <2>4 DEF ReadsInv
  <1>3. QED BY <1>1, <1>2

\* ReadsInv is an invariant of the reads (db.rs get_all and the registry).
LEMMA ReadsInvariant == ReadsSpec => []ReadsInv
  <1>1. QED BY ReadsInvInit, ReadsInvNext, PTL DEF ReadsSpec

-----------------------------------------------------------------------------
(* What a call that is done has answered.                                  *)

LEMMA DoneReads ==
  ASSUME NEW read \in ReadRec, NEW c \in Contents, read.snapshot = StoredAs(c, read.arc.mode),
         Visited(read), read.rest = <<>>
  PROVE  Reading(read, c)
  <1> DEFINE rows == Decoded(read)
  <1>1. /\ read.arc.mode \in Modes /\ read.keys \in Seq(Keys)
        /\ read.answer \in Seq([key : Keys, stored : Records])
    BY DEF ReadRec
  <1>2. \A k \in Keys : /\ read.snapshot[k] = Absent <=> c[k] = Absent
                        /\ c[k] # Absent => read.snapshot[k] = Stored(c[k], read.arc.mode)
    BY <1>1, StoredTyped
  <1>3. DOMAIN rows = DOMAIN read.answer
    BY DEF Decoded
  <1>4. ASSUME NEW n \in DOMAIN rows
        PROVE  /\ read.answer[n].key \in Keys
               /\ rows[n] = [key |-> read.answer[n].key, value |-> c[read.answer[n].key]]
    <2>1. PICK x : x = read.answer[n]
      OBVIOUS
    <2>2. x \in [key : Keys, stored : Records]
      <3>1. n \in DOMAIN read.answer
        BY <1>3
      <3>2. n \in 1..Len(read.answer)
        BY <1>1, <3>1
      <3>3. QED BY <1>1, <2>1, <3>2, ElementOfSeq
    <2>3. x.key \in Keys /\ x.stored \in Records /\ x.stored = read.snapshot[x.key]
      BY <1>3, <2>1, <2>2 DEF Visited
    <2>4. x.stored = Stored(c[x.key], read.arc.mode)
      BY <1>2, <2>3, AbsentAssumption
    <2>5. x.stored.mode = read.arc.mode /\ x.stored.value = c[x.key]
      BY <2>4 DEF Stored
    <2>6. rows[n] = [key |-> x.key,
                     value |-> IF x.stored.mode = read.arc.mode THEN x.stored.value ELSE Absent]
      BY <1>3, <2>1 DEF Decoded
    <2>7. QED BY <2>1, <2>3, <2>5, <2>6
  <1> HIDE DEF rows
  <1>5. CASE read.op = "all_keys"
    <2>1. ToSet(read.rest) = {}
      BY DEF ToSet
    <2>2. {read.answer[n].key : n \in DOMAIN read.answer} = {k \in Keys : read.snapshot[k] # Absent}
      BY <1>5, <2>1 DEF Visited
    <2>3. {rows[n].key : n \in DOMAIN rows} = {read.answer[n].key : n \in DOMAIN read.answer}
      <3>1. \A n \in DOMAIN rows : rows[n].key = read.answer[n].key
        BY <1>4
      <3>2. QED BY <1>3, <3>1
    <2>4. {k \in Keys : read.snapshot[k] # Absent} = {k \in Keys : c[k] # Absent}
      BY <1>2
    <2>5. {rows[n].key : n \in DOMAIN rows} = {k \in Keys : c[k] # Absent}
      BY <2>2, <2>3, <2>4
    <2>6. QED BY <1>5, <2>5 DEF Reading, rows
  <1>6. CASE read.op # "all_keys"
    <2>1. PICK m : m = Len(read.keys) - Len(read.rest)
      OBVIOUS
    <2>2. m = Len(read.keys) /\ 1..m = DOMAIN read.keys
      BY <1>1, <2>1
    <2>3. PICK place \in [DOMAIN read.answer -> 1..m] :
            /\ Enumerates(place, {i \in 1..m : read.snapshot[read.keys[i]] # Absent})
            /\ \A n \in DOMAIN read.answer : read.answer[n].key = read.keys[place[n]]
      BY <1>6, <2>1 DEF Visited
    <2>4. {i \in 1..m : read.snapshot[read.keys[i]] # Absent} = {i \in DOMAIN read.keys : c[read.keys[i]] # Absent}
      BY <1>1, <1>2, <2>2
    <2>5. place \in [DOMAIN rows -> DOMAIN read.keys]
      BY <1>3, <2>2, <2>3
    <2>6. Enumerates(place, {i \in DOMAIN read.keys : c[read.keys[i]] # Absent})
      BY <2>3, <2>4
    <2>7. \A n \in DOMAIN rows : LET k == read.keys[place[n]] IN rows[n] = [key |-> k, value |-> c[k]]
      BY <1>3, <1>4, <2>3
    <2>8. \E p \in [DOMAIN rows -> DOMAIN read.keys] :
            /\ Enumerates(p, {i \in DOMAIN read.keys : c[read.keys[i]] # Absent})
            /\ \A n \in DOMAIN rows : LET k == read.keys[p[n]] IN rows[n] = [key |-> k, value |-> c[k]]
      BY <2>5, <2>6, <2>7
    <2>9. QED BY <1>6, <2>8 DEF Reading, rows
  <1>7. QED BY <1>5, <1>6

LEMMA InvAnswers == ReadsInv => AnswersOneCommit
  <1> SUFFICES ASSUME ReadsInv, NEW r \in Readers, reads[r].pc = "done"
               PROVE  \E n \in reads[r].since..Len(history) : Reading(reads[r], history[n])
    BY DEF AnswersOneCommit
  <1>1. PICK read : read = reads[r]
    OBVIOUS
  <1>2. read \in ReadRec /\ ReadOK(read) /\ read.pc = "done"
    BY <1>1, ReaderFacts
  <1>3. /\ read.since \in 1..Len(history) /\ Since(read, read.snapshot)
        /\ Visited(read) /\ read.rest = <<>>
    BY <1>2 DEF ReadOK
  <1>4. PICK n \in read.since..Len(history) : read.snapshot = StoredAs(history[n], read.arc.mode)
    BY <1>3 DEF Since
  <1>5. history[n] \in Contents
    BY <1>3, <1>4 DEF ReadsInv, ReadsTyped
  <1>6. QED BY <1>1, <1>2, <1>3, <1>4, <1>5, DoneReads

\* A batch read answers from one content the box had during the call, in the
\* order of the request and decoded with the Arc it copied (db.rs get_all,
\* all_keys), whatever commits, closes, deletes and encrypts the box meanwhile.
THEOREM ReadsAnswerOneCommit == ReadsSpec => []AnswersOneCommit
  <1>1. QED BY ReadsInvariant, InvAnswers, PTL

-----------------------------------------------------------------------------
(* The wire format.  Trees have no bound on their number, and what a       *)
(* reader makes of them is found by induction on their height.             *)

\* Two types of leaves, told apart by name wherever a type is looked at.
USE DEF Dates

\* The trees with parts in S.
Above(S) ==
  {x \in [t : Types, s : Texts, items : Seq(S)] :
     x.t = "map" => \A i \in DOMAIN x.items : IsPair(x.items[i])}

LEMMA TreeUnfolds ==
  /\ Tree[0] = Above({})
  /\ \A n \in Nat : Tree[n + 1] = Above(Tree[n])
<1> DEFINE Lower(f, n) == IF n = 0 THEN {} ELSE f[n - 1]
           Body(f) == [n \in Nat |-> Above(Lower(f, n))]
           Upto(f, m) == \A n \in Nat : n < m => f[n] = Above(Lower(f, n))
           P == {m \in Nat : \E f : Upto(f, m)}
           G(m) == CHOOSE f : Upto(f, m)
<1>1. 0 \in P OBVIOUS
<1>2. ASSUME NEW m \in Nat, m \in P PROVE m + 1 \in P
  <2>1. PICK f : Upto(f, m) BY <1>2
  <2> DEFINE g == [n \in Nat |-> IF n < m THEN f[n] ELSE Above(Lower(f, n))]
  <2>2. ASSUME NEW n \in Nat, n < m + 1 PROVE g[n] = Above(Lower(g, n))
    <3>1. Lower(g, n) = Lower(f, n) BY <2>2
    <3>2. g[n] = Above(Lower(f, n)) BY <2>1
    <3> QED BY <3>1, <3>2
  <2>3. Upto(g, m + 1)
    <3> HIDE DEF g, Lower
    <3> QED BY <2>2
  <2> HIDE DEF Upto
  <2> QED BY <2>3
<1>3. \A m \in Nat : Upto(G(m), m)
  <2>1. Nat \subseteq P
    <3> HIDE DEF P
    <3> QED BY <1>1, <1>2, NaturalInduction
  <2> SUFFICES ASSUME NEW m \in Nat PROVE Upto(G(m), m) OBVIOUS
  <2>2. \E f : Upto(f, m) BY <2>1
  <2> HIDE DEF Upto
  <2> QED BY <2>2
<1> HIDE DEF G
<1> DEFINE Q == {n \in Nat : \A l, m \in Nat : n < l /\ n < m => G(l)[n] = G(m)[n]}
<1>4. Nat \subseteq Q
  <2>1. 0 \in Q BY <1>3
  <2>2. ASSUME NEW n \in Nat, n \in Q PROVE n + 1 \in Q
    <3> SUFFICES ASSUME NEW l \in Nat, NEW m \in Nat, n + 1 < l, n + 1 < m
                 PROVE  G(l)[n + 1] = G(m)[n + 1]
      OBVIOUS
    <3>1. n < l /\ n < m /\ n + 1 # 0 /\ n + 1 - 1 = n OBVIOUS
    <3>2. G(l)[n] = G(m)[n] BY <2>2, <3>1
    <3>3. G(l)[n + 1] = Above(G(l)[n]) /\ G(m)[n + 1] = Above(G(m)[n]) BY <1>3, <3>1
    <3> QED BY <3>2, <3>3
  <2> HIDE DEF Q
  <2> QED BY <2>1, <2>2, NaturalInduction
<1> DEFINE f == [n \in Nat |-> G(n + 1)[n]]
<1>5. f = Body(f)
  <2> SUFFICES ASSUME NEW n \in Nat PROVE f[n] = Above(Lower(f, n)) OBVIOUS
  <2>1. CASE n = 0 BY <1>3, <2>1
  <2>2. CASE n # 0
    <3>1. n - 1 \in Nat /\ n - 1 < n /\ n - 1 < n + 1 /\ n < n + 1 /\ n + 1 \in Nat /\ n - 1 + 1 = n BY <2>2
    <3>2. G(n)[n - 1] = G(n + 1)[n - 1] BY <1>4, <3>1
    <3>3. f[n - 1] = G(n)[n - 1] BY <3>1
    <3>4. G(n + 1)[n] = Above(G(n + 1)[n - 1]) BY <1>3, <2>2, <3>1
    <3> QED BY <2>2, <3>1, <3>2, <3>3, <3>4
  <2> QED BY <2>1, <2>2
<1>6. Tree = CHOOSE g : g = Body(g) BY DEF Tree, Above
<1>7. Tree = Body(Tree)
  <2> HIDE DEF f, Body
  <2> QED BY <1>5, <1>6
<1>8. Tree[0] = Above({}) BY <1>7
<1>9. ASSUME NEW n \in Nat PROVE Tree[n + 1] = Above(Tree[n])
  <2>1. n + 1 \in Nat /\ n + 1 # 0 /\ n + 1 - 1 = n OBVIOUS
  <2>2. Body(Tree)[n + 1] = Above(Lower(Tree, n + 1)) BY <2>1
  <2>3. Lower(Tree, n + 1) = Tree[n] BY <2>1
  <2> QED BY <1>7, <2>2, <2>3
<1> QED BY <1>8, <1>9

LEMMA SeqParts ==
  ASSUME NEW S, NEW s \in Seq(S)
  PROVE  /\ Len(s) \in Nat /\ DOMAIN s = 1..Len(s)
         /\ \A i \in DOMAIN s : s[i] \in S
BY LenProperties, ElementOfSeq

\* A function on the places of a sequence is a sequence.
LEMMA SeqOnPlaces ==
  ASSUME NEW S, NEW s \in Seq(S), NEW T, NEW f, f = [i \in DOMAIN f |-> f[i]], DOMAIN f = DOMAIN s,
         \A i \in DOMAIN s : f[i] \in T
  PROVE  f \in Seq(T) /\ Len(f) = Len(s)
<1>1. Len(s) \in Nat /\ DOMAIN s = 1..Len(s) BY SeqParts
<1>2. f \in [1..Len(s) -> T] BY <1>1
<1>3. f \in Seq(T) BY <1>1, <1>2, SeqDef
<1>4. Len(f) \in Nat /\ 1..Len(f) = 1..Len(s) BY <1>1, <1>3, LenProperties
<1> QED BY <1>1, <1>3, <1>4

LEMMA TreeGrows == \A n \in Nat : Tree[n] \subseteq Tree[n + 1]
<1> DEFINE P == {n \in Nat : Tree[n] \subseteq Tree[n + 1]}
<1>1. ASSUME NEW S, NEW T, S \subseteq T PROVE Above(S) \subseteq Above(T)
  <2>1. \A s \in Seq(S) : s \in Seq(T) BY <1>1, SeqMonotonic
  <2> QED BY <2>1 DEF Above
<1>2. 0 \in P
  <2>1. {} \subseteq Tree[0] OBVIOUS
  <2>2. Above({}) \subseteq Above(Tree[0]) BY <1>1, <2>1
  <2> QED BY <2>2, TreeUnfolds
<1>3. ASSUME NEW n \in Nat, n \in P PROVE n + 1 \in P
  <2>1. Above(Tree[n]) \subseteq Above(Tree[n + 1]) BY <1>1, <1>3
  <2> QED BY <2>1, TreeUnfolds
<1>4. Nat \subseteq P
  <2> HIDE DEF P
  <2> QED BY <1>2, <1>3, NaturalInduction
<1> QED BY <1>4

LEMMA TreeMonotonic ==
  ASSUME NEW m \in Nat, NEW n \in Nat, m <= n
  PROVE  Tree[m] \subseteq Tree[n]
<1> DEFINE P == {k \in Nat : Tree[m] \subseteq Tree[m + k]}
<1>1. 0 \in P OBVIOUS
<1>2. ASSUME NEW k \in Nat, k \in P PROVE k + 1 \in P
  <2>1. m + k \in Nat /\ m + (k + 1) = (m + k) + 1 OBVIOUS
  <2> QED BY <1>2, <2>1, TreeGrows
<1>3. Nat \subseteq P
  <2> HIDE DEF P
  <2> QED BY <1>1, <1>2, NaturalInduction
<1>4. n - m \in Nat /\ m + (n - m) = n OBVIOUS
<1>5. Tree[m] \subseteq Tree[m + (n - m)] BY <1>3, <1>4
<1> QED BY <1>4, <1>5

-----------------------------------------------------------------------------
(* How trees are made, level by level, and of what they consist.           *)

\* A tree with parts in S.
IsTree(x, S) ==
  /\ x.t \in Types /\ x.s \in Texts /\ x.items \in Seq(S)
  /\ x = [t |-> x.t, s |-> x.s, items |-> x.items]
  /\ x.t = "map" => \A i \in DOMAIN x.items : IsPair(x.items[i])

LEMMA AboveMeans ==
  ASSUME NEW S
  PROVE  \A x : x \in Above(S) <=> IsTree(x, S)
<1>1. ASSUME NEW x, x \in [t : Types, s : Texts, items : Seq(S)]
      PROVE  x = [t |-> x.t, s |-> x.s, items |-> x.items]
  BY <1>1
<1>2. ASSUME NEW x, x = [t |-> x.t, s |-> x.s, items |-> x.items],
             x.t \in Types, x.s \in Texts, x.items \in Seq(S)
      PROVE  x \in [t : Types, s : Texts, items : Seq(S)]
  BY <1>2
<1> QED BY <1>1, <1>2 DEF Above, IsTree

LEMMA LevelMeans ==
  ASSUME NEW n \in Nat
  PROVE  \A x : x \in Tree[n + 1] <=> IsTree(x, Tree[n])
BY TreeUnfolds, AboveMeans

LEMMA LowestMeans ==
  \A x : x \in Tree[0] <=> IsTree(x, {})
BY TreeUnfolds, AboveMeans

LEMMA OwnTextsAreTexts == \A s \in OwnTexts : s \in Texts
BY TextsAssumption

\* The sequences of pairs of S.
PairsOf(S) == {p \in S : IsPair(p)}

LEMMA NodeIsTree ==
  ASSUME NEW S, NEW t \in Types, NEW items \in Seq(S),
         t = "map" => items \in Seq(PairsOf(S))
  PROVE  IsTree(Node(t, items), S)
<1>1. "" \in Texts BY OwnTextsAreTexts DEF OwnTexts
<1>2. Node(t, items) = [t |-> t, s |-> "", items |-> items] BY DEF Node
<1>3. t = "map" => \A i \in DOMAIN items : IsPair(items[i])
  BY SeqParts DEF PairsOf
<1> DEFINE x == Node(t, items)
<1>4. x.t = t /\ x.s = "" /\ x.items = items /\ x = [t |-> x.t, s |-> x.s, items |-> x.items]
  BY <1>2 DEF Node
<1> HIDE DEF x
<1>5. x.t = "map" => \A i \in DOMAIN x.items : IsPair(x.items[i]) BY <1>3, <1>4
<1>6. IsTree(x, S) BY <1>1, <1>4, <1>5 DEF IsTree
<1> QED BY <1>6 DEF x

LEMMA LeafIsTree ==
  ASSUME NEW t \in Types, NEW s \in Texts, NEW S
  PROVE  IsTree(Leaf(t, s), S)
BY EmptySeq DEF IsTree, Leaf

LEMMA TwoIsSeq ==
  ASSUME NEW S, NEW a \in S, NEW b \in S
  PROVE  /\ <<a, b>> \in Seq(S) /\ Len(<<a, b>>) = 2 /\ DOMAIN <<a, b>> = {1, 2}
         /\ <<a, b>>[1] = a /\ <<a, b>>[2] = b
OBVIOUS

LEMMA PairIsTree ==
  ASSUME NEW S, NEW k \in S, NEW v \in S
  PROVE  IsTree(Pair(k, v), S) /\ IsPair(Pair(k, v))
<1>1. <<k, v>> \in Seq(S) BY TwoIsSeq
<1>2. "pair" \in Types /\ "pair" # "map" BY DEF Types
<1>3. IsTree(Node("pair", <<k, v>>), S) BY <1>1, <1>2, NodeIsTree
<1> QED BY <1>3 DEF Pair, IsPair, Node

LEMMA PairParts ==
  ASSUME NEW S, NEW p, IsTree(p, S), IsPair(p)
  PROVE  /\ p = Pair(p.items[1], p.items[2])
         /\ DOMAIN p.items = {1, 2} /\ p.items[1] \in S /\ p.items[2] \in S
<1>1. p.items \in Seq(S) /\ Len(p.items) = 2 BY DEF IsTree, IsPair
<1>2. DOMAIN p.items = 1..2 BY <1>1, SeqParts
<1>3. p.items = <<p.items[1], p.items[2]>> BY <1>1, <1>2
<1>4. p.items[1] \in S /\ p.items[2] \in S BY <1>1, <1>2, SeqParts
<1>5. p = [t |-> p.t, s |-> p.s, items |-> p.items] /\ p.t = "pair" /\ p.s = "" BY DEF IsTree, IsPair
<1>6. p = Pair(p.items[1], p.items[2]) BY <1>3, <1>5 DEF Pair, Node
<1> QED BY <1>2, <1>4, <1>6

-----------------------------------------------------------------------------
(* The trees of any number of levels: what can be made of them, and how    *)
(* high each is.                                                           *)

AllTrees == UNION {Tree[n] : n \in Nat}

LEMMA ManyInOne ==
  ASSUME NEW s \in Seq(AllTrees)
  PROVE  \E n \in Nat : s \in Seq(Tree[n])
<1> DEFINE Upto(k, n) == \A i \in DOMAIN s : i <= k => s[i] \in Tree[n]
           P == {k \in Nat : \E n \in Nat : Upto(k, n)}
<1>0. Len(s) \in Nat /\ DOMAIN s = 1..Len(s) /\ \A i \in DOMAIN s : s[i] \in AllTrees
  BY SeqParts
<1>1. 0 \in P
  <2>1. Upto(0, 0) BY <1>0
  <2> QED BY <2>1
<1>2. ASSUME NEW k \in Nat, k \in P PROVE k + 1 \in P
  <2>1. PICK n \in Nat : Upto(k, n) BY <1>2
  <2>2. CASE k + 1 \notin DOMAIN s
    <3>1. Upto(k + 1, n)
      <4> SUFFICES ASSUME NEW i \in DOMAIN s, i <= k + 1 PROVE s[i] \in Tree[n] OBVIOUS
      <4>1. i \in Nat /\ i # k + 1 BY <1>0, <2>2
      <4>2. i <= k BY <4>1
      <4> QED BY <2>1, <4>2
    <3> QED BY <3>1
  <2>3. CASE k + 1 \in DOMAIN s
    <3>1. PICK m \in Nat : s[k + 1] \in Tree[m] BY <1>0, <2>3 DEF AllTrees
    <3> DEFINE l == IF m <= n THEN n ELSE m
    <3>2. l \in Nat /\ m <= l /\ n <= l OBVIOUS
    <3>3. Tree[m] \subseteq Tree[l] /\ Tree[n] \subseteq Tree[l]
      <4> HIDE DEF l
      <4> QED BY <3>2, TreeMonotonic
    <3>4. Upto(k + 1, l)
      <4> SUFFICES ASSUME NEW i \in DOMAIN s, i <= k + 1 PROVE s[i] \in Tree[l] OBVIOUS
      <4>1. i \in Nat /\ (i = k + 1 \/ i <= k) BY <1>0
      <4> HIDE DEF l
      <4> QED BY <2>1, <3>1, <3>3, <4>1
    <3> HIDE DEF l, Upto
    <3> QED BY <3>2, <3>4
  <2> QED BY <2>2, <2>3
<1>3. Nat \subseteq P
  <2> HIDE DEF P
  <2> QED BY <1>1, <1>2, NaturalInduction
<1>4. PICK n \in Nat : Upto(Len(s), n) BY <1>0, <1>3
<1>5. \A i \in DOMAIN s : s[i] \in Tree[n] BY <1>0, <1>4
<1>6. s \in Seq(Tree[n]) BY <1>0, <1>5, SeqOnPlaces
<1> QED BY <1>6

LEMMA AllMeans == \A x : x \in AllTrees <=> IsTree(x, AllTrees)
<1>1. ASSUME NEW x \in AllTrees PROVE IsTree(x, AllTrees)
  <2>1. PICK n \in Nat : x \in Tree[n] BY DEF AllTrees
  <2>2. IsTree(x, Tree[n]) BY <2>1, LevelMeans, TreeGrows
  <2>3. Tree[n] \subseteq AllTrees BY DEF AllTrees
  <2>4. x.items \in Seq(AllTrees) BY <2>2, <2>3, SeqMonotonic DEF IsTree
  <2> QED BY <2>2, <2>4 DEF IsTree
<1>2. ASSUME NEW x, IsTree(x, AllTrees) PROVE x \in AllTrees
  <2>1. PICK n \in Nat : x.items \in Seq(Tree[n]) BY <1>2, ManyInOne DEF IsTree
  <2>2. IsTree(x, Tree[n]) BY <1>2, <2>1 DEF IsTree
  <2>3. x \in Tree[n + 1] /\ n + 1 \in Nat BY <2>2, LevelMeans
  <2> QED BY <2>3 DEF AllTrees
<1> QED BY <1>1, <1>2

\* The fewest levels that hold x.
Height == [x \in AllTrees |-> CHOOSE n \in Nat : /\ x \in Tree[n]
                                                 /\ \A m \in Nat : x \in Tree[m] => n <= m]

LEMMA HeightMeans ==
  ASSUME NEW x \in AllTrees
  PROVE  Height[x] \in Nat /\ x \in Tree[Height[x]] /\ \A m \in Nat : x \in Tree[m] => Height[x] <= m
<1> DEFINE T == {n \in Nat : x \in Tree[n]}
<1>1. T \subseteq Nat /\ T # {} BY DEF AllTrees
<1>2. \E n \in T : \A m \in T : <<m, n>> \notin OpToRel(<, Nat)
  <2> HIDE DEF T
  <2> QED BY <1>1, NatLessThanWellFounded, WFMin
<1>3. \E n \in T : \A m \in T : ~(m < n) BY <1>2 DEF OpToRel
<1>4. \E n \in Nat : x \in Tree[n] /\ \A m \in Nat : x \in Tree[m] => n <= m BY <1>3
<1> QED BY <1>4 DEF Height

LEMMA PartsAreLower ==
  ASSUME NEW x \in AllTrees, NEW i \in DOMAIN x.items
  PROVE  x.items[i] \in AllTrees /\ Height[x.items[i]] < Height[x]
<1> DEFINE n == Height[x]
<1>1. n \in Nat /\ x \in Tree[n] BY HeightMeans
<1>2. x.items \in Seq(AllTrees) BY AllMeans DEF IsTree
<1>3. x.items[i] \in AllTrees BY <1>2, SeqParts
<1>4. n # 0
  <2> SUFFICES ASSUME n = 0 PROVE FALSE OBVIOUS
  <2>1. x.items \in Seq({}) BY <1>1, LowestMeans DEF IsTree
  <2> QED BY <2>1, SeqParts
<1>5. n - 1 \in Nat /\ n - 1 + 1 = n BY <1>1, <1>4
<1> HIDE DEF n
<1>6. x.items \in Seq(Tree[n - 1]) BY <1>1, <1>5, LevelMeans DEF IsTree
<1>7. x.items[i] \in Tree[n - 1] BY <1>6, SeqParts
<1>8. Height[x.items[i]] <= n - 1 /\ Height[x.items[i]] \in Nat BY <1>3, <1>5, <1>7, HeightMeans
<1>9. Height[x.items[i]] < n BY <1>1, <1>8
<1> QED BY <1>3, <1>9 DEF n

-----------------------------------------------------------------------------
(* A definition by recursion on trees determines a function.               *)

\* D has with a tree its parts.
WithParts(D) ==
  /\ D \subseteq AllTrees
  /\ \A x \in D : x.items \in Seq(D)

HeightOn(D) == [x \in D |-> Height[x]]

LEMMA TreesAreClosed == WithParts(DartTrees) /\ WithParts(WireTrees)
<1>1. ASSUME NEW n \in Nat PROVE WithParts(Tree[n])
  <2>1. \A x \in Tree[n] : IsTree(x, Tree[n]) BY LevelMeans, TreeGrows
  <2> QED BY <2>1 DEF WithParts, AllTrees, IsTree
<1>2. Nesting \in Nat /\ 2 * Nesting + 1 \in Nat BY NestingAssumption
<1> QED BY <1>1, <1>2 DEF DartTrees, WireTrees

\* The trees of D that are lower than x.
Below(D, x) == {y \in D : Height[y] < Height[x]}

LEMMA BelowParts ==
  ASSUME NEW D, WithParts(D), NEW x \in D
  PROVE  /\ x.items \in Seq(Below(D, x))
         /\ \A i \in DOMAIN x.items : x.items[i] \in D /\ Below(D, x.items[i]) \subseteq Below(D, x)
<1>1. x \in AllTrees /\ x.items \in Seq(D) BY DEF WithParts
<1>2. ASSUME NEW i \in DOMAIN x.items
      PROVE  /\ x.items[i] \in D /\ x.items[i] \in Below(D, x)
             /\ Below(D, x.items[i]) \subseteq Below(D, x)
  <2>1. x.items[i] \in D BY <1>1, SeqParts
  <2>2. Height[x.items[i]] < Height[x] BY <1>1, PartsAreLower
  <2>3. Height[x.items[i]] \in Nat /\ Height[x] \in Nat BY <1>1, <2>1, HeightMeans DEF WithParts
  <2>4. \A y \in D : Height[y] \in Nat BY HeightMeans DEF WithParts
  <2> QED BY <2>1, <2>2, <2>3, <2>4 DEF Below
<1>3. x.items \in Seq(Below(D, x)) BY <1>1, <1>2, SeqParts, SeqOnPlaces
<1> QED BY <1>2, <1>3

\* H makes functions on D of such functions, and what it makes of F at x
\* depends on F at lower trees alone.
IsTreeBody(H, D, V) ==
  /\ H \in [[D -> V] -> [D -> V]]
  /\ \A F, G \in [D -> V], x \in D : (\A y \in Below(D, x) : F[y] = G[y]) => H[F][x] = H[G][x]

LEMMA TreeFunction ==
  ASSUME NEW D, WithParts(D), NEW V, V # {}, NEW H, IsTreeBody(H, D, V)
  PROVE  \E F \in [D -> V] : F = H[F]
<1> DEFINE Depth == HeightOn(D)
<1>1. Depth \in [D -> Nat] BY HeightMeans DEF HeightOn, WithParts
<1>2. \A F, G \in [D -> V], x \in D :
        SameBelow(F, G, x, D, Depth) => \A y \in Below(D, x) : F[y] = G[y]
  BY DEF SameBelow, Below, HeightOn
<1>3. IsBody(H, D, V, Depth) BY <1>2 DEF IsBody, IsTreeBody
<1> HIDE DEF Depth
<1> QED BY <1>1, <1>3, DepthRecursion

\* What holds of a tree when it holds of all lower ones, holds of all.
LEMMA HeightInduction ==
  ASSUME NEW D, WithParts(D), NEW P, \A x \in D : Below(D, x) \subseteq P => x \in P
  PROVE  D \subseteq P
<1> DEFINE Q == {n \in Nat : \A x \in D : Height[x] < n => x \in P}
<1>0. \A x \in D : Height[x] \in Nat BY HeightMeans DEF WithParts
<1>1. 0 \in Q BY <1>0
<1>2. ASSUME NEW n \in Nat, n \in Q PROVE n + 1 \in Q
  <2> SUFFICES ASSUME NEW x \in D, Height[x] < n + 1 PROVE x \in P OBVIOUS
  <2>1. ASSUME NEW y \in Below(D, x) PROVE y \in P
    <3>1. y \in D /\ Height[y] < Height[x] BY DEF Below
    <3>2. Height[y] < n BY <1>0, <3>1
    <3> QED BY <1>2, <3>1, <3>2
  <2> QED BY <2>1
<1>3. Nat \subseteq Q
  <2> HIDE DEF Q
  <2> QED BY <1>1, <1>2, NaturalInduction
<1> SUFFICES ASSUME NEW x \in D PROVE x \in P OBVIOUS
<1>4. Height[x] + 1 \in Nat /\ Height[x] < Height[x] + 1 BY <1>0
<1> QED BY <1>3, <1>4

\* Two functions that agree at a tree when they agree below it agree.
LEMMA OneFunction ==
  ASSUME NEW D, WithParts(D), NEW F, NEW G, F = [x \in D |-> F[x]], G = [x \in D |-> G[x]],
         \A x \in D : (\A y \in Below(D, x) : F[y] = G[y]) => F[x] = G[x]
  PROVE  F = G
<1> DEFINE P == {x \in D : F[x] = G[x]}
<1>1. \A x \in D : Below(D, x) \subseteq P => x \in P OBVIOUS
<1>2. D \subseteq P
  <2> HIDE DEF P
  <2> QED BY <1>1, HeightInduction
<1>3. \A x \in D : F[x] = G[x] BY <1>2
<1> QED BY <1>3

-----------------------------------------------------------------------------
(* The helpers of the readers make trees of trees.                         *)

LEMMA OwnTrees ==
  /\ Invalid \in AllTrees /\ Missing \in AllTrees /\ Nil \in AllTrees
  /\ \A t \in Types, s \in Texts : Leaf(t, s) \in AllTrees
  /\ \A t \in Types \ {"map"}, items \in Seq(AllTrees) : Node(t, items) \in AllTrees
  /\ \A k, v \in AllTrees : Pair(k, v) \in AllTrees
<1>1. \A t \in Types, s \in Texts : Leaf(t, s) \in AllTrees BY LeafIsTree, AllMeans
<1>2. "" \in Texts BY OwnTextsAreTexts DEF OwnTexts
<1>3. "invalid" \in Types /\ "missing" \in Types /\ "nil" \in Types BY DEF Types, Scalars
<1>4. Invalid \in AllTrees /\ Missing \in AllTrees /\ Nil \in AllTrees
  BY <1>1, <1>2, <1>3 DEF Invalid, Missing, Nil
<1>5. \A t \in Types \ {"map"}, items \in Seq(AllTrees) : Node(t, items) \in AllTrees
  BY NodeIsTree, AllMeans
<1>6. \A k, v \in AllTrees : Pair(k, v) \in AllTrees BY PairIsTree, AllMeans
<1> QED BY <1>1, <1>4, <1>5, <1>6

LEMMA WholeIsTree ==
  ASSUME NEW t \in Types, NEW items \in Seq(AllTrees),
         t = "map" => \A i \in DOMAIN items : items[i] = Invalid \/ IsPair(items[i])
  PROVE  /\ Whole(t, items) \in AllTrees
         /\ Whole(t, items) = Invalid \/ (Whole(t, items) = Node(t, items)
                                            /\ \A i \in DOMAIN items : items[i] # Invalid)
<1>1. CASE \E i \in DOMAIN items : items[i] = Invalid BY <1>1, OwnTrees DEF Whole
<1>2. CASE \A i \in DOMAIN items : items[i] # Invalid
  <2>1. Whole(t, items) = Node(t, items) BY <1>2 DEF Whole
  <2>2. t = "map" => items \in Seq(PairsOf(AllTrees))
    <3> SUFFICES ASSUME t = "map" PROVE items \in Seq(PairsOf(AllTrees)) OBVIOUS
    <3>1. \A i \in DOMAIN items : items[i] \in PairsOf(AllTrees) BY <1>2, SeqParts DEF PairsOf
    <3>2. items = [i \in DOMAIN items |-> items[i]] BY SeqParts, LenProperties
    <3> QED BY <3>1, <3>2, SeqOnPlaces
  <2>3. IsTree(Node(t, items), AllTrees) BY <2>2, NodeIsTree
  <2> QED BY <1>2, <2>1, <2>3, AllMeans
<1> QED BY <1>1, <1>2

LEMMA BelowBelow ==
  ASSUME NEW D, WithParts(D), NEW x \in D, NEW y \in Below(D, x)
  PROVE  Below(D, y) \subseteq Below(D, x) /\ Below(D, y) \subseteq AllTrees
<1>1. \A z \in D : Height[z] \in Nat BY HeightMeans DEF WithParts
<1> QED BY <1>1 DEF Below, WithParts

\* The trees of a sequence of pairs: keys and values in S.
KeysIn(ps, S)   == \A i \in DOMAIN ps : ps[i].items[1] \in S
ValuesIn(ps, S) == \A i \in DOMAIN ps : ps[i].items[2] \in S

LEMMA EachIs ==
  ASSUME NEW S, NEW ws \in Seq(S), NEW V, NEW F, \A y \in S : F[y] \in V
  PROVE  /\ Each(F, ws) \in Seq(V) /\ DOMAIN Each(F, ws) = DOMAIN ws
         /\ Len(Each(F, ws)) = Len(ws)
         /\ \A i \in DOMAIN ws : Each(F, ws)[i] = F[ws[i]]
<1> DEFINE f == Each(F, ws)
<1>1. DOMAIN f = DOMAIN ws /\ f = [i \in DOMAIN f |-> f[i]] /\ \A i \in DOMAIN ws : f[i] = F[ws[i]]
  BY DEF Each
<1>2. \A i \in DOMAIN ws : f[i] \in V BY <1>1, SeqParts
<1> HIDE DEF f
<1>3. f \in Seq(V) /\ Len(f) = Len(ws) BY <1>1, <1>2, SeqOnPlaces
<1> QED BY <1>1, <1>3 DEF f

LEMMA EachSame ==
  ASSUME NEW S, NEW ws \in Seq(S), NEW F, NEW G, \A y \in S : F[y] = G[y]
  PROVE  Each(F, ws) = Each(G, ws)
<1>1. \A i \in DOMAIN ws : F[ws[i]] = G[ws[i]] BY SeqParts
<1> QED BY <1>1 DEF Each

LEMMA WholeTwo ==
  ASSUME NEW t \in Types \ {"map"}, NEW a \in AllTrees, NEW b \in AllTrees
  PROVE  /\ Whole(t, <<a, b>>) \in AllTrees
         /\ Whole(t, <<a, b>>) = IF a = Invalid \/ b = Invalid THEN Invalid ELSE Node(t, <<a, b>>)
         /\ t = "pair" => Whole(t, <<a, b>>) = Invalid \/ IsPair(Whole(t, <<a, b>>))
<1> DEFINE s == <<a, b>>
<1>1. s \in Seq(AllTrees) /\ DOMAIN s = {1, 2} /\ s[1] = a /\ s[2] = b /\ Len(s) = 2 BY TwoIsSeq
<1> HIDE DEF s
<1>2. Whole(t, s) = IF a = Invalid \/ b = Invalid THEN Invalid ELSE Node(t, s)
  BY <1>1 DEF Whole
<1>3. Whole(t, s) \in AllTrees BY <1>1, WholeIsTree
<1>4. t = "pair" => IsPair(Node(t, s)) BY <1>1 DEF IsPair, Node
<1> QED BY <1>2, <1>3, <1>4 DEF s

LEMMA EachPairIs ==
  ASSUME NEW t \in Types \ {"map"}, NEW S, NEW ps \in Seq(S), NEW D, NEW F,
         \A y \in D : F[y] \in AllTrees, KeysIn(ps, AllTrees), ValuesIn(ps, D)
  PROVE  /\ EachPair(t, F, ps) \in Seq(AllTrees) /\ DOMAIN EachPair(t, F, ps) = DOMAIN ps
         /\ \A i \in DOMAIN ps : EachPair(t, F, ps)[i] = Whole(t, <<ps[i].items[1], F[ps[i].items[2]]>>)
         /\ t = "pair" => \A i \in DOMAIN ps :
              EachPair(t, F, ps)[i] = Invalid \/ IsPair(EachPair(t, F, ps)[i])
<1> DEFINE f == EachPair(t, F, ps)
<1>1. /\ DOMAIN f = DOMAIN ps /\ f = [i \in DOMAIN f |-> f[i]]
      /\ \A i \in DOMAIN ps : f[i] = Whole(t, <<ps[i].items[1], F[ps[i].items[2]]>>)
  BY DEF EachPair
<1> HIDE DEF f
<1>2. \A i \in DOMAIN ps : /\ f[i] \in AllTrees
                           /\ t = "pair" => f[i] = Invalid \/ IsPair(f[i])
  <2> SUFFICES ASSUME NEW i \in DOMAIN ps
               PROVE  f[i] \in AllTrees /\ (t = "pair" => f[i] = Invalid \/ IsPair(f[i]))
    OBVIOUS
  <2>1. ps[i].items[1] \in AllTrees /\ F[ps[i].items[2]] \in AllTrees BY DEF KeysIn, ValuesIn
  <2> DEFINE a == ps[i].items[1]
             b == F[ps[i].items[2]]
  <2>2. f[i] = Whole(t, <<a, b>>) BY <1>1
  <2> HIDE DEF a, b
  <2>3. Whole(t, <<a, b>>) \in AllTrees /\ (t = "pair" => Whole(t, <<a, b>>) = Invalid \/ IsPair(Whole(t, <<a, b>>)))
    BY <2>1, WholeTwo DEF a, b
  <2> QED BY <2>2, <2>3
<1>3. f \in Seq(AllTrees) BY <1>1, <1>2, SeqOnPlaces
<1> QED BY <1>1, <1>2, <1>3 DEF f

LEMMA EachPairSame ==
  ASSUME NEW t, NEW ps, NEW D, NEW F, NEW G, \A y \in D : F[y] = G[y], ValuesIn(ps, D)
  PROVE  EachPair(t, F, ps) = EachPair(t, G, ps)
BY DEF EachPair, ValuesIn

-----------------------------------------------------------------------------
(* The parts that the readers go down to are lower.                        *)

LEMMA MapParts ==
  ASSUME NEW D, WithParts(D), NEW x \in D, x.t = "map"
  PROVE  /\ x.items \in Seq(D) /\ KeysIn(x.items, Below(D, x)) /\ ValuesIn(x.items, Below(D, x))
         /\ \A i \in DOMAIN x.items :
              /\ x.items[i] = Pair(x.items[i].items[1], x.items[i].items[2])
              /\ x.items[i].items \in Seq(Below(D, x)) /\ DOMAIN x.items[i].items = {1, 2}
<1>1. IsTree(x, AllTrees) /\ x.items \in Seq(D) BY AllMeans DEF WithParts
<1>2. ASSUME NEW i \in DOMAIN x.items
      PROVE  /\ x.items[i] = Pair(x.items[i].items[1], x.items[i].items[2])
             /\ x.items[i].items[1] \in Below(D, x) /\ x.items[i].items[2] \in Below(D, x)
             /\ x.items[i].items \in Seq(Below(D, x)) /\ DOMAIN x.items[i].items = {1, 2}
  <2> DEFINE p == x.items[i]
  <2>1. p \in D /\ Below(D, p) \subseteq Below(D, x) BY BelowParts
  <2>2. IsPair(p) BY <1>1 DEF IsTree
  <2>3. p \in AllTrees BY <2>1 DEF WithParts
  <2> HIDE DEF p
  <2>4. IsTree(p, AllTrees) BY <2>3, AllMeans
  <2>5. p = Pair(p.items[1], p.items[2]) /\ DOMAIN p.items = {1, 2} BY <2>2, <2>4, PairParts
  <2>6. p.items \in Seq(Below(D, p)) BY <2>1, BelowParts
  <2>7. p.items \in Seq(Below(D, x)) BY <2>1, <2>6, SeqMonotonic
  <2>8. p.items[1] \in Below(D, x) /\ p.items[2] \in Below(D, x) BY <2>5, <2>7, SeqParts
  <2> QED BY <2>5, <2>7, <2>8 DEF p
<1> QED BY <1>1, <1>2 DEF KeysIn, ValuesIn

LEMMA TaggedParts ==
  ASSUME NEW D, WithParts(D), NEW x \in D, IsTagged(x)
  PROVE  /\ Payload(x) \in Below(D, x) /\ Payload(x) \in D
         /\ Payload(x).items \in Seq(Below(D, x)) /\ Payload(x).items \in Seq(D)
         /\ DOMAIN x.items = {1, 2}
         /\ x.items[1] \in D /\ x.items[1].t = "str"
<1>1. x.items \in Seq(Below(D, x)) /\ Len(x.items) = 2 /\ x.items[1].t = "str"
  BY BelowParts DEF IsTagged
<1>2. DOMAIN x.items = 1..2 BY <1>1, SeqParts
<1>3. 1 \in DOMAIN x.items /\ 2 \in DOMAIN x.items BY <1>2
<1>4. /\ x.items[1] \in D /\ x.items[2] \in D /\ x.items[2] \in Below(D, x)
      /\ Below(D, x.items[2]) \subseteq Below(D, x)
  BY <1>1, <1>3, SeqParts, BelowParts
<1>5. x.items[2].items \in Seq(Below(D, x)) BY <1>4, BelowParts, SeqMonotonic
<1>6. Below(D, x) \subseteq D BY DEF Below
<1>7. x.items[2].items \in Seq(D) BY <1>5, <1>6, SeqMonotonic
<1> QED BY <1>1, <1>2, <1>4, <1>5, <1>7 DEF Payload

LEMMA EntryParts ==
  ASSUME NEW D, WithParts(D), NEW p \in D, Entries(p)
  PROVE  /\ p.items \in Seq(D) /\ KeysIn(p.items, Below(D, p)) /\ ValuesIn(p.items, Below(D, p))
         /\ \A i \in DOMAIN p.items : DOMAIN p.items[i].items = {1, 2} /\ p.items[i].items[1].t = "str"
<1>1. p.items \in Seq(D) BY DEF WithParts
<1>2. ASSUME NEW i \in DOMAIN p.items
      PROVE  /\ p.items[i].items[1] \in Below(D, p) /\ p.items[i].items[2] \in Below(D, p)
             /\ DOMAIN p.items[i].items = {1, 2} /\ p.items[i].items[1].t = "str"
  <2> DEFINE e == p.items[i]
  <2>1. e \in D /\ Below(D, e) \subseteq Below(D, p) BY BelowParts
  <2>2. Len(e.items) = 2 /\ e.items[1].t = "str" BY DEF Entries, Entry
  <2> HIDE DEF e
  <2>3. e.items \in Seq(Below(D, e)) BY <2>1, BelowParts
  <2>4. DOMAIN e.items = 1..2 BY <2>2, <2>3, SeqParts
  <2>5. 1 \in DOMAIN e.items /\ 2 \in DOMAIN e.items BY <2>4
  <2>6. e.items[1] \in Below(D, p) /\ e.items[2] \in Below(D, p) BY <2>1, <2>3, <2>5, SeqParts
  <2> QED BY <2>2, <2>4, <2>6 DEF e
<1> QED BY <1>1, <1>2 DEF KeysIn, ValuesIn

LEMMA TagMeans ==
  ASSUME NEW x, Tag(x) # "none"
  PROVE  IsTagged(x) /\ x.t = "arr" /\ Tag(x) = x.items[1].s
BY DEF Tag, IsTagged

-----------------------------------------------------------------------------
(* codec.dart: ToWire.                                                     *)

LEMMA ArrIsTree ==
  /\ \A items \in Seq(AllTrees) : Arr(items) \in AllTrees
  /\ \A tag \in OwnTexts, p \in AllTrees : Tagged(tag, p) \in AllTrees
<1>1. "arr" \in Types \ {"map"} /\ "str" \in Types BY DEF Types, Scalars
<1>2. \A items \in Seq(AllTrees) : Arr(items) \in AllTrees BY <1>1, OwnTrees DEF Arr
<1>3. ASSUME NEW tag \in OwnTexts, NEW p \in AllTrees PROVE Tagged(tag, p) \in AllTrees
  <2>1. Str(tag) \in AllTrees BY <1>1, OwnTextsAreTexts, OwnTrees DEF Str
  <2>2. <<Str(tag), p>> \in Seq(AllTrees) BY <2>1, TwoIsSeq
  <2> QED BY <1>2, <2>2 DEF Tagged
<1> QED BY <1>2, <1>3

LEMMA TagWholeIsTree ==
  ASSUME NEW tag \in OwnTexts, NEW items \in Seq(AllTrees)
  PROVE  TagWhole(tag, items) \in AllTrees
BY OwnTrees, ArrIsTree DEF TagWhole

LEMMA WireCases ==
  ASSUME NEW F, NEW x
  PROVE  /\ x.t \in Scalars => ToWireBy(F, x) = x
         /\ x.t = "bytes" => ToWireBy(F, x) = Tagged("@dxtr:bytes", Node("bin", x.items))
         /\ x.t \in Dates => ToWireBy(F, x) = Tagged("@dxtr:datetime", Leaf("int", x.s))
         /\ x.t = "list" => ToWireBy(F, x) = TagWhole("@dxtr:list", Each(F, x.items))
         /\ x.t = "map" =>
              ToWireBy(F, x) = IF \E i \in DOMAIN x.items : x.items[i].items[1].t # "str" THEN Invalid
                               ELSE TagWhole("@dxtr:map", EachPair("arr", F, x.items))
         /\ x.t \notin Scalars \cup {"bytes", "datetime", "localtime", "list", "map"} => ToWireBy(F, x) = Invalid
BY DEF ToWireBy, Scalars

LEMMA WireIsTree ==
  ASSUME NEW D, WithParts(D), NEW x \in D, NEW F, \A y \in Below(D, x) : F[y] \in AllTrees
  PROVE  ToWireBy(F, x) \in AllTrees
<1>0. x \in AllTrees /\ x.s \in Texts /\ x.items \in Seq(AllTrees) BY AllMeans DEF WithParts, IsTree
<1>1. CASE x.t \in Scalars BY <1>0, <1>1, WireCases
<1>2. CASE x.t = "bytes"
  <2>1. Node("bin", x.items) \in AllTrees BY <1>0, OwnTrees DEF Types
  <2>2. Tagged("@dxtr:bytes", Node("bin", x.items)) \in AllTrees BY <2>1, ArrIsTree DEF OwnTexts
  <2> QED BY <1>2, <2>2, WireCases
<1>3. CASE x.t \in Dates
  <2>1. Leaf("int", x.s) \in AllTrees BY <1>0, OwnTrees DEF Types, Scalars
  <2>2. Tagged("@dxtr:datetime", Leaf("int", x.s)) \in AllTrees BY <2>1, ArrIsTree DEF OwnTexts
  <2> QED BY <1>3, <2>2, WireCases
<1>4. CASE x.t = "list"
  <2>1. Each(F, x.items) \in Seq(AllTrees) BY BelowParts, EachIs
  <2>2. TagWhole("@dxtr:list", Each(F, x.items)) \in AllTrees BY <2>1, TagWholeIsTree DEF OwnTexts
  <2> QED BY <1>4, <2>2, WireCases
<1>5. CASE x.t = "map"
  <2>1. KeysIn(x.items, AllTrees) /\ ValuesIn(x.items, Below(D, x)) /\ x.items \in Seq(D)
    BY <1>5, MapParts DEF KeysIn, Below, WithParts
  <2>2. "arr" \in Types \ {"map"} BY DEF Types
  <2>3. EachPair("arr", F, x.items) \in Seq(AllTrees) BY <2>1, <2>2, EachPairIs
  <2>4. TagWhole("@dxtr:map", EachPair("arr", F, x.items)) \in AllTrees
    BY <2>3, TagWholeIsTree DEF OwnTexts
  <2> QED BY <1>5, <2>4, WireCases, OwnTrees
<1>6. CASE x.t \notin Scalars \cup {"bytes", "datetime", "localtime", "list", "map"} BY <1>6, WireCases, OwnTrees
<1> QED BY <1>1, <1>2, <1>3, <1>4, <1>5, <1>6

LEMMA WireSame ==
  ASSUME NEW D, WithParts(D), NEW x \in D, NEW F, NEW G, \A y \in Below(D, x) : F[y] = G[y]
  PROVE  ToWireBy(F, x) = ToWireBy(G, x)
<1>1. CASE x.t = "list"
  <2>1. Each(F, x.items) = Each(G, x.items) BY BelowParts, EachSame
  <2> QED BY <1>1, <2>1, WireCases
<1>2. CASE x.t = "map"
  <2>1. EachPair("arr", F, x.items) = EachPair("arr", G, x.items) BY <1>2, MapParts, EachPairSame
  <2> QED BY <1>2, <2>1, WireCases
<1>3. CASE x.t \notin {"list", "map"} BY <1>3, WireCases
<1> QED BY <1>1, <1>2, <1>3

\* Each reader as a function: the reader is its body, with that function for the parts.
WireOf == [x \in DartTrees |-> ToWire(x)]

LEMMA ToWireUnfolds ==
  /\ \A x \in DartTrees : ToWire(x) \in AllTrees /\ WireOf[x] = ToWire(x)
  /\ \A x \in DartTrees : ToWire(x) = ToWireBy(WireOf, x)
<1> DEFINE D == DartTrees
           H == [F \in [D -> AllTrees] |-> [x \in D |-> ToWireBy(F, x)]]
           V == AllTrees
           f == CHOOSE g : g = [x \in D |-> ToWireBy(g, x)]
<1>1. WithParts(D) BY TreesAreClosed
<1>2. \A F \in [D -> AllTrees], x \in D : ToWireBy(F, x) \in AllTrees
  BY <1>1, WireIsTree DEF Below
<1>3. \A F, G, x : x \in D /\ (\A y \in Below(D, x) : F[y] = G[y]) => ToWireBy(F, x) = ToWireBy(G, x)
  BY <1>1, WireSame
<1>4. IsTreeBody(H, D, AllTrees) BY <1>2, <1>3 DEF IsTreeBody
<1>5. \A F \in [D -> AllTrees] : F = H[F] => F = [x \in D |-> ToWireBy(F, x)] OBVIOUS
<1>6. PICK F \in [D -> AllTrees] : F = [x \in D |-> ToWireBy(F, x)]
  <2>1. V # {} BY OwnTrees
  <2>2. IsTreeBody(H, D, V) BY <1>4
  <2> HIDE DEF H, V
  <2>3. \E F \in [D -> V] : F = H[F] BY <1>1, <2>1, <2>2, TreeFunction
  <2> QED BY <1>5, <2>3 DEF V
<1>7. f = [x \in D |-> ToWireBy(f, x)]
  <2>1. \E g : g = [x \in D |-> ToWireBy(g, x)] BY <1>6
  <2> QED BY <2>1
<1>8. \A x : ToWire(x) = f[x] BY DEF ToWire
<1> HIDE DEF f
<1>9. f = F
  <2>1. f = [x \in D |-> f[x]] /\ F = [x \in D |-> F[x]] BY <1>7
  <2>2. \A x \in D : (\A y \in Below(D, x) : f[y] = F[y]) => f[x] = F[x] BY <1>3, <1>6, <1>7
  <2> QED BY <1>1, <2>1, <2>2, OneFunction
<1>10. WireOf = f BY <1>7, <1>8 DEF WireOf
<1>11. \A x \in D : ToWire(x) = f[x] /\ f[x] \in AllTrees /\ f[x] = ToWireBy(f, x)
  BY <1>7, <1>8, <1>9
<1> QED BY <1>10, <1>11

LEMMA RawCases ==
  ASSUME NEW F, NEW x
  PROVE  /\ x.t \in Scalars => RawBy(F, x) = x
         /\ x.t = "bin" => RawBy(F, x) = Node("bytes", x.items)
         /\ x.t = "arr" => RawBy(F, x) = Whole("list", Each(F, x.items))
         /\ x.t = "map" => RawBy(F, x) = Whole("map", EachPair("pair", F, x.items))
         /\ x.t \notin Scalars \cup {"bin", "arr", "map"} => RawBy(F, x) = Invalid
BY DEF RawBy, Scalars

LEMMA MapIsTree ==
  ASSUME NEW S, NEW ps \in Seq(S), NEW D, NEW F,
         \A y \in D : F[y] \in AllTrees, KeysIn(ps, AllTrees), ValuesIn(ps, D)
  PROVE  Whole("map", EachPair("pair", F, ps)) \in AllTrees
<1>1. "pair" \in Types \ {"map"} /\ "map" \in Types BY DEF Types
<1> DEFINE f == EachPair("pair", F, ps)
<1>2. f \in Seq(AllTrees) /\ DOMAIN f = DOMAIN ps /\ \A i \in DOMAIN ps : f[i] = Invalid \/ IsPair(f[i])
  BY <1>1, EachPairIs
<1> HIDE DEF f
<1>3. Whole("map", f) \in AllTrees BY <1>1, <1>2, WholeIsTree
<1> QED BY <1>3 DEF f

LEMMA ListIsTree ==
  ASSUME NEW t \in Types \ {"map"}, NEW S, NEW ws \in Seq(S), NEW F, \A y \in S : F[y] \in AllTrees
  PROVE  Whole(t, Each(F, ws)) \in AllTrees
<1>1. Each(F, ws) \in Seq(AllTrees) BY EachIs
<1> QED BY <1>1, WholeIsTree

LEMMA RawIsTree ==
  ASSUME NEW D, WithParts(D), NEW x \in D, NEW F, \A y \in Below(D, x) : F[y] \in AllTrees
  PROVE  RawBy(F, x) \in AllTrees
<1>0. x \in AllTrees /\ x.s \in Texts /\ x.items \in Seq(AllTrees) BY AllMeans DEF WithParts, IsTree
<1>1. CASE x.t \in Scalars BY <1>0, <1>1, RawCases
<1>2. CASE x.t = "bin"
  <2>1. Node("bytes", x.items) \in AllTrees BY <1>0, OwnTrees DEF Types
  <2> QED BY <1>2, <2>1, RawCases
<1>3. CASE x.t = "arr"
  <2>1. Whole("list", Each(F, x.items)) \in AllTrees BY BelowParts, ListIsTree DEF Types
  <2> QED BY <1>3, <2>1, RawCases
<1>4. CASE x.t = "map"
  <2>1. KeysIn(x.items, AllTrees) /\ ValuesIn(x.items, Below(D, x)) /\ x.items \in Seq(D)
    BY <1>4, MapParts DEF KeysIn, Below, WithParts
  <2>2. Whole("map", EachPair("pair", F, x.items)) \in AllTrees BY <2>1, MapIsTree
  <2> QED BY <1>4, <2>2, RawCases
<1>5. CASE x.t \notin Scalars \cup {"bin", "arr", "map"} BY <1>5, RawCases, OwnTrees
<1> QED BY <1>1, <1>2, <1>3, <1>4, <1>5

LEMMA RawSame ==
  ASSUME NEW D, WithParts(D), NEW x \in D, NEW F, NEW G, \A y \in Below(D, x) : F[y] = G[y]
  PROVE  RawBy(F, x) = RawBy(G, x)
<1>1. CASE x.t = "arr"
  <2>1. Each(F, x.items) = Each(G, x.items) BY BelowParts, EachSame
  <2> QED BY <1>1, <2>1, RawCases
<1>2. CASE x.t = "map"
  <2>1. EachPair("pair", F, x.items) = EachPair("pair", G, x.items) BY <1>2, MapParts, EachPairSame
  <2> QED BY <1>2, <2>1, RawCases
<1>3. CASE x.t \notin {"arr", "map"} BY <1>3, RawCases
<1> QED BY <1>1, <1>2, <1>3

\* Raw as a function.
RawOf == [x \in WireTrees |-> Raw(x)]

LEMMA RawUnfolds ==
  /\ \A x \in WireTrees : Raw(x) \in AllTrees /\ RawOf[x] = Raw(x)
  /\ \A x \in WireTrees : Raw(x) = RawBy(RawOf, x)
<1> DEFINE D == WireTrees
           H == [F \in [D -> AllTrees] |-> [x \in D |-> RawBy(F, x)]]
           V == AllTrees
           f == CHOOSE g : g = [x \in D |-> RawBy(g, x)]
<1>1. WithParts(D) BY TreesAreClosed
<1>2. \A F \in [D -> AllTrees], x \in D : RawBy(F, x) \in AllTrees
  BY <1>1, RawIsTree DEF Below
<1>3. \A F, G, x : x \in D /\ (\A y \in Below(D, x) : F[y] = G[y]) => RawBy(F, x) = RawBy(G, x)
  BY <1>1, RawSame
<1>4. IsTreeBody(H, D, AllTrees) BY <1>2, <1>3 DEF IsTreeBody
<1>5. \A F \in [D -> AllTrees] : F = H[F] => F = [x \in D |-> RawBy(F, x)] OBVIOUS
<1>6. PICK F \in [D -> AllTrees] : F = [x \in D |-> RawBy(F, x)]
  <2>1. V # {} BY OwnTrees
  <2>2. IsTreeBody(H, D, V) BY <1>4
  <2> HIDE DEF H, V
  <2>3. \E F \in [D -> V] : F = H[F] BY <1>1, <2>1, <2>2, TreeFunction
  <2> QED BY <1>5, <2>3 DEF V
<1>7. f = [x \in D |-> RawBy(f, x)]
  <2>1. \E g : g = [x \in D |-> RawBy(g, x)] BY <1>6
  <2> QED BY <2>1
<1>8. \A x : Raw(x) = f[x] BY DEF Raw
<1> HIDE DEF f
<1>9. f = F
  <2>1. f = [x \in D |-> f[x]] /\ F = [x \in D |-> F[x]] BY <1>7
  <2>2. \A x \in D : (\A y \in Below(D, x) : f[y] = F[y]) => f[x] = F[x] BY <1>3, <1>6, <1>7
  <2> QED BY <1>1, <2>1, <2>2, OneFunction
<1>10. RawOf = f BY <1>7, <1>8 DEF RawOf
<1>11. \A x \in D : Raw(x) = f[x] /\ f[x] \in AllTrees /\ f[x] = RawBy(f, x)
  BY <1>7, <1>8, <1>9
<1> QED BY <1>10, <1>11

LEMMA FromCases ==
  ASSUME NEW F, NEW x
  PROVE  /\ Tag(x) = "@dxtr:bytes" =>
              FromWireBy(F, x) =
                IF Payload(x).t = "bin" \/ IntArray(Payload(x))
                THEN Node("bytes", [i \in DOMAIN Payload(x).items |-> Byte(Payload(x).items[i])])
                ELSE Invalid
         /\ Tag(x) = "@dxtr:datetime" =>
              FromWireBy(F, x) =
                IF Payload(x).t = "int" THEN Leaf("datetime", Payload(x).s) ELSE Invalid
         /\ Tag(x) = "@dxtr:list" =>
              FromWireBy(F, x) =
                IF Payload(x).t = "arr" THEN Whole("list", Each(F, Payload(x).items)) ELSE Invalid
         /\ Tag(x) = "@dxtr:map" =>
              FromWireBy(F, x) =
                IF Entries(Payload(x)) THEN Whole("map", EachPair("pair", F, Payload(x).items))
                ELSE Invalid
         /\ Tag(x) \notin {"@dxtr:bytes", "@dxtr:datetime", "@dxtr:list", "@dxtr:map"} =>
              FromWireBy(F, x) = Raw(x)
BY DEF FromWireBy

LEMMA BytesAreTrees ==
  ASSUME NEW items \in Seq(AllTrees)
  PROVE  Node("bytes", [i \in DOMAIN items |-> Byte(items[i])]) \in AllTrees
<1> DEFINE f == [i \in DOMAIN items |-> Byte(items[i])]
<1>1. Leaf("int", "44") \in AllTrees BY OwnTrees, OwnTextsAreTexts DEF OwnTexts, Types, Scalars
<1>2. \A i \in DOMAIN items : f[i] \in AllTrees BY <1>1, SeqParts DEF Byte
<1>3. DOMAIN f = DOMAIN items /\ f = [i \in DOMAIN f |-> f[i]] OBVIOUS
<1> HIDE DEF f
<1>4. f \in Seq(AllTrees) BY <1>2, <1>3, SeqOnPlaces
<1>5. Node("bytes", f) \in AllTrees BY <1>4, OwnTrees DEF Types
<1> QED BY <1>5 DEF f

LEMMA FromIsTree ==
  ASSUME NEW x \in WireTrees, NEW F, \A y \in Below(WireTrees, x) : F[y] \in AllTrees
  PROVE  FromWireBy(F, x) \in AllTrees
<1> DEFINE D == WireTrees
           p == Payload(x)
<1>0. WithParts(D) BY TreesAreClosed
<1>1. ASSUME IsTagged(x)
      PROVE  p \in AllTrees /\ p.s \in Texts /\ p.items \in Seq(AllTrees) /\ p.items \in Seq(Below(D, x))
             /\ p \in D /\ p \in Below(D, x)
  BY <1>0, <1>1, TaggedParts, AllMeans DEF WithParts, IsTree
<1>2. CASE Tag(x) = "@dxtr:bytes"
  <2>1. Node("bytes", [i \in DOMAIN p.items |-> Byte(p.items[i])]) \in AllTrees
    BY <1>1, <1>2, TagMeans, BytesAreTrees
  <2> QED BY <1>2, <2>1, FromCases, OwnTrees
<1>3. CASE Tag(x) = "@dxtr:datetime"
  <2>1. Leaf("datetime", p.s) \in AllTrees BY <1>1, <1>3, TagMeans, OwnTrees DEF Types
  <2> QED BY <1>3, <2>1, FromCases, OwnTrees
<1>4. CASE Tag(x) = "@dxtr:list"
  <2>1. p.items \in Seq(Below(D, x)) BY <1>1, <1>4, TagMeans
  <2>2. Whole("list", Each(F, p.items)) \in AllTrees BY <2>1, ListIsTree DEF Types
  <2> QED BY <1>4, <2>2, FromCases, OwnTrees
<1>5. CASE Tag(x) = "@dxtr:map"
  <2>1. ASSUME Entries(p) PROVE Whole("map", EachPair("pair", F, p.items)) \in AllTrees
    <3>1. p \in D /\ p \in Below(D, x) BY <1>1, <1>5, TagMeans
    <3> HIDE DEF p
    <3>2. p.items \in Seq(D) /\ KeysIn(p.items, Below(D, p)) /\ ValuesIn(p.items, Below(D, p))
      BY <1>0, <2>1, <3>1, EntryParts
    <3>3. Below(D, p) \subseteq Below(D, x) /\ Below(D, p) \subseteq AllTrees
      BY <1>0, <3>1, BelowBelow
    <3>4. KeysIn(p.items, AllTrees) /\ ValuesIn(p.items, Below(D, x))
      BY <3>2, <3>3 DEF KeysIn, ValuesIn
    <3> QED BY <3>2, <3>4, MapIsTree
  <2> QED BY <1>5, <2>1, FromCases, OwnTrees
<1>6. CASE Tag(x) \notin {"@dxtr:bytes", "@dxtr:datetime", "@dxtr:list", "@dxtr:map"}
  BY <1>6, FromCases, RawUnfolds
<1> QED BY <1>2, <1>3, <1>4, <1>5, <1>6

LEMMA FromSame ==
  ASSUME NEW x \in WireTrees, NEW F, NEW G, \A y \in Below(WireTrees, x) : F[y] = G[y]
  PROVE  FromWireBy(F, x) = FromWireBy(G, x)
<1> DEFINE D == WireTrees
           p == Payload(x)
<1>0. WithParts(D) BY TreesAreClosed
<1>1. CASE Tag(x) = "@dxtr:list"
  <2>1. Each(F, p.items) = Each(G, p.items) BY <1>0, <1>1, TagMeans, TaggedParts, EachSame
  <2> QED BY <1>1, <2>1, FromCases
<1>2. CASE Tag(x) = "@dxtr:map"
  <2>1. ASSUME Entries(p) PROVE EachPair("pair", F, p.items) = EachPair("pair", G, p.items)
    <3>1. p \in D /\ p \in Below(D, x) BY <1>0, <1>2, TagMeans, TaggedParts
    <3> HIDE DEF p
    <3>2. ValuesIn(p.items, Below(D, p)) BY <1>0, <2>1, <3>1, EntryParts
    <3>3. ValuesIn(p.items, Below(D, x)) BY <1>0, <3>1, <3>2, BelowBelow DEF ValuesIn
    <3> QED BY <3>3, EachPairSame
  <2> QED BY <1>2, <2>1, FromCases
<1>3. CASE Tag(x) \notin {"@dxtr:list", "@dxtr:map"} BY <1>3, FromCases
<1> QED BY <1>1, <1>2, <1>3

\* FromWire as a function.
FromOf == [x \in WireTrees |-> FromWire(x)]

LEMMA FromWireUnfolds ==
  /\ \A x \in WireTrees : FromWire(x) \in AllTrees /\ FromOf[x] = FromWire(x)
  /\ \A x \in WireTrees : FromWire(x) = FromWireBy(FromOf, x)
<1> DEFINE D == WireTrees
           H == [F \in [D -> AllTrees] |-> [x \in D |-> FromWireBy(F, x)]]
           V == AllTrees
           f == CHOOSE g : g = [x \in D |-> FromWireBy(g, x)]
<1>1. WithParts(D) BY TreesAreClosed
<1>2. \A F \in [D -> AllTrees], x \in D : FromWireBy(F, x) \in AllTrees
  BY <1>1, FromIsTree DEF Below
<1>3. \A F, G, x : x \in D /\ (\A y \in Below(D, x) : F[y] = G[y]) => FromWireBy(F, x) = FromWireBy(G, x)
  BY <1>1, FromSame
<1>4. IsTreeBody(H, D, AllTrees) BY <1>2, <1>3 DEF IsTreeBody
<1>5. \A F \in [D -> AllTrees] : F = H[F] => F = [x \in D |-> FromWireBy(F, x)] OBVIOUS
<1>6. PICK F \in [D -> AllTrees] : F = [x \in D |-> FromWireBy(F, x)]
  <2>1. V # {} BY OwnTrees
  <2>2. IsTreeBody(H, D, V) BY <1>4
  <2> HIDE DEF H, V
  <2>3. \E F \in [D -> V] : F = H[F] BY <1>1, <2>1, <2>2, TreeFunction
  <2> QED BY <1>5, <2>3 DEF V
<1>7. f = [x \in D |-> FromWireBy(f, x)]
  <2>1. \E g : g = [x \in D |-> FromWireBy(g, x)] BY <1>6
  <2> QED BY <2>1
<1>8. \A x : FromWire(x) = f[x] BY DEF FromWire
<1> HIDE DEF f
<1>9. f = F
  <2>1. f = [x \in D |-> f[x]] /\ F = [x \in D |-> F[x]] BY <1>7
  <2>2. \A x \in D : (\A y \in Below(D, x) : f[y] = F[y]) => f[x] = F[x] BY <1>3, <1>6, <1>7
  <2> QED BY <1>1, <2>1, <2>2, OneFunction
<1>10. FromOf = f BY <1>7, <1>8 DEF FromOf
<1>11. \A x \in D : FromWire(x) = f[x] /\ f[x] \in AllTrees /\ f[x] = FromWireBy(f, x)
  BY <1>7, <1>8, <1>9
<1> QED BY <1>10, <1>11

LEMMA ScalarsAreNoParts ==
  /\ Scalars \subseteq Types \ {"map"}
  /\ \A t \in Scalars :
       t \notin {"bytes", "datetime", "localtime", "list", "map", "other", "bin", "arr", "ext", "pair", "obj",
                 "missing", "invalid"}
BY DEF Scalars, Types

\* The trees that the inspector writes.
LEMMA JsonTrees ==
  /\ \A items \in Seq(AllTrees) : BytesJson(items) \in AllTrees /\ BytesJson(items) # Invalid
  /\ \A s \in Texts : DateJson(s) \in AllTrees /\ DateJson(s) # Invalid
  /\ \A x \in AllTrees : ScalarJson(x) \in AllTrees
<1>1. /\ Str("$dxtrType") \in AllTrees /\ Str("bytes") \in AllTrees /\ Str("data") \in AllTrees
      /\ Str("datetime") \in AllTrees /\ Str("microsecondsSinceEpoch") \in AllTrees
      /\ Str("isUtc") \in AllTrees /\ Leaf("bool", "true") \in AllTrees
  BY OwnTrees, OwnTextsAreTexts DEF OwnTexts, Types, Scalars, Str
<1>2. ASSUME NEW items \in Seq(AllTrees)
      PROVE  BytesJson(items) \in AllTrees /\ BytesJson(items) # Invalid
  <2>1. Arr(items) \in AllTrees BY ArrIsTree
  <2> DEFINE a == Pair(Str("$dxtrType"), Str("bytes"))
             b == Pair(Str("data"), Arr(items))
  <2>2. a \in AllTrees /\ b \in AllTrees BY <1>1, <2>1, OwnTrees
  <2>3. BytesJson(items) = Node("obj", <<a, b>>) BY DEF BytesJson, Obj
  <2> HIDE DEF a, b
  <2>4. Node("obj", <<a, b>>) \in AllTrees BY <2>2, TwoIsSeq, OwnTrees DEF Types
  <2>5. Node("obj", <<a, b>>) # Invalid BY DEF Node, Invalid, Leaf
  <2> QED BY <2>3, <2>4, <2>5
<1>3. ASSUME NEW s \in Texts PROVE DateJson(s) \in AllTrees /\ DateJson(s) # Invalid
  <2>1. Leaf("int", s) \in AllTrees BY OwnTrees DEF Types, Scalars
  <2> DEFINE a == Pair(Str("$dxtrType"), Str("datetime"))
             b == Pair(Str("microsecondsSinceEpoch"), Leaf("int", s))
             c == Pair(Str("isUtc"), Leaf("bool", "true"))
  <2>2. a \in AllTrees /\ b \in AllTrees /\ c \in AllTrees BY <1>1, <2>1, OwnTrees
  <2>3. DateJson(s) = Node("obj", <<a, b, c>>) BY DEF DateJson, Obj
  <2> HIDE DEF a, b, c
  <2>4. <<a, b, c>> \in Seq(AllTrees) BY <2>2
  <2>5. Node("obj", <<a, b, c>>) \in AllTrees BY <2>4, OwnTrees DEF Types
  <2>6. Node("obj", <<a, b, c>>) # Invalid BY DEF Node, Invalid, Leaf
  <2> QED BY <2>3, <2>5, <2>6
<1>4. \A x \in AllTrees : ScalarJson(x) \in AllTrees BY OwnTrees DEF ScalarJson
<1> QED BY <1>2, <1>3, <1>4

LEMMA ShownCases ==
  ASSUME NEW F, NEW x
  PROVE  /\ x.t \in Scalars => ShownBy(F, x) = ScalarJson(x)
         /\ x.t = "bin" => ShownBy(F, x) = BytesJson(x.items)
         /\ x.t = "map" => ShownBy(F, x) = ObjectOf(F, x.items)
         /\ Tag(x) = "@dxtr:map" =>
              ShownBy(F, x) = IF Entries(Payload(x)) THEN ObjectOf(F, Payload(x).items) ELSE Invalid
         /\ Tag(x) = "@dxtr:list" =>
              ShownBy(F, x) =
                IF Payload(x).t = "arr" THEN Whole("arr", Each(F, Payload(x).items)) ELSE Invalid
         /\ Tag(x) = "@dxtr:bytes" =>
              ShownBy(F, x) = IF Payload(x).t = "bin" \/ ByteArray(Payload(x))
                              THEN BytesJson(Payload(x).items) ELSE Invalid
         /\ Tag(x) = "@dxtr:datetime" =>
              ShownBy(F, x) = IF Payload(x).t = "int" THEN DateJson(Payload(x).s) ELSE Invalid
         /\ x.t = "arr" /\ Tag(x) \notin {"@dxtr:map", "@dxtr:list", "@dxtr:bytes", "@dxtr:datetime"} =>
              ShownBy(F, x) = Whole("arr", Each(F, x.items))
         /\ x.t \notin Scalars \cup {"bin", "map", "arr"} => ShownBy(F, x) = Invalid
<1>1. /\ Tag(x) \in {"@dxtr:map", "@dxtr:list", "@dxtr:bytes", "@dxtr:datetime"} => x.t = "arr"
      /\ "arr" \notin Scalars /\ "bin" \notin Scalars /\ "map" \notin Scalars
  BY TagMeans, ScalarsAreNoParts
<1> QED BY <1>1 DEF ShownBy

LEMMA ObjectIsTree ==
  ASSUME NEW S, NEW ps \in Seq(S), NEW D, NEW F,
         \A y \in D : F[y] \in AllTrees, KeysIn(ps, AllTrees), ValuesIn(ps, D)
  PROVE  ObjectOf(F, ps) \in AllTrees
<1>1. "pair" \in Types \ {"map"} /\ "obj" \in Types \ {"map"} BY DEF Types
<1>2. EachPair("pair", F, ps) \in Seq(AllTrees) BY <1>1, EachPairIs
<1>3. Whole("obj", EachPair("pair", F, ps)) \in AllTrees BY <1>1, <1>2, WholeIsTree
<1> QED BY <1>3, OwnTrees DEF ObjectOf

\* A tagged map among the trees of D.
LEMMA TaggedMapParts ==
  ASSUME NEW D, WithParts(D), NEW x \in D, IsTagged(x), Entries(Payload(x))
  PROVE  /\ Payload(x).items \in Seq(D)
         /\ KeysIn(Payload(x).items, AllTrees) /\ ValuesIn(Payload(x).items, Below(D, x))
         /\ KeysIn(Payload(x).items, Below(D, x))
<1> DEFINE p == Payload(x)
<1>1. p \in D /\ p \in Below(D, x) BY TaggedParts
<1>2. Entries(p) OBVIOUS
<1> HIDE DEF p
<1>3. p.items \in Seq(D) /\ KeysIn(p.items, Below(D, p)) /\ ValuesIn(p.items, Below(D, p))
  BY <1>1, <1>2, EntryParts
<1>4. Below(D, p) \subseteq Below(D, x) /\ Below(D, p) \subseteq AllTrees BY <1>1, BelowBelow
<1>5. KeysIn(p.items, AllTrees) /\ ValuesIn(p.items, Below(D, x)) /\ KeysIn(p.items, Below(D, x))
  BY <1>3, <1>4 DEF KeysIn, ValuesIn
<1> QED BY <1>3, <1>5 DEF p

LEMMA ShownIsTree ==
  ASSUME NEW D, WithParts(D), NEW x \in D, NEW F, \A y \in Below(D, x) : F[y] \in AllTrees
  PROVE  ShownBy(F, x) \in AllTrees
<1> DEFINE p == Payload(x)
<1>0. x \in AllTrees /\ x.s \in Texts /\ x.items \in Seq(AllTrees) BY AllMeans DEF WithParts, IsTree
<1>1. ASSUME IsTagged(x)
      PROVE  /\ p.s \in Texts /\ p.items \in Seq(AllTrees) /\ p.items \in Seq(Below(D, x))
  <2>1. p \in AllTrees /\ p.items \in Seq(Below(D, x)) BY <1>1, TaggedParts DEF WithParts
  <2> QED BY <2>1, AllMeans DEF IsTree
<1>2. CASE x.t \in Scalars BY <1>0, <1>2, JsonTrees, ShownCases
<1>3. CASE x.t = "bin" BY <1>0, <1>3, JsonTrees, ShownCases
<1>4. CASE x.t = "map"
  <2>1. KeysIn(x.items, AllTrees) /\ ValuesIn(x.items, Below(D, x)) /\ x.items \in Seq(D)
    BY <1>4, MapParts DEF KeysIn, Below, WithParts
  <2>2. ObjectOf(F, x.items) \in AllTrees BY <2>1, ObjectIsTree
  <2> QED BY <1>4, <2>2, ShownCases
<1>5. CASE Tag(x) = "@dxtr:map"
  <2>1. ASSUME Entries(p) PROVE ObjectOf(F, p.items) \in AllTrees
    BY <1>5, <2>1, TagMeans, TaggedMapParts, ObjectIsTree
  <2> QED BY <1>5, <2>1, ShownCases, OwnTrees
<1>6. CASE Tag(x) = "@dxtr:list"
  <2>1. Whole("arr", Each(F, p.items)) \in AllTrees BY <1>1, <1>6, TagMeans, ListIsTree DEF Types
  <2> QED BY <1>6, <2>1, ShownCases, OwnTrees
<1>7. CASE Tag(x) = "@dxtr:bytes"
  <2>1. BytesJson(p.items) \in AllTrees BY <1>1, <1>7, TagMeans, JsonTrees
  <2> QED BY <1>7, <2>1, ShownCases, OwnTrees
<1>8. CASE Tag(x) = "@dxtr:datetime"
  <2>1. DateJson(p.s) \in AllTrees BY <1>1, <1>8, TagMeans, JsonTrees
  <2> QED BY <1>8, <2>1, ShownCases, OwnTrees
<1>9. CASE x.t = "arr" /\ Tag(x) \notin {"@dxtr:map", "@dxtr:list", "@dxtr:bytes", "@dxtr:datetime"}
  <2>1. Whole("arr", Each(F, x.items)) \in AllTrees BY BelowParts, ListIsTree DEF Types
  <2> QED BY <1>9, <2>1, ShownCases
<1>10. CASE x.t \notin Scalars \cup {"bin", "map", "arr"} BY <1>10, ShownCases, OwnTrees
<1> QED BY <1>2, <1>3, <1>4, <1>5, <1>6, <1>7, <1>8, <1>9, <1>10

LEMMA ShownSame ==
  ASSUME NEW D, WithParts(D), NEW x \in D, NEW F, NEW G, \A y \in Below(D, x) : F[y] = G[y]
  PROVE  ShownBy(F, x) = ShownBy(G, x)
<1> DEFINE p == Payload(x)
<1>1. CASE x.t = "map"
  <2>1. EachPair("pair", F, x.items) = EachPair("pair", G, x.items) BY <1>1, MapParts, EachPairSame
  <2>2. ObjectOf(F, x.items) = ObjectOf(G, x.items) BY <2>1 DEF ObjectOf
  <2> QED BY <1>1, <2>2, ShownCases
<1>2. CASE Tag(x) = "@dxtr:map"
  <2>1. ASSUME Entries(p) PROVE ObjectOf(F, p.items) = ObjectOf(G, p.items)
    <3>1. ValuesIn(p.items, Below(D, x)) BY <1>2, <2>1, TagMeans, TaggedMapParts
    <3>2. EachPair("pair", F, p.items) = EachPair("pair", G, p.items) BY <3>1, EachPairSame
    <3> QED BY <3>2 DEF ObjectOf
  <2> QED BY <1>2, <2>1, ShownCases
<1>3. CASE Tag(x) = "@dxtr:list"
  <2>1. Each(F, p.items) = Each(G, p.items) BY <1>3, TagMeans, TaggedParts, EachSame
  <2> QED BY <1>3, <2>1, ShownCases
<1>4. CASE x.t = "arr" /\ Tag(x) \notin {"@dxtr:map", "@dxtr:list"}
  <2>1. Each(F, x.items) = Each(G, x.items) BY BelowParts, EachSame
  <2> QED BY <1>4, <2>1, ShownCases
<1>5. CASE x.t \notin {"map", "arr"} BY <1>5, ShownCases
<1> QED BY <1>1, <1>2, <1>3, <1>4, <1>5

\* Shown as a function.
ShownOf == [x \in WireTrees |-> Shown(x)]

LEMMA ShownUnfolds ==
  /\ \A x \in WireTrees : Shown(x) \in AllTrees /\ ShownOf[x] = Shown(x)
  /\ \A x \in WireTrees : Shown(x) = ShownBy(ShownOf, x)
<1> DEFINE D == WireTrees
           H == [F \in [D -> AllTrees] |-> [x \in D |-> ShownBy(F, x)]]
           V == AllTrees
           f == CHOOSE g : g = [x \in D |-> ShownBy(g, x)]
<1>1. WithParts(D) BY TreesAreClosed
<1>2. \A F \in [D -> AllTrees], x \in D : ShownBy(F, x) \in AllTrees
  BY <1>1, ShownIsTree DEF Below
<1>3. \A F, G, x : x \in D /\ (\A y \in Below(D, x) : F[y] = G[y]) => ShownBy(F, x) = ShownBy(G, x)
  BY <1>1, ShownSame
<1>4. IsTreeBody(H, D, AllTrees) BY <1>2, <1>3 DEF IsTreeBody
<1>5. \A F \in [D -> AllTrees] : F = H[F] => F = [x \in D |-> ShownBy(F, x)] OBVIOUS
<1>6. PICK F \in [D -> AllTrees] : F = [x \in D |-> ShownBy(F, x)]
  <2>1. V # {} BY OwnTrees
  <2>2. IsTreeBody(H, D, V) BY <1>4
  <2> HIDE DEF H, V
  <2>3. \E F \in [D -> V] : F = H[F] BY <1>1, <2>1, <2>2, TreeFunction
  <2> QED BY <1>5, <2>3 DEF V
<1>7. f = [x \in D |-> ShownBy(f, x)]
  <2>1. \E g : g = [x \in D |-> ShownBy(g, x)] BY <1>6
  <2> QED BY <2>1
<1>8. \A x : Shown(x) = f[x] BY DEF Shown
<1> HIDE DEF f
<1>9. f = F
  <2>1. f = [x \in D |-> f[x]] /\ F = [x \in D |-> F[x]] BY <1>7
  <2>2. \A x \in D : (\A y \in Below(D, x) : f[y] = F[y]) => f[x] = F[x] BY <1>3, <1>6, <1>7
  <2> QED BY <1>1, <2>1, <2>2, OneFunction
<1>10. ShownOf = f BY <1>7, <1>8 DEF ShownOf
<1>11. \A x \in D : Shown(x) = f[x] /\ f[x] \in AllTrees /\ f[x] = ShownBy(f, x)
  BY <1>7, <1>8, <1>9
<1> QED BY <1>10, <1>11

LEMMA JsonOfCases ==
  ASSUME NEW F, NEW x
  PROVE  /\ x.t = "bytes" => JsonOfBy(F, x) = BytesJson(x.items)
         /\ x.t \in Dates => JsonOfBy(F, x) = DateJson(x.s)
         /\ x.t = "list" => JsonOfBy(F, x) = Arr(Each(F, x.items))
         /\ x.t = "map" => JsonOfBy(F, x) = Obj(EachPair("pair", F, x.items))
         /\ x.t \notin {"bytes", "datetime", "localtime", "list", "map"} => JsonOfBy(F, x) = ScalarJson(x)
BY DEF JsonOfBy

LEMMA JsonOfIsTree ==
  ASSUME NEW D, WithParts(D), NEW x \in D, NEW F, \A y \in Below(D, x) : F[y] \in AllTrees
  PROVE  JsonOfBy(F, x) \in AllTrees
<1>0. x \in AllTrees /\ x.s \in Texts /\ x.items \in Seq(AllTrees) BY AllMeans DEF WithParts, IsTree
<1>1. CASE x.t = "bytes" BY <1>0, <1>1, JsonTrees, JsonOfCases
<1>2. CASE x.t \in Dates BY <1>0, <1>2, JsonTrees, JsonOfCases
<1>3. CASE x.t = "list"
  <2>1. Each(F, x.items) \in Seq(AllTrees) BY BelowParts, EachIs
  <2> QED BY <1>3, <2>1, JsonOfCases, ArrIsTree
<1>4. CASE x.t = "map"
  <2>1. KeysIn(x.items, AllTrees) /\ ValuesIn(x.items, Below(D, x)) /\ x.items \in Seq(D)
    BY <1>4, MapParts DEF KeysIn, Below, WithParts
  <2>2. "pair" \in Types \ {"map"} /\ "obj" \in Types \ {"map"} BY DEF Types
  <2>3. EachPair("pair", F, x.items) \in Seq(AllTrees) BY <2>1, <2>2, EachPairIs
  <2>4. Obj(EachPair("pair", F, x.items)) \in AllTrees BY <2>2, <2>3, OwnTrees DEF Obj
  <2> QED BY <1>4, <2>4, JsonOfCases
<1>5. CASE x.t \notin {"bytes", "datetime", "localtime", "list", "map"} BY <1>0, <1>5, JsonTrees, JsonOfCases
<1> QED BY <1>1, <1>2, <1>3, <1>4, <1>5

LEMMA JsonOfSame ==
  ASSUME NEW D, WithParts(D), NEW x \in D, NEW F, NEW G, \A y \in Below(D, x) : F[y] = G[y]
  PROVE  JsonOfBy(F, x) = JsonOfBy(G, x)
<1>1. CASE x.t = "list"
  <2>1. Each(F, x.items) = Each(G, x.items) BY BelowParts, EachSame
  <2> QED BY <1>1, <2>1, JsonOfCases
<1>2. CASE x.t = "map"
  <2>1. EachPair("pair", F, x.items) = EachPair("pair", G, x.items) BY <1>2, MapParts, EachPairSame
  <2> QED BY <1>2, <2>1, JsonOfCases
<1>3. CASE x.t \notin {"list", "map"} BY <1>3, JsonOfCases
<1> QED BY <1>1, <1>2, <1>3

\* JsonOf as a function.
JsonOfOf == [x \in DartTrees |-> JsonOf(x)]

LEMMA JsonOfUnfolds ==
  /\ \A x \in DartTrees : JsonOf(x) \in AllTrees /\ JsonOfOf[x] = JsonOf(x)
  /\ \A x \in DartTrees : JsonOf(x) = JsonOfBy(JsonOfOf, x)
<1> DEFINE D == DartTrees
           H == [F \in [D -> AllTrees] |-> [x \in D |-> JsonOfBy(F, x)]]
           V == AllTrees
           f == CHOOSE g : g = [x \in D |-> JsonOfBy(g, x)]
<1>1. WithParts(D) BY TreesAreClosed
<1>2. \A F \in [D -> AllTrees], x \in D : JsonOfBy(F, x) \in AllTrees
  BY <1>1, JsonOfIsTree DEF Below
<1>3. \A F, G, x : x \in D /\ (\A y \in Below(D, x) : F[y] = G[y]) => JsonOfBy(F, x) = JsonOfBy(G, x)
  BY <1>1, JsonOfSame
<1>4. IsTreeBody(H, D, AllTrees) BY <1>2, <1>3 DEF IsTreeBody
<1>5. \A F \in [D -> AllTrees] : F = H[F] => F = [x \in D |-> JsonOfBy(F, x)] OBVIOUS
<1>6. PICK F \in [D -> AllTrees] : F = [x \in D |-> JsonOfBy(F, x)]
  <2>1. V # {} BY OwnTrees
  <2>2. IsTreeBody(H, D, V) BY <1>4
  <2> HIDE DEF H, V
  <2>3. \E F \in [D -> V] : F = H[F] BY <1>1, <2>1, <2>2, TreeFunction
  <2> QED BY <1>5, <2>3 DEF V
<1>7. f = [x \in D |-> JsonOfBy(f, x)]
  <2>1. \E g : g = [x \in D |-> JsonOfBy(g, x)] BY <1>6
  <2> QED BY <2>1
<1>8. \A x : JsonOf(x) = f[x] BY DEF JsonOf
<1> HIDE DEF f
<1>9. f = F
  <2>1. f = [x \in D |-> f[x]] /\ F = [x \in D |-> F[x]] BY <1>7
  <2>2. \A x \in D : (\A y \in Below(D, x) : f[y] = F[y]) => f[x] = F[x] BY <1>3, <1>6, <1>7
  <2> QED BY <1>1, <2>1, <2>2, OneFunction
<1>10. JsonOfOf = f BY <1>7, <1>8 DEF JsonOfOf
<1>11. \A x \in D : JsonOf(x) = f[x] /\ f[x] \in AllTrees /\ f[x] = JsonOfBy(f, x)
  BY <1>7, <1>8, <1>9
<1> QED BY <1>10, <1>11

LEMMA InUtcCases ==
  ASSUME NEW F, NEW x
  PROVE  /\ x.t = "localtime" => InUtcBy(F, x) = Leaf("datetime", x.s)
         /\ x.t = "list" => InUtcBy(F, x) = Node("list", Each(F, x.items))
         /\ x.t = "map" => InUtcBy(F, x) = Whole("map", EachPair("pair", F, x.items))
         /\ x.t \notin {"localtime", "list", "map"} => InUtcBy(F, x) = x
BY DEF InUtcBy

LEMMA InUtcIsTree ==
  ASSUME NEW D, WithParts(D), NEW x \in D, NEW F, \A y \in Below(D, x) : F[y] \in AllTrees
  PROVE  InUtcBy(F, x) \in AllTrees
<1>0. x \in AllTrees /\ x.s \in Texts /\ x.items \in Seq(AllTrees) BY AllMeans DEF WithParts, IsTree
<1>1. CASE x.t = "localtime"
  <2>1. "datetime" \in Types BY DEF Types
  <2>2. Leaf("datetime", x.s) \in AllTrees BY <1>0, <2>1, OwnTrees
  <2> QED BY <1>1, <2>2, InUtcCases
<1>2. CASE x.t = "list"
  <2>1. Each(F, x.items) \in Seq(AllTrees) BY BelowParts, EachIs
  <2>2. "list" \in Types \ {"map"} BY DEF Types
  <2>3. Node("list", Each(F, x.items)) \in AllTrees BY <2>1, <2>2, OwnTrees
  <2> QED BY <1>2, <2>3, InUtcCases
<1>3. CASE x.t = "map"
  <2>1. KeysIn(x.items, AllTrees) /\ ValuesIn(x.items, Below(D, x)) /\ x.items \in Seq(D)
    BY <1>3, MapParts DEF KeysIn, Below, WithParts
  <2>2. Whole("map", EachPair("pair", F, x.items)) \in AllTrees BY <2>1, MapIsTree
  <2> QED BY <1>3, <2>2, InUtcCases
<1>4. CASE x.t \notin {"localtime", "list", "map"} BY <1>0, <1>4, InUtcCases
<1> QED BY <1>1, <1>2, <1>3, <1>4

LEMMA InUtcSame ==
  ASSUME NEW D, WithParts(D), NEW x \in D, NEW F, NEW G, \A y \in Below(D, x) : F[y] = G[y]
  PROVE  InUtcBy(F, x) = InUtcBy(G, x)
<1>1. CASE x.t = "list"
  <2>1. Each(F, x.items) = Each(G, x.items) BY BelowParts, EachSame
  <2> QED BY <1>1, <2>1, InUtcCases
<1>2. CASE x.t = "map"
  <2>1. EachPair("pair", F, x.items) = EachPair("pair", G, x.items) BY <1>2, MapParts, EachPairSame
  <2> QED BY <1>2, <2>1, InUtcCases
<1>3. CASE x.t \notin {"list", "map"} BY <1>3, InUtcCases
<1> QED BY <1>1, <1>2, <1>3

\* InUtc as a function.
InUtcOf == [x \in DartTrees |-> InUtc(x)]

LEMMA InUtcUnfolds ==
  /\ \A x \in DartTrees : InUtc(x) \in AllTrees /\ InUtcOf[x] = InUtc(x)
  /\ \A x \in DartTrees : InUtc(x) = InUtcBy(InUtcOf, x)
<1> DEFINE D == DartTrees
           H == [F \in [D -> AllTrees] |-> [x \in D |-> InUtcBy(F, x)]]
           V == AllTrees
           f == CHOOSE g : g = [x \in D |-> InUtcBy(g, x)]
<1>1. WithParts(D) BY TreesAreClosed
<1>2. \A F \in [D -> AllTrees], x \in D : InUtcBy(F, x) \in AllTrees
  BY <1>1, InUtcIsTree DEF Below
<1>3. \A F, G, x : x \in D /\ (\A y \in Below(D, x) : F[y] = G[y]) => InUtcBy(F, x) = InUtcBy(G, x)
  BY <1>1, InUtcSame
<1>4. IsTreeBody(H, D, AllTrees) BY <1>2, <1>3 DEF IsTreeBody
<1>5. \A F \in [D -> AllTrees] : F = H[F] => F = [x \in D |-> InUtcBy(F, x)] OBVIOUS
<1>6. PICK F \in [D -> AllTrees] : F = [x \in D |-> InUtcBy(F, x)]
  <2>1. V # {} BY OwnTrees
  <2>2. IsTreeBody(H, D, V) BY <1>4
  <2> HIDE DEF H, V
  <2>3. \E F \in [D -> V] : F = H[F] BY <1>1, <2>1, <2>2, TreeFunction
  <2> QED BY <1>5, <2>3 DEF V
<1>7. f = [x \in D |-> InUtcBy(f, x)]
  <2>1. \E g : g = [x \in D |-> InUtcBy(g, x)] BY <1>6
  <2> QED BY <2>1
<1>8. \A x : InUtc(x) = f[x] BY DEF InUtc
<1> HIDE DEF f
<1>9. f = F
  <2>1. f = [x \in D |-> f[x]] /\ F = [x \in D |-> F[x]] BY <1>7
  <2>2. \A x \in D : (\A y \in Below(D, x) : f[y] = F[y]) => f[x] = F[x] BY <1>3, <1>6, <1>7
  <2> QED BY <1>1, <2>1, <2>2, OneFunction
<1>10. InUtcOf = f BY <1>7, <1>8 DEF InUtcOf
<1>11. \A x \in D : InUtc(x) = f[x] /\ f[x] \in AllTrees /\ f[x] = InUtcBy(f, x)
  BY <1>7, <1>8, <1>9
<1> QED BY <1>10, <1>11

\* The items of bytes, and the keys of a map: leaves, each once.
DartBytes(items) ==
  \A i \in DOMAIN items : items[i] = Leaf("int", items[i].s) /\ Byte(items[i]) = items[i]
\* Pairs with leaves as keys, no key twice.
DartKeys(ps) ==
  \A i \in DOMAIN ps :
    /\ ps[i].items[1] = Leaf(ps[i].items[1].t, ps[i].items[1].s)
    /\ \A j \in DOMAIN ps : ps[i].items[1] = ps[j].items[1] => i = j

LEMMA DartCases ==
  ASSUME NEW F, NEW x
  PROVE  /\ x.t \in Scalars \cup {"datetime", "localtime", "other"} => IsDartBy(F, x) = (x.items = <<>>)
         /\ x.t = "bytes" =>
              IsDartBy(F, x) = (x.s = "" /\ DartBytes(x.items))
         /\ x.t = "list" => IsDartBy(F, x) = (x.s = "" /\ \A i \in DOMAIN x.items : F[x.items[i]])
         /\ x.t = "map" =>
              IsDartBy(F, x) =
                (x.s = "" /\ DartKeys(x.items) /\ \A i \in DOMAIN x.items : F[x.items[i].items[2]])
         /\ x.t \notin Scalars \cup {"bytes", "datetime", "localtime", "list", "map", "other"} =>
              IsDartBy(F, x) = FALSE
<1>0. \A t \in Scalars \cup {"datetime", "localtime", "other"} : t \notin {"bytes", "list", "map"}
  BY ScalarsAreNoParts
<1>1. x.t \in Scalars \cup {"datetime", "localtime", "other"} => IsDartBy(F, x) = (x.items = <<>>)
  BY <1>0 DEF IsDartBy
<1>2. x.t = "bytes" => IsDartBy(F, x) = (x.s = "" /\ DartBytes(x.items))
  BY <1>0 DEF IsDartBy, DartBytes
<1>3. x.t = "list" => IsDartBy(F, x) = (x.s = "" /\ \A i \in DOMAIN x.items : F[x.items[i]])
  BY <1>0 DEF IsDartBy
<1>4. ASSUME x.t = "map"
      PROVE  IsDartBy(F, x) =
               (x.s = "" /\ DartKeys(x.items) /\ \A i \in DOMAIN x.items : F[x.items[i].items[2]])
  <2> DEFINE A == \A i \in DOMAIN x.items :
                    LET key(j) == x.items[j].items[1]
                    IN  /\ key(i) = Leaf(key(i).t, key(i).s) /\ F[x.items[i].items[2]]
                        /\ \A j \in DOMAIN x.items : key(i) = key(j) => i = j
             B == DartKeys(x.items) /\ \A i \in DOMAIN x.items : F[x.items[i].items[2]]
  <2>1. IsDartBy(F, x) = (x.s = "" /\ A) BY <1>0, <1>4 DEF IsDartBy
  <2>2. A <=> B BY DEF DartKeys
  <2> HIDE DEF A
  <2>3. IsDartBy(F, x) = (x.s = "" /\ B)
    <3> HIDE DEF B
    <3> QED BY <2>1, <2>2
  <2> QED BY <2>3
<1>5. x.t \notin Scalars \cup {"bytes", "datetime", "localtime", "list", "map", "other"} => IsDartBy(F, x) = FALSE
  BY <1>0 DEF IsDartBy
<1> QED BY <1>1, <1>2, <1>3, <1>4, <1>5

LEMMA DartIsBoolean ==
  ASSUME NEW F, NEW x
  PROVE  IsDartBy(F, x) \in BOOLEAN
<1>1. CASE x.t \in Scalars \cup {"datetime", "localtime", "other"} BY <1>1, DartCases
<1>2. CASE x.t = "bytes" BY <1>2, DartCases
<1>3. CASE x.t = "list" BY <1>3, DartCases
<1>4. CASE x.t = "map" BY <1>4, DartCases
<1>5. CASE x.t \notin Scalars \cup {"bytes", "datetime", "localtime", "list", "map", "other"} BY <1>5, DartCases
<1> QED BY <1>1, <1>2, <1>3, <1>4, <1>5

LEMMA DartSame ==
  ASSUME NEW D, WithParts(D), NEW x \in D, NEW F, NEW G, \A y \in Below(D, x) : F[y] = G[y]
  PROVE  IsDartBy(F, x) = IsDartBy(G, x)
<1>1. CASE x.t \in Scalars \cup {"datetime", "localtime", "other"}
  <2>1. IsDartBy(F, x) <=> x.items = <<>> BY <1>1, DartCases
  <2>2. IsDartBy(G, x) <=> x.items = <<>> BY <1>1, DartCases
  <2> QED BY <2>1, <2>2, DartIsBoolean
<1>2. CASE x.t = "bytes"
  <2>1. IsDartBy(F, x) <=> (x.s = "" /\ DartBytes(x.items)) BY <1>2, DartCases
  <2>2. IsDartBy(G, x) <=> (x.s = "" /\ DartBytes(x.items)) BY <1>2, DartCases
  <2> QED BY <2>1, <2>2, DartIsBoolean
<1>3. CASE x.t = "list"
  <2>1. \A i \in DOMAIN x.items : F[x.items[i]] = G[x.items[i]] BY BelowParts, SeqParts
  <2>2. IsDartBy(F, x) <=> (x.s = "" /\ \A i \in DOMAIN x.items : F[x.items[i]]) BY <1>3, DartCases
  <2>3. IsDartBy(G, x) <=> (x.s = "" /\ \A i \in DOMAIN x.items : G[x.items[i]]) BY <1>3, DartCases
  <2>4. IsDartBy(F, x) <=> IsDartBy(G, x) BY <2>1, <2>2, <2>3
  <2> QED BY <2>4, DartIsBoolean
<1>4. CASE x.t = "map"
  <2>1. \A i \in DOMAIN x.items : F[x.items[i].items[2]] = G[x.items[i].items[2]]
    BY <1>4, MapParts DEF ValuesIn
  <2>2. IsDartBy(F, x) <=>
          (x.s = "" /\ DartKeys(x.items) /\ \A i \in DOMAIN x.items : F[x.items[i].items[2]])
    BY <1>4, DartCases
  <2>3. IsDartBy(G, x) <=>
          (x.s = "" /\ DartKeys(x.items) /\ \A i \in DOMAIN x.items : G[x.items[i].items[2]])
    BY <1>4, DartCases
  <2>4. IsDartBy(F, x) <=> IsDartBy(G, x) BY <2>1, <2>2, <2>3
  <2> QED BY <2>4, DartIsBoolean
<1>5. CASE x.t \notin Scalars \cup {"bytes", "datetime", "localtime", "list", "map", "other"} BY <1>5, DartCases
<1> QED BY <1>1, <1>2, <1>3, <1>4, <1>5

\* IsDart as a function.
DartOf == [x \in DartTrees |-> IsDart(x)]

LEMMA IsDartUnfolds ==
  /\ \A x \in DartTrees : IsDart(x) \in BOOLEAN /\ DartOf[x] = IsDart(x)
  /\ \A x \in DartTrees : IsDart(x) = IsDartBy(DartOf, x)
<1> DEFINE D == DartTrees
           H == [F \in [D -> BOOLEAN] |-> [x \in D |-> IsDartBy(F, x)]]
           V == BOOLEAN
           f == CHOOSE g : g = [x \in D |-> IsDartBy(g, x)]
<1>1. WithParts(D) BY TreesAreClosed
<1>2. \A F \in [D -> BOOLEAN], x \in D : IsDartBy(F, x) \in BOOLEAN
  BY <1>1, DartIsBoolean DEF Below
<1>3. \A F, G, x : x \in D /\ (\A y \in Below(D, x) : F[y] = G[y]) => IsDartBy(F, x) = IsDartBy(G, x)
  BY <1>1, DartSame
<1>4. IsTreeBody(H, D, BOOLEAN) BY <1>2, <1>3 DEF IsTreeBody
<1>5. \A F \in [D -> BOOLEAN] : F = H[F] => F = [x \in D |-> IsDartBy(F, x)] OBVIOUS
<1>6. PICK F \in [D -> BOOLEAN] : F = [x \in D |-> IsDartBy(F, x)]
  <2>1. V # {} OBVIOUS
  <2>2. IsTreeBody(H, D, V) BY <1>4
  <2> HIDE DEF H, V
  <2>3. \E F \in [D -> V] : F = H[F] BY <1>1, <2>1, <2>2, TreeFunction
  <2> QED BY <1>5, <2>3 DEF V
<1>7. f = [x \in D |-> IsDartBy(f, x)]
  <2>1. \E g : g = [x \in D |-> IsDartBy(g, x)] BY <1>6
  <2> QED BY <2>1
<1>8. \A x : IsDart(x) = f[x] BY DEF IsDart
<1> HIDE DEF f
<1>9. f = F
  <2>1. f = [x \in D |-> f[x]] /\ F = [x \in D |-> F[x]] BY <1>7
  <2>2. \A x \in D : (\A y \in Below(D, x) : f[y] = F[y]) => f[x] = F[x] BY <1>3, <1>6, <1>7
  <2> QED BY <1>1, <2>1, <2>2, OneFunction
<1>10. DartOf = f BY <1>7, <1>8 DEF DartOf
<1>11. \A x \in D : IsDart(x) = f[x] /\ f[x] \in BOOLEAN /\ f[x] = IsDartBy(f, x)
  BY <1>7, <1>8, <1>9
<1> QED BY <1>10, <1>11

-----------------------------------------------------------------------------
(* The wire form of a Dart value has at most twice its levels, and one.    *)

LEMMA HeightBound ==
  ASSUME NEW x \in AllTrees, NEW n \in Nat, \A i \in DOMAIN x.items : Height[x.items[i]] < n
  PROVE  Height[x] <= n /\ Height[x] \in Nat
<1>0. IsTree(x, AllTrees) /\ x.items \in Seq(AllTrees) BY AllMeans DEF IsTree
<1>1. \A i \in DOMAIN x.items : x.items[i] \in AllTrees BY <1>0, SeqParts
<1>2. x.items = [i \in DOMAIN x.items |-> x.items[i]] BY <1>0, SeqParts, LenProperties
<1>3. CASE n = 0
  <2>1. \A i \in DOMAIN x.items : x.items[i] \in {} BY <1>1, <1>3, HeightMeans
  <2>2. x.items \in Seq({}) BY <1>0, <1>2, <2>1, SeqOnPlaces
  <2>3. x \in Tree[0] BY <1>0, <2>2, LowestMeans DEF IsTree
  <2> QED BY <1>3, <2>3, HeightMeans
<1>4. CASE n # 0
  <2>1. n - 1 \in Nat /\ n - 1 + 1 = n BY <1>4
  <2>2. ASSUME NEW i \in DOMAIN x.items PROVE x.items[i] \in Tree[n - 1]
    <3> DEFINE y == x.items[i]
    <3>1. y \in AllTrees /\ Height[y] < n BY <1>1
    <3> HIDE DEF y
    <3>2. Height[y] \in Nat /\ y \in Tree[Height[y]] BY <3>1, HeightMeans
    <3>3. Height[y] <= n - 1 BY <3>1, <3>2
    <3>4. y \in Tree[n - 1] BY <2>1, <3>2, <3>3, TreeMonotonic
    <3> QED BY <3>4 DEF y
  <2>3. x.items \in Seq(Tree[n - 1]) BY <1>0, <1>2, <2>2, SeqOnPlaces
  <2>4. IsTree(x, Tree[n - 1]) BY <1>0, <2>3 DEF IsTree
  <2>5. x \in Tree[n - 1 + 1] BY <2>1, <2>4, LevelMeans
  <2> QED BY <2>1, <2>5, HeightMeans
<1> QED BY <1>3, <1>4

LEMMA HeightInWire ==
  \A x \in AllTrees : Height[x] <= 2 * Nesting + 1 <=> x \in WireTrees
<1>1. Nesting \in Nat /\ 2 * Nesting + 1 \in Nat BY NestingAssumption
<1>2. ASSUME NEW x \in AllTrees, Height[x] <= 2 * Nesting + 1 PROVE x \in WireTrees
  <2>1. x \in Tree[Height[x]] /\ Height[x] \in Nat BY HeightMeans
  <2>2. Tree[Height[x]] \subseteq Tree[2 * Nesting + 1] BY <1>1, <1>2, <2>1, TreeMonotonic
  <2> QED BY <2>1, <2>2 DEF WireTrees
<1> QED BY <1>1, <1>2, HeightMeans DEF WireTrees

LEMMA HeightInDart ==
  \A x \in DartTrees : x \in AllTrees /\ Height[x] \in Nat /\ Height[x] <= Nesting
BY NestingAssumption, HeightMeans DEF DartTrees, AllTrees

LEMMA LeafHeight ==
  ASSUME NEW t \in Types, NEW s \in Texts
  PROVE  Leaf(t, s) \in AllTrees /\ Height[Leaf(t, s)] = 0
<1>1. Leaf(t, s) \in AllTrees BY OwnTrees
<1>2. DOMAIN Leaf(t, s).items = {} BY DEF Leaf
<1>3. Height[Leaf(t, s)] <= 0 /\ Height[Leaf(t, s)] \in Nat BY <1>1, <1>2, HeightBound
<1> QED BY <1>1, <1>3

LEMMA NodeHeight ==
  ASSUME NEW t \in Types \ {"map"}, NEW items \in Seq(AllTrees), NEW n \in Nat,
         \A i \in DOMAIN items : Height[items[i]] < n
  PROVE  Node(t, items) \in AllTrees /\ Height[Node(t, items)] <= n /\ Height[Node(t, items)] \in Nat
<1>1. Node(t, items) \in AllTrees BY OwnTrees
<1>2. Node(t, items).items = items BY DEF Node
<1> QED BY <1>1, <1>2, HeightBound

LEMMA TwoHeight ==
  ASSUME NEW t \in Types \ {"map"}, NEW a \in AllTrees, NEW b \in AllTrees, NEW n \in Nat,
         Height[a] < n, Height[b] < n
  PROVE  /\ Node(t, <<a, b>>) \in AllTrees /\ Height[Node(t, <<a, b>>)] <= n
         /\ Height[Node(t, <<a, b>>)] \in Nat
<1> DEFINE s == <<a, b>>
<1>1. s \in Seq(AllTrees) /\ DOMAIN s = {1, 2} /\ s[1] = a /\ s[2] = b BY TwoIsSeq
<1> HIDE DEF s
<1>2. \A i \in DOMAIN s : Height[s[i]] < n BY <1>1
<1>3. Node(t, s) \in AllTrees /\ Height[Node(t, s)] <= n /\ Height[Node(t, s)] \in Nat
  BY <1>1, <1>2, NodeHeight
<1> QED BY <1>3 DEF s

LEMMA TaggedHeight ==
  ASSUME NEW tag \in OwnTexts, NEW p \in AllTrees, NEW n \in Nat, Height[p] < n
  PROVE  Tagged(tag, p) \in AllTrees /\ Height[Tagged(tag, p)] <= n /\ Height[Tagged(tag, p)] \in Nat
<1>1. Str(tag) \in AllTrees /\ Height[Str(tag)] = 0
  BY LeafHeight, OwnTextsAreTexts DEF Types, Scalars, Str
<1>2. Height[p] \in Nat BY HeightMeans
<1>3. Height[Str(tag)] < n BY <1>1, <1>2
<1>4. "arr" \in Types \ {"map"} BY DEF Types
<1> QED BY <1>1, <1>3, <1>4, TwoHeight DEF Tagged, Arr

LEMMA InvalidHeight == Invalid \in AllTrees /\ Height[Invalid] = 0
BY LeafHeight, OwnTextsAreTexts DEF OwnTexts, Types, Invalid

\* What TagWhole makes of parts of that height.
LEMMA TagWholeHeight ==
  ASSUME NEW tag \in OwnTexts, NEW items \in Seq(AllTrees), NEW n \in Nat,
         \A i \in DOMAIN items : Height[items[i]] < n
  PROVE  Height[TagWhole(tag, items)] <= n + 1
<1>1. Arr(items) \in AllTrees /\ Height[Arr(items)] <= n /\ Height[Arr(items)] \in Nat
  BY NodeHeight DEF Types, Arr
<1>2. n + 1 \in Nat /\ Height[Arr(items)] < n + 1 BY <1>1
<1>3. Height[Tagged(tag, Arr(items))] <= n + 1 BY <1>1, <1>2, TaggedHeight
<1> QED BY <1>3, InvalidHeight DEF TagWhole

LEMMA ToWireHeight == \A x \in DartTrees : Height[ToWire(x)] <= 2 * Height[x] + 1
<1> DEFINE D == DartTrees
           P == {x \in D : Height[ToWire(x)] <= 2 * Height[x] + 1}
<1>0. WithParts(D) BY TreesAreClosed
<1>1. ASSUME NEW x \in D, Below(D, x) \subseteq P PROVE x \in P
  <2> DEFINE h == Height[x]
             w == ToWire(x)
  <2>0. /\ x \in AllTrees /\ h \in Nat /\ x.s \in Texts /\ x.items \in Seq(AllTrees)
        /\ \A i \in DOMAIN x.items : x.items[i] \in D /\ Height[x.items[i]] \in Nat /\ Height[x.items[i]] < h
    <3>1. x \in AllTrees /\ h \in Nat BY HeightInDart
    <3>2. \A i \in DOMAIN x.items : x.items[i] \in Below(D, x) BY <1>0, BelowParts, SeqParts
    <3>3. \A i \in DOMAIN x.items : x.items[i] \in D /\ Height[x.items[i]] < h BY <3>2 DEF Below
    <3> QED BY <3>1, <3>3, AllMeans, HeightInDart DEF IsTree
  <2>1. w = ToWireBy(WireOf, x) BY ToWireUnfolds
  <2>2. \A y \in Below(D, x) : WireOf[y] \in AllTrees /\ Height[WireOf[y]] <= 2 * Height[y] + 1
    BY <1>1, ToWireUnfolds DEF Below
  <2> HIDE DEF h, w
  <2>3. CASE x.t \in Scalars
    <3>1. w = x BY <2>1, <2>3, WireCases
    <3>2. Height[w] <= 2 * h + 1 BY <2>0, <3>1 DEF h
    <3> QED BY <3>2 DEF h, w
  <2>4. CASE x.t = "bytes"
    <3> DEFINE p == Node("bin", x.items)
    <3>1. p \in AllTrees /\ Height[p] <= h /\ Height[p] \in Nat BY <2>0, NodeHeight DEF Types
    <3>2. w = Tagged("@dxtr:bytes", p) BY <2>1, <2>4, WireCases
    <3> HIDE DEF p
    <3>3. h + 1 \in Nat /\ Height[p] < h + 1 /\ "@dxtr:bytes" \in OwnTexts BY <2>0, <3>1 DEF OwnTexts
    <3>4. Height[w] <= h + 1 /\ Height[w] \in Nat BY <3>1, <3>2, <3>3, TaggedHeight
    <3>5. Height[w] <= 2 * h + 1 BY <2>0, <3>4
    <3> QED BY <3>5 DEF h, w
  <2>5. CASE x.t \in Dates
    <3> DEFINE p == Leaf("int", x.s)
    <3>1. p \in AllTrees /\ Height[p] = 0 BY <2>0, LeafHeight DEF Types, Scalars
    <3>2. w = Tagged("@dxtr:datetime", p) BY <2>1, <2>5, WireCases
    <3> HIDE DEF p
    <3>3. Height[p] < 1 /\ "@dxtr:datetime" \in OwnTexts BY <3>1 DEF OwnTexts
    <3>4. Height[w] <= 1 /\ Height[w] \in Nat BY <3>1, <3>2, <3>3, TaggedHeight
    <3>5. Height[w] <= 2 * h + 1 BY <2>0, <3>4
    <3> QED BY <3>5 DEF h, w
  <2>6. CASE x.t = "list"
    <3> DEFINE s == Each(WireOf, x.items)
    <3>0. x.items \in Seq(Below(D, x)) BY <1>0, BelowParts
    <3>00. \A y \in Below(D, x) : WireOf[y] \in AllTrees BY <2>2
    <3>1. /\ s \in Seq(AllTrees) /\ DOMAIN s = DOMAIN x.items
          /\ \A i \in DOMAIN x.items : s[i] = WireOf[x.items[i]]
      <4>1. s \in Seq(AllTrees) BY <3>0, <3>00, EachIs
      <4> QED BY <4>1 DEF Each
    <3>2. w = TagWhole("@dxtr:list", s) BY <2>1, <2>6, WireCases
    <3> HIDE DEF s
    <3>3. ASSUME NEW i \in DOMAIN s PROVE Height[s[i]] < 2 * h
      <4>1. Height[s[i]] <= 2 * Height[x.items[i]] + 1 BY <2>2, <3>0, <3>1, SeqParts
      <4>2. Height[s[i]] \in Nat BY <3>1, SeqParts, HeightMeans
      <4> QED BY <2>0, <3>1, <4>1, <4>2
    <3>4. Height[w] <= 2 * h + 1
      <4>1. 2 * h \in Nat /\ "@dxtr:list" \in OwnTexts BY <2>0 DEF OwnTexts
      <4> QED BY <3>1, <3>2, <3>3, <4>1, TagWholeHeight
    <3> QED BY <3>4 DEF h, w
  <2>7. CASE x.t = "map"
    <3> DEFINE s == EachPair("arr", WireOf, x.items)
    <3>0. KeysIn(x.items, Below(D, x)) /\ ValuesIn(x.items, Below(D, x)) /\ x.items \in Seq(D)
      BY <1>0, <2>7, MapParts
    <3>00. KeysIn(x.items, AllTrees) BY <1>0, <3>0 DEF KeysIn, Below, WithParts
    <3>1. "arr" \in Types \ {"map"} BY DEF Types
    <3>2. /\ s \in Seq(AllTrees) /\ DOMAIN s = DOMAIN x.items
          /\ \A i \in DOMAIN x.items : s[i] = Whole("arr", <<x.items[i].items[1], WireOf[x.items[i].items[2]]>>)
      BY <2>2, <3>0, <3>00, <3>1, EachPairIs
    <3>3. w = IF \E i \in DOMAIN x.items : x.items[i].items[1].t # "str" THEN Invalid
              ELSE TagWhole("@dxtr:map", s)
      BY <2>1, <2>7, WireCases
    <3> HIDE DEF s
    <3>4. ASSUME NEW i \in DOMAIN s PROVE Height[s[i]] < 2 * h
      <4> DEFINE k == x.items[i].items[1]
                 v == x.items[i].items[2]
      <4>1. k \in Below(D, x) /\ v \in Below(D, x) BY <3>0, <3>2 DEF KeysIn, ValuesIn
      <4>2. /\ k \in Below(D, x.items[i]) /\ v \in Below(D, x.items[i])
        <5>1. x.items[i] \in D /\ DOMAIN x.items[i].items = {1, 2} BY <1>0, <2>0, <2>7, <3>2, MapParts
        <5> QED BY <1>0, <5>1, BelowParts, SeqParts
      <4>3. s[i] = Whole("arr", <<k, WireOf[v]>>) BY <3>2
      <4> HIDE DEF k, v
      <4>4. /\ k \in D /\ v \in D /\ Height[k] < Height[x.items[i]] /\ Height[v] < Height[x.items[i]]
            /\ Height[k] \in Nat /\ Height[v] \in Nat
        BY <1>0, <4>2, HeightInDart DEF Below
      <4>5. WireOf[v] \in AllTrees /\ Height[WireOf[v]] <= 2 * Height[v] + 1 /\ k \in AllTrees
        BY <2>2, <4>1, <4>4, HeightInDart
      <4>6. Height[WireOf[v]] \in Nat BY <4>5, HeightMeans
      <4> DEFINE n == 2 * h - 1
      <4>7. n \in Nat /\ Height[k] < n /\ Height[WireOf[v]] < n BY <2>0, <3>2, <4>4, <4>5, <4>6
      <4>8. /\ Height[Node("arr", <<k, WireOf[v]>>)] <= n
        <5> HIDE DEF n
        <5> QED BY <3>1, <4>5, <4>7, TwoHeight
      <4>9. s[i] = Invalid \/ s[i] = Node("arr", <<k, WireOf[v]>>)
        BY <3>1, <4>3, <4>5, WholeTwo
      <4>10. Height[s[i]] \in Nat BY <3>2, SeqParts, HeightMeans
      <4> QED BY <2>0, <4>7, <4>8, <4>9, <4>10, InvalidHeight
    <3>5. Height[TagWhole("@dxtr:map", s)] <= 2 * h + 1
      <4>1. 2 * h \in Nat /\ "@dxtr:map" \in OwnTexts BY <2>0 DEF OwnTexts
      <4> QED BY <3>2, <3>4, <4>1, TagWholeHeight
    <3>6. Height[w] <= 2 * h + 1 BY <2>0, <3>3, <3>5, InvalidHeight
    <3> QED BY <3>6 DEF h, w
  <2>8. CASE x.t \notin Scalars \cup {"bytes", "datetime", "localtime", "list", "map"}
    <3>1. w = Invalid BY <2>1, <2>8, WireCases
    <3>2. Height[w] <= 2 * h + 1 BY <2>0, <3>1, InvalidHeight
    <3> QED BY <3>2 DEF h, w
  <2> QED BY <2>3, <2>4, <2>5, <2>6, <2>7, <2>8
<1>2. D \subseteq P
  <2> HIDE DEF P
  <2> QED BY <1>0, <1>1, HeightInduction
<1> QED BY <1>2

LEMMA ToWireInWire == \A x \in DartTrees : ToWire(x) \in WireTrees
<1> SUFFICES ASSUME NEW x \in DartTrees PROVE ToWire(x) \in WireTrees OBVIOUS
<1>1. ToWire(x) \in AllTrees /\ Height[ToWire(x)] <= 2 * Height[x] + 1 BY ToWireUnfolds, ToWireHeight
<1>2. Height[x] \in Nat /\ Height[x] <= Nesting /\ Nesting \in Nat BY HeightInDart, NestingAssumption
<1>3. Height[ToWire(x)] \in Nat BY <1>1, HeightMeans
<1>4. Height[ToWire(x)] <= 2 * Nesting + 1 BY <1>1, <1>2, <1>3
<1> QED BY <1>1, <1>4, HeightInWire

-----------------------------------------------------------------------------
(* What a Dart client stores it reads back, its dates in UTC, and the      *)
(* inspector shows it as documented.                                       *)

\* What Dart can store.
Storable == {x \in DartTrees : IsDart(x) /\ ToWire(x) # Invalid}

LEMMA InvalidHasType == Invalid.t = "invalid" /\ Missing.t = "missing"
BY DEF Invalid, Missing, Leaf

LEMMA NodeMeans ==
  /\ \A t, items : Node(t, items).t = t /\ Node(t, items).s = "" /\ Node(t, items).items = items
  /\ \A items : Arr(items).t = "arr" /\ Arr(items).items = items
  /\ \A items : Obj(items).t = "obj" /\ Obj(items).items = items
BY DEF Node, Arr, Obj

LEMMA TaggedMeans ==
  ASSUME NEW tag, NEW p
  PROVE  /\ Tag(Tagged(tag, p)) = tag /\ IsTagged(Tagged(tag, p)) /\ Payload(Tagged(tag, p)) = p
         /\ Tagged(tag, p).t = "arr" /\ Tagged(tag, p) # Invalid
         /\ Tagged(tag, p).items = <<Str(tag), p>>
<1> DEFINE s == <<Str(tag), p>>
<1>1. Len(s) = 2 /\ s[1] = Str(tag) /\ s[2] = p OBVIOUS
<1>2. Tagged(tag, p) = Arr(s) BY DEF Tagged
<1> HIDE DEF s
<1>3. Tagged(tag, p).t = "arr" /\ Tagged(tag, p).items = s BY <1>2, NodeMeans
<1>4. Str(tag).t = "str" /\ Str(tag).s = tag BY DEF Str, Leaf
<1>5. Tagged(tag, p) # Invalid BY <1>3, InvalidHasType
<1> QED BY <1>1, <1>3, <1>4, <1>5 DEF Tag, IsTagged, Payload, s

LEMMA TagWholeMeans ==
  ASSUME NEW tag, NEW items, TagWhole(tag, items) # Invalid
  PROVE  /\ TagWhole(tag, items) = Tagged(tag, Arr(items))
         /\ \A i \in DOMAIN items : items[i] # Invalid
BY DEF TagWhole, Whole

\* What can be stored of each type.
LEMMA StoredCases ==
  ASSUME NEW x \in Storable
  PROVE  /\ x \in DartTrees /\ ToWire(x) \in WireTrees /\ ToWire(x) # Invalid /\ x # Invalid
         /\ x.t \in Scalars \cup {"bytes", "datetime", "localtime", "list", "map"}
         /\ x.t \in Scalars => x = Leaf(x.t, x.s) /\ ToWire(x) = x
         /\ x.t \in Dates =>
              x = Leaf(x.t, x.s) /\ ToWire(x) = Tagged("@dxtr:datetime", Leaf("int", x.s))
         /\ x.t = "bytes" =>
              /\ x = Node("bytes", x.items) /\ DartBytes(x.items)
              /\ ToWire(x) = Tagged("@dxtr:bytes", Node("bin", x.items))
         /\ x.t = "list" =>
              /\ x = Node("list", x.items) /\ x.items \in Seq(Storable)
              /\ x.items \in Seq(Below(DartTrees, x))
              /\ ToWire(x) = Tagged("@dxtr:list", Arr(Each(WireOf, x.items)))
              /\ DOMAIN Each(WireOf, x.items) = DOMAIN x.items
              /\ \A i \in DOMAIN x.items : Each(WireOf, x.items)[i] = ToWire(x.items[i])
<1> DEFINE D == DartTrees
<1>0. x \in D /\ ToWire(x) # Invalid /\ ToWire(x) \in WireTrees /\ IsDart(x)
  BY ToWireInWire DEF Storable
<1>1. /\ IsTree(x, AllTrees) /\ x.items \in Seq(AllTrees) /\ x.items \in Seq(D) /\ WithParts(D)
      /\ x.items \in Seq(Below(D, x))
  BY <1>0, TreesAreClosed, AllMeans, BelowParts DEF WithParts, IsTree
<1>2. x = [t |-> x.t, s |-> x.s, items |-> x.items] BY <1>1 DEF IsTree
<1>3. ToWire(x) = ToWireBy(WireOf, x) /\ IsDartBy(DartOf, x)
  BY <1>0, ToWireUnfolds, IsDartUnfolds
<1>4. x.t \in Scalars \cup {"bytes", "datetime", "localtime", "list", "map"} BY <1>0, <1>3, WireCases
<1>5. x # Invalid
  <2>1. x.t # "invalid" BY <1>4, ScalarsAreNoParts
  <2> QED BY <2>1, InvalidHasType
<1>6. x.t \in Scalars \cup Dates => x = Leaf(x.t, x.s)
  BY <1>2, <1>3, DartCases DEF Leaf
<1>7. x.t = "bytes" => x = Node("bytes", x.items) /\ DartBytes(x.items)
  BY <1>2, <1>3, DartCases DEF Node
<1>8. ASSUME x.t = "list"
      PROVE  /\ x = Node("list", x.items) /\ x.items \in Seq(Storable)
             /\ ToWire(x) = Tagged("@dxtr:list", Arr(Each(WireOf, x.items)))
             /\ DOMAIN Each(WireOf, x.items) = DOMAIN x.items
             /\ \A i \in DOMAIN x.items : Each(WireOf, x.items)[i] = ToWire(x.items[i])
  <2> DEFINE s == Each(WireOf, x.items)
  <2>1. x.s = "" /\ \A i \in DOMAIN x.items : DartOf[x.items[i]] BY <1>3, <1>8, DartCases
  <2>2. x = Node("list", x.items) BY <1>2, <1>8, <2>1 DEF Node
  <2>3. \A y \in D : WireOf[y] \in AllTrees /\ WireOf[y] = ToWire(y) BY ToWireUnfolds
  <2>4. DOMAIN s = DOMAIN x.items /\ \A i \in DOMAIN x.items : s[i] = WireOf[x.items[i]] BY DEF Each
  <2>5. ToWire(x) = TagWhole("@dxtr:list", s) BY <1>3, <1>8, WireCases
  <2> HIDE DEF s
  <2>6. ToWire(x) = Tagged("@dxtr:list", Arr(s)) /\ \A i \in DOMAIN s : s[i] # Invalid
    BY <1>0, <2>5, TagWholeMeans
  <2>7. \A i \in DOMAIN x.items : x.items[i] \in D /\ s[i] = ToWire(x.items[i])
    BY <1>1, <2>3, <2>4, SeqParts
  <2>8. \A i \in DOMAIN x.items : x.items[i] \in Storable
    BY <2>1, <2>4, <2>6, <2>7, IsDartUnfolds DEF Storable
  <2>9. x.items = [i \in DOMAIN x.items |-> x.items[i]] BY <1>1, SeqParts, LenProperties
  <2>10. x.items \in Seq(Storable) BY <1>1, <2>8, <2>9, SeqOnPlaces
  <2> QED BY <2>2, <2>4, <2>6, <2>7, <2>10 DEF s
<1>9. /\ x.t \in Scalars => ToWire(x) = x
      /\ x.t \in Dates => ToWire(x) = Tagged("@dxtr:datetime", Leaf("int", x.s))
      /\ x.t = "bytes" => ToWire(x) = Tagged("@dxtr:bytes", Node("bin", x.items))
  BY <1>3, WireCases
<1> QED BY <1>0, <1>1, <1>4, <1>5, <1>6, <1>7, <1>8, <1>9

\* The pairs of a map that can be stored, and the arrays they become.
EntryOf(p) == Arr(<<p.items[1], ToWire(p.items[2])>>)

LEMMA StoredMap ==
  ASSUME NEW x \in Storable, x.t = "map"
  PROVE  /\ x = Node("map", x.items) /\ x.items \in Seq(DartTrees) /\ DartKeys(x.items)
         /\ \A i \in DOMAIN x.items :
              /\ x.items[i] = Pair(x.items[i].items[1], x.items[i].items[2])
              /\ x.items[i].items[1] \in AllTrees
              /\ x.items[i].items[1].t = "str" /\ x.items[i].items[1] # Invalid
              /\ x.items[i].items[2] \in Storable /\ x.items[i].items[2] \in Below(DartTrees, x)
         /\ ToWire(x) = Tagged("@dxtr:map", Arr(EachPair("arr", WireOf, x.items)))
         /\ DOMAIN EachPair("arr", WireOf, x.items) = DOMAIN x.items
         /\ \A i \in DOMAIN x.items : EachPair("arr", WireOf, x.items)[i] = EntryOf(x.items[i])
<1> DEFINE D == DartTrees
           ps == x.items
           s == EachPair("arr", WireOf, ps)
<1>0. x \in D /\ ToWire(x) # Invalid /\ IsDart(x) /\ WithParts(D) BY TreesAreClosed DEF Storable
<1>1. x = [t |-> x.t, s |-> x.s, items |-> ps] BY <1>0, AllMeans DEF WithParts, IsTree
<1>2. ToWire(x) = ToWireBy(WireOf, x) /\ IsDartBy(DartOf, x)
  BY <1>0, ToWireUnfolds, IsDartUnfolds
<1>3. x.s = "" /\ DartKeys(ps) /\ \A i \in DOMAIN ps : DartOf[ps[i].items[2]]
  BY <1>2, DartCases
<1>4. x = Node("map", ps) BY <1>1, <1>3 DEF Node
<1>5. /\ ps \in Seq(D) /\ KeysIn(ps, Below(D, x)) /\ ValuesIn(ps, Below(D, x))
      /\ \A i \in DOMAIN ps : ps[i] = Pair(ps[i].items[1], ps[i].items[2])
  BY <1>0, MapParts
<1>6. /\ \A i \in DOMAIN ps : ps[i].items[1].t = "str"
      /\ ToWire(x) = TagWhole("@dxtr:map", s)
  BY <1>0, <1>2, WireCases
<1>7. DOMAIN s = DOMAIN ps /\ \A i \in DOMAIN ps : s[i] = Whole("arr", <<ps[i].items[1], WireOf[ps[i].items[2]]>>)
  BY DEF EachPair
<1> HIDE DEF s
<1>8. ToWire(x) = Tagged("@dxtr:map", Arr(s)) /\ \A i \in DOMAIN s : s[i] # Invalid
  BY <1>0, <1>6, TagWholeMeans
<1>9. ASSUME NEW i \in DOMAIN ps
      PROVE  /\ ps[i].items[1] \in AllTrees /\ ps[i].items[1] # Invalid
             /\ ps[i].items[2] \in Storable /\ ps[i].items[2] \in Below(D, x)
             /\ s[i] = EntryOf(ps[i])
  <2> DEFINE k == ps[i].items[1]
             v == ps[i].items[2]
  <2>1. k \in D /\ v \in Below(D, x) /\ v \in D BY <1>5 DEF KeysIn, ValuesIn, Below
  <2>2. k.t = "str" /\ DartOf[v] BY <1>3, <1>6
  <2>3. s[i] = Whole("arr", <<k, WireOf[v]>>) /\ s[i] # Invalid BY <1>7, <1>8
  <2>4. EntryOf(ps[i]) = Arr(<<k, ToWire(v)>>) BY DEF EntryOf
  <2> HIDE DEF k, v
  <2>5. WireOf[v] = ToWire(v) /\ ToWire(v) \in AllTrees /\ k \in AllTrees /\ IsDart(v)
    BY <1>0, <2>1, <2>2, ToWireUnfolds, IsDartUnfolds DEF WithParts
  <2>6. "arr" \in Types \ {"map"} BY DEF Types
  <2>7. ToWire(v) # Invalid /\ s[i] = Node("arr", <<k, ToWire(v)>>) BY <2>3, <2>5, <2>6, WholeTwo
  <2>8. k # Invalid BY <2>2, InvalidHasType
  <2>9. v \in Storable BY <2>1, <2>5, <2>7 DEF Storable
  <2> QED BY <2>1, <2>4, <2>5, <2>7, <2>8, <2>9 DEF k, v, Arr
<1> QED BY <1>3, <1>4, <1>5, <1>6, <1>7, <1>8, <1>9 DEF s

LEMMA PairIsWhole ==
  ASSUME NEW k \in AllTrees, NEW v \in AllTrees, k # Invalid, v # Invalid
  PROVE  Whole("pair", <<k, v>>) = Pair(k, v) /\ Pair(k, v) # Invalid /\ Pair(k, v).items = <<k, v>>
<1>1. "pair" \in Types \ {"map"} BY DEF Types
<1>2. Whole("pair", <<k, v>>) = Node("pair", <<k, v>>) BY <1>1, WholeTwo
<1>3. Node("pair", <<k, v>>) # Invalid BY DEF Node, Invalid, Leaf
<1> QED BY <1>2, <1>3 DEF Pair, Node

\* The entries of the wire form of a map.
LEMMA EntriesOfMap ==
  ASSUME NEW x \in Storable, x.t = "map", NEW s, s = EachPair("arr", WireOf, x.items)
  PROVE  /\ Entries(Arr(s)) /\ DOMAIN s = DOMAIN x.items /\ Arr(s).items = s
         /\ \A i \in DOMAIN s : /\ s[i].items[1] = x.items[i].items[1]
                                /\ s[i].items[2] = ToWire(x.items[i].items[2])
                                /\ s[i].items[1].t = "str"
<1>1. /\ DOMAIN s = DOMAIN x.items
      /\ \A i \in DOMAIN s : s[i] = EntryOf(x.items[i]) /\ x.items[i].items[1].t = "str"
  BY StoredMap
<1>2. ASSUME NEW i \in DOMAIN s
      PROVE  /\ s[i].t = "arr" /\ Len(s[i].items) = 2
             /\ s[i].items[1] = x.items[i].items[1] /\ s[i].items[2] = ToWire(x.items[i].items[2])
             /\ s[i].items[1].t = "str"
  <2> DEFINE k == x.items[i].items[1]
             v == ToWire(x.items[i].items[2])
             two == <<k, v>>
  <2>1. s[i] = Arr(two) /\ k.t = "str" BY <1>1 DEF EntryOf
  <2>2. Len(two) = 2 /\ two[1] = k /\ two[2] = v OBVIOUS
  <2> HIDE DEF two, k, v
  <2>3. s[i].t = "arr" /\ s[i].items = two BY <2>1, NodeMeans
  <2> QED BY <2>1, <2>2, <2>3 DEF k, v
<1>3. Arr(s).t = "arr" /\ Arr(s).items = s BY DEF Arr, Node
<1>4. Entries(Arr(s)) BY <1>2, <1>3 DEF Entries, Entry
<1> QED BY <1>1, <1>2, <1>3, <1>4

\* A leaf of MessagePack is read as it is.
LEMMA ScalarReads ==
  ASSUME NEW x \in WireTrees, x.t \in Scalars
  PROVE  FromWire(x) = x /\ Shown(x) = ScalarJson(x) /\ Tag(x) = "none"
<1>1. x.t # "arr" /\ Tag(x) = "none"
  BY ScalarsAreNoParts DEF Tag, IsTagged
<1>2. FromWire(x) = Raw(x) BY <1>1, FromWireUnfolds, FromCases
<1>3. Raw(x) = x BY RawUnfolds, RawCases
<1>4. Shown(x) = ScalarJson(x) BY ShownUnfolds, ShownCases
<1> QED BY <1>1, <1>2, <1>3, <1>4

LEMMA FromWireOfToWire == \A x \in Storable : FromWire(ToWire(x)) = InUtc(x) /\ InUtc(x) # Invalid
<1> DEFINE D == DartTrees
           P == {x \in D : x \in Storable => FromWire(ToWire(x)) = InUtc(x) /\ InUtc(x) # Invalid}
<1>0. WithParts(D) BY TreesAreClosed
<1>1. ASSUME NEW x \in D, Below(D, x) \subseteq P PROVE x \in P
  <2> SUFFICES ASSUME x \in Storable PROVE FromWire(ToWire(x)) = InUtc(x) /\ InUtc(x) # Invalid OBVIOUS
  <2> DEFINE w == ToWire(x)
  <2>0. \A y \in Below(D, x) : y \in Storable => FromWire(ToWire(y)) = InUtc(y) /\ InUtc(y) # Invalid
    BY <1>1
  <2>1. /\ w \in WireTrees /\ FromWire(w) = FromWireBy(FromOf, w)
        /\ InUtc(x) = InUtcBy(InUtcOf, x)
    BY StoredCases, FromWireUnfolds, InUtcUnfolds
  <2>2. \A y \in Storable : /\ ToWire(y) \in WireTrees /\ FromOf[ToWire(y)] = FromWire(ToWire(y))
                          /\ InUtcOf[y] = InUtc(y) /\ InUtc(y) \in AllTrees
    BY StoredCases, FromWireUnfolds, InUtcUnfolds
  <2>3. CASE x.t \in Scalars
    <3>1. FromWire(w) = x BY <2>1, <2>3, StoredCases, ScalarReads
    <3>2. InUtc(x) = x BY <2>1, <2>3, InUtcCases, ScalarsAreNoParts
    <3> QED BY <3>1, <3>2, StoredCases
  <2>4. CASE x.t \in Dates
    <3> DEFINE p == Leaf("int", x.s)
    <3>1. w = Tagged("@dxtr:datetime", p) /\ x = Leaf(x.t, x.s) BY <2>4, StoredCases
    <3>2. p.t = "int" /\ p.s = x.s BY DEF Leaf
    <3> HIDE DEF p, w
    <3>3. Tag(w) = "@dxtr:datetime" /\ Payload(w) = p BY <3>1, TaggedMeans
    <3>4. FromWireBy(FromOf, w) = Leaf("datetime", x.s) BY <3>2, <3>3, FromCases
    <3>5. InUtc(x) = Leaf("datetime", x.s)
      <4>1. CASE x.t = "localtime" BY <2>1, <4>1, InUtcCases
      <4>2. CASE x.t = "datetime" BY <2>1, <3>1, <4>2, InUtcCases
      <4> QED BY <2>4, <4>1, <4>2
    <3>6. Leaf("datetime", x.s) # Invalid BY DEF Leaf, Invalid
    <3> QED BY <2>1, <3>4, <3>5, <3>6 DEF w
  <2>5. CASE x.t = "bytes"
    <3> DEFINE p == Node("bin", x.items)
    <3>1. w = Tagged("@dxtr:bytes", p) /\ x = Node("bytes", x.items) /\ DartBytes(x.items)
      BY <2>5, StoredCases
    <3>2. p.t = "bin" /\ p.items = x.items BY NodeMeans
    <3>6. InUtc(x) = x /\ x # Invalid BY <2>1, <2>5, InUtcCases, StoredCases
    <3> HIDE DEF p, w
    <3>3. Tag(w) = "@dxtr:bytes" /\ Payload(w) = p BY <3>1, TaggedMeans
    <3>4. FromWireBy(FromOf, w) = Node("bytes", [i \in DOMAIN x.items |-> Byte(x.items[i])])
      BY <3>2, <3>3, FromCases
    <3>5. [i \in DOMAIN x.items |-> Byte(x.items[i])] = x.items
      <4>1. \A i \in DOMAIN x.items : Byte(x.items[i]) = x.items[i] BY <3>1 DEF DartBytes
      <4>2. x.items \in Seq(D) BY <1>0 DEF WithParts
      <4>3. x.items = [i \in DOMAIN x.items |-> x.items[i]] BY <4>2, SeqParts, LenProperties
      <4> QED BY <4>1, <4>3
    <3> QED BY <2>1, <3>1, <3>4, <3>5, <3>6 DEF w
  <2>6. CASE x.t = "list"
    <3> DEFINE s == Each(WireOf, x.items)
               r == Each(FromOf, s)
               u == Each(InUtcOf, x.items)
    <3>1. /\ w = Tagged("@dxtr:list", Arr(s))
          /\ x.items \in Seq(Storable) /\ x.items \in Seq(Below(D, x))
          /\ DOMAIN s = DOMAIN x.items /\ \A i \in DOMAIN x.items : s[i] = ToWire(x.items[i])
      BY <2>6, StoredCases
    <3>0. r = [i \in DOMAIN s |-> FromOf[s[i]]] /\ u = [i \in DOMAIN x.items |-> InUtcOf[x.items[i]]]
      BY DEF Each
    <3>5. InUtc(x) = Node("list", u) BY <2>1, <2>6, InUtcCases
    <3> HIDE DEF s, w, r, u
    <3>2. Arr(s).t = "arr" /\ Arr(s).items = s BY NodeMeans
    <3>3. Tag(w) = "@dxtr:list" /\ Payload(w) = Arr(s) BY <3>1, TaggedMeans
    <3>4. FromWireBy(FromOf, w) = Whole("list", r) BY <3>2, <3>3, FromCases DEF r
    <3>6. \A i \in DOMAIN s : FromOf[s[i]] = InUtcOf[x.items[i]] /\ InUtcOf[x.items[i]] # Invalid
      BY <2>0, <2>2, <3>1, SeqParts
    <3>7. r = u /\ \A i \in DOMAIN r : r[i] # Invalid BY <3>0, <3>1, <3>6
    <3>8. Whole("list", r) = Node("list", r) BY <3>7 DEF Whole
    <3>9. Node("list", u) # Invalid BY DEF Node, Leaf, Invalid
    <3> QED BY <2>1, <3>4, <3>5, <3>7, <3>8, <3>9 DEF w
  <2>7. CASE x.t = "map"
    <3> DEFINE s == EachPair("arr", WireOf, x.items)
               r == EachPair("pair", FromOf, s)
               u == EachPair("pair", InUtcOf, x.items)
    <3>1. /\ w = Tagged("@dxtr:map", Arr(s))
          /\ \A i \in DOMAIN x.items :
               /\ x.items[i].items[1] \in AllTrees /\ x.items[i].items[1] # Invalid
               /\ x.items[i].items[2] \in Storable /\ x.items[i].items[2] \in Below(D, x)
      BY <2>7, StoredMap
    <3>2. /\ Entries(Arr(s)) /\ DOMAIN s = DOMAIN x.items /\ Arr(s).items = s
          /\ \A i \in DOMAIN s : /\ s[i].items[1] = x.items[i].items[1]
                                 /\ s[i].items[2] = ToWire(x.items[i].items[2])
      BY <2>7, EntriesOfMap
    <3>0. /\ r = [i \in DOMAIN s |-> Whole("pair", <<s[i].items[1], FromOf[s[i].items[2]]>>)]
          /\ u = [i \in DOMAIN x.items |-> Whole("pair", <<x.items[i].items[1], InUtcOf[x.items[i].items[2]]>>)]
      BY DEF EachPair
    <3>5. InUtc(x) = Whole("map", u) BY <2>1, <2>7, InUtcCases
    <3> HIDE DEF s, w, r, u
    <3>3. Tag(w) = "@dxtr:map" /\ Payload(w) = Arr(s) BY <3>1, TaggedMeans
    <3>4. FromWireBy(FromOf, w) = Whole("map", r) BY <3>2, <3>3, FromCases DEF r
    <3>6. ASSUME NEW i \in DOMAIN s
          PROVE  /\ FromOf[s[i].items[2]] = InUtcOf[x.items[i].items[2]]
                 /\ Whole("pair", <<x.items[i].items[1], InUtcOf[x.items[i].items[2]]>>) # Invalid
      <4> DEFINE k == x.items[i].items[1]
                 v == x.items[i].items[2]
      <4>1. k \in AllTrees /\ k # Invalid /\ v \in Storable /\ v \in Below(D, x) BY <3>1, <3>2
      <4>2. s[i].items[2] = ToWire(v) BY <3>2
      <4> HIDE DEF k, v
      <4>3. FromOf[s[i].items[2]] = InUtcOf[v] /\ InUtcOf[v] # Invalid /\ InUtcOf[v] \in AllTrees
        BY <2>0, <2>2, <4>1, <4>2
      <4>4. Whole("pair", <<k, InUtcOf[v]>>) # Invalid BY <4>1, <4>3, PairIsWhole
      <4> QED BY <4>3, <4>4 DEF k, v
    <3>7. r = u /\ \A i \in DOMAIN r : r[i] # Invalid BY <3>0, <3>2, <3>6
    <3>8. Whole("map", r) = Node("map", r) BY <3>7 DEF Whole
    <3>9. Node("map", r) # Invalid BY DEF Node, Leaf, Invalid
    <3> QED BY <2>1, <3>4, <3>5, <3>7, <3>8, <3>9 DEF w
  <2> QED BY <2>3, <2>4, <2>5, <2>6, <2>7, StoredCases
<1>2. D \subseteq P
  <2> HIDE DEF P
  <2> QED BY <1>0, <1>1, HeightInduction
<1> QED BY <1>2 DEF Storable

LEMMA ShownOfToWire == \A x \in Storable : Shown(ToWire(x)) = JsonOf(x) /\ JsonOf(x) # Invalid
<1> DEFINE D == DartTrees
           P == {x \in D : x \in Storable => Shown(ToWire(x)) = JsonOf(x) /\ JsonOf(x) # Invalid}
<1>0. WithParts(D) BY TreesAreClosed
<1>1. ASSUME NEW x \in D, Below(D, x) \subseteq P PROVE x \in P
  <2> SUFFICES ASSUME x \in Storable PROVE Shown(ToWire(x)) = JsonOf(x) /\ JsonOf(x) # Invalid OBVIOUS
  <2> DEFINE w == ToWire(x)
  <2>0. \A y \in Below(D, x) : y \in Storable => Shown(ToWire(y)) = JsonOf(y) /\ JsonOf(y) # Invalid
    BY <1>1
  <2>1. /\ w \in WireTrees /\ Shown(w) = ShownBy(ShownOf, w)
        /\ JsonOf(x) = JsonOfBy(JsonOfOf, x)
    BY StoredCases, ShownUnfolds, JsonOfUnfolds
  <2>2. \A y \in Storable : /\ ToWire(y) \in WireTrees /\ ShownOf[ToWire(y)] = Shown(ToWire(y))
                          /\ JsonOfOf[y] = JsonOf(y) /\ JsonOf(y) \in AllTrees
    BY StoredCases, ShownUnfolds, JsonOfUnfolds
  <2>3. CASE x.t \in Scalars
    <3>1. Shown(w) = ScalarJson(x) BY <2>1, <2>3, StoredCases, ScalarReads
    <3>2. JsonOf(x) = ScalarJson(x) BY <2>1, <2>3, JsonOfCases, ScalarsAreNoParts
    <3>3. Nil # Invalid /\ x # Invalid BY StoredCases DEF Nil, Invalid, Leaf
    <3> QED BY <3>1, <3>2, <3>3 DEF ScalarJson
  <2>4. CASE x.t \in Dates
    <3> DEFINE p == Leaf("int", x.s)
    <3>1. w = Tagged("@dxtr:datetime", p) BY <2>4, StoredCases
    <3>2. p.t = "int" /\ p.s = x.s BY DEF Leaf
    <3> HIDE DEF p, w
    <3>3. Tag(w) = "@dxtr:datetime" /\ Payload(w) = p BY <3>1, TaggedMeans
    <3>4. ShownBy(ShownOf, w) = DateJson(x.s) BY <3>2, <3>3, ShownCases
    <3>5. JsonOf(x) = DateJson(x.s) BY <2>1, <2>4, JsonOfCases
    <3>6. x.s \in Texts BY <1>0, AllMeans DEF WithParts, IsTree
    <3> QED BY <2>1, <3>4, <3>5, <3>6, JsonTrees DEF w
  <2>5. CASE x.t = "bytes"
    <3> DEFINE p == Node("bin", x.items)
    <3>1. w = Tagged("@dxtr:bytes", p) BY <2>5, StoredCases
    <3>2. p.t = "bin" /\ p.items = x.items BY NodeMeans
    <3> HIDE DEF p, w
    <3>3. Tag(w) = "@dxtr:bytes" /\ Payload(w) = p BY <3>1, TaggedMeans
    <3>4. ShownBy(ShownOf, w) = BytesJson(x.items) BY <3>2, <3>3, ShownCases
    <3>5. JsonOf(x) = BytesJson(x.items) BY <2>1, <2>5, JsonOfCases
    <3>6. x.items \in Seq(AllTrees) BY <1>0, AllMeans DEF WithParts, IsTree
    <3> QED BY <2>1, <3>4, <3>5, <3>6, JsonTrees DEF w
  <2>6. CASE x.t = "list"
    <3> DEFINE s == Each(WireOf, x.items)
               r == Each(ShownOf, s)
               j == Each(JsonOfOf, x.items)
    <3>1. /\ w = Tagged("@dxtr:list", Arr(s))
          /\ x.items \in Seq(Storable) /\ x.items \in Seq(Below(D, x))
          /\ DOMAIN s = DOMAIN x.items /\ \A i \in DOMAIN x.items : s[i] = ToWire(x.items[i])
      BY <2>6, StoredCases
    <3>0. r = [i \in DOMAIN s |-> ShownOf[s[i]]] /\ j = [i \in DOMAIN x.items |-> JsonOfOf[x.items[i]]]
      BY DEF Each
    <3>5. JsonOf(x) = Arr(j) BY <2>1, <2>6, JsonOfCases
    <3> HIDE DEF s, w, r, j
    <3>2. Arr(s).t = "arr" /\ Arr(s).items = s BY NodeMeans
    <3>3. Tag(w) = "@dxtr:list" /\ Payload(w) = Arr(s) BY <3>1, TaggedMeans
    <3>4. ShownBy(ShownOf, w) = Whole("arr", r) BY <3>2, <3>3, ShownCases DEF r
    <3>6. \A i \in DOMAIN s : ShownOf[s[i]] = JsonOfOf[x.items[i]] /\ JsonOfOf[x.items[i]] # Invalid
      BY <2>0, <2>2, <3>1, SeqParts
    <3>7. r = j /\ \A i \in DOMAIN r : r[i] # Invalid BY <3>0, <3>1, <3>6
    <3>8. Whole("arr", r) = Node("arr", r) BY <3>7 DEF Whole
    <3>9. Arr(j) # Invalid BY NodeMeans, InvalidHasType
    <3> QED BY <2>1, <3>4, <3>5, <3>7, <3>8, <3>9 DEF w, Arr
  <2>7. CASE x.t = "map"
    <3> DEFINE s == EachPair("arr", WireOf, x.items)
               r == EachPair("pair", ShownOf, s)
               j == EachPair("pair", JsonOfOf, x.items)
    <3>1. /\ w = Tagged("@dxtr:map", Arr(s))
          /\ \A i \in DOMAIN x.items :
               /\ x.items[i].items[1] \in AllTrees /\ x.items[i].items[1] # Invalid
               /\ x.items[i].items[2] \in Storable /\ x.items[i].items[2] \in Below(D, x)
      BY <2>7, StoredMap
    <3>2. /\ Entries(Arr(s)) /\ DOMAIN s = DOMAIN x.items /\ Arr(s).items = s
          /\ \A i \in DOMAIN s : /\ s[i].items[1] = x.items[i].items[1]
                                 /\ s[i].items[2] = ToWire(x.items[i].items[2])
                                 /\ s[i].items[1].t = "str"
      BY <2>7, EntriesOfMap
    <3>0. /\ r = [i \in DOMAIN s |-> Whole("pair", <<s[i].items[1], ShownOf[s[i].items[2]]>>)]
          /\ j = [i \in DOMAIN x.items |-> Whole("pair", <<x.items[i].items[1], JsonOfOf[x.items[i].items[2]]>>)]
      BY DEF EachPair
    <3>5. JsonOf(x) = Obj(j) BY <2>1, <2>7, JsonOfCases
    <3> HIDE DEF s, w, r, j
    <3>3. Tag(w) = "@dxtr:map" /\ Payload(w) = Arr(s) BY <3>1, TaggedMeans
    <3>4. ShownBy(ShownOf, w) = Whole("obj", r)
      <4>1. ShownBy(ShownOf, w) = ObjectOf(ShownOf, s) BY <3>2, <3>3, ShownCases
      <4> QED BY <3>2, <4>1 DEF ObjectOf, r
    <3>6. ASSUME NEW i \in DOMAIN s
          PROVE  /\ ShownOf[s[i].items[2]] = JsonOfOf[x.items[i].items[2]]
                 /\ Whole("pair", <<x.items[i].items[1], JsonOfOf[x.items[i].items[2]]>>) # Invalid
      <4> DEFINE k == x.items[i].items[1]
                 v == x.items[i].items[2]
      <4>1. k \in AllTrees /\ k # Invalid /\ v \in Storable /\ v \in Below(D, x) BY <3>1, <3>2
      <4>2. s[i].items[2] = ToWire(v) BY <3>2
      <4> HIDE DEF k, v
      <4>3. ShownOf[s[i].items[2]] = JsonOfOf[v] /\ JsonOfOf[v] # Invalid /\ JsonOfOf[v] \in AllTrees
        BY <2>0, <2>2, <4>1, <4>2
      <4>4. Whole("pair", <<k, JsonOfOf[v]>>) # Invalid BY <4>1, <4>3, PairIsWhole
      <4> QED BY <4>3, <4>4 DEF k, v
    <3>7. r = j /\ \A i \in DOMAIN r : r[i] # Invalid BY <3>0, <3>2, <3>6
    <3>8. Whole("obj", r) = Node("obj", r) BY <3>7 DEF Whole
    <3>9. Obj(j) # Invalid BY NodeMeans, InvalidHasType
    <3> QED BY <2>1, <3>4, <3>5, <3>7, <3>8, <3>9 DEF w, Obj
  <2> QED BY <2>3, <2>4, <2>5, <2>6, <2>7, StoredCases
<1>2. D \subseteq P
  <2> HIDE DEF P
  <2> QED BY <1>0, <1>1, HeightInduction
<1> QED BY <1>2 DEF Storable

-----------------------------------------------------------------------------
(* The inductive invariant: the record is the wire form of the value, and  *)
(* what a reader got is what it makes of the record.                       *)

CodecInv ==
  /\ value \in DartValues \cup {Missing} /\ stored \in WireTrees
  /\ value # Missing /\ stored # Missing => value \in Storable /\ stored = ToWire(value)
  /\ reader \in {"none", "dart", "query", "inspector"}
  /\ reader # "none" => stored # Missing
  /\ reader = "dart" => seen = FromWire(stored)
  /\ reader = "query" => seen = Normalize(stored)
  /\ reader = "inspector" => seen = Shown(stored)

LEMMA CodecInvInitially == CodecInit => CodecInv
<1>1. Missing \in AllTrees /\ Height[Missing] = 0
  BY LeafHeight, OwnTextsAreTexts DEF OwnTexts, Types, Missing
<1>2. Nesting \in Nat /\ 0 <= 2 * Nesting + 1 BY NestingAssumption
<1>3. Missing \in WireTrees BY <1>1, <1>2, HeightInWire
<1> QED BY <1>3 DEF CodecInit, CodecInv

LEMMA CodecInvNext == CodecInv /\ [CodecNext]_codecVars => CodecInv'
<1> SUFFICES ASSUME CodecInv, [CodecNext]_codecVars PROVE CodecInv' OBVIOUS
<1>1. CASE Put
  <2>1. value \in DartValues /\ value # Missing /\ stored = Missing /\ reader = "none"
    BY <1>1 DEF Put, CodecInv
  <2>2. value \in Storable BY <1>1, <2>1, DartAssumption DEF Put, Storable
  <2>3. ToWire(value) \in WireTrees BY <2>2, StoredCases
  <2> QED BY <1>1, <2>1, <2>2, <2>3 DEF Put, CodecInv
<1>2. CASE PutForeign BY <1>2, ForeignAssumption DEF PutForeign, CodecInv
<1>3. CASE Get BY <1>3 DEF Get, ReadBy, CodecInv
<1>4. CASE Query BY <1>4 DEF Query, ReadBy, CodecInv
<1>5. CASE Inspect BY <1>5 DEF Inspect, ReadBy, CodecInv
<1>6. CASE UNCHANGED codecVars BY <1>6 DEF codecVars, CodecInv
<1> QED BY <1>1, <1>2, <1>3, <1>4, <1>5, <1>6 DEF CodecNext

LEMMA CodecInvHolds == CodecSpec => []CodecInv
BY CodecInvInitially, CodecInvNext, PTL DEF CodecSpec

\* Whatever the value, its depth and what it spells, Dart reads back what it
\* stored, each local date as the same moment in UTC (BoxCodec), and the
\* inspector prints the JSON of the documentation.
THEOREM CodecRoundTrip == CodecSpec => []RoundTrip
<1>1. CodecInv => RoundTrip
  <2> SUFFICES ASSUME CodecInv, value # Missing
               PROVE  /\ reader = "dart" => seen = InUtc(value)
                      /\ reader = "inspector" => seen = JsonOf(value)
    BY DEF RoundTrip
  <2>1. reader # "none" => value \in Storable /\ stored = ToWire(value) BY DEF CodecInv
  <2>2. ASSUME reader = "dart" PROVE seen = InUtc(value)
    BY <2>1, <2>2, FromWireOfToWire DEF CodecInv
  <2>3. ASSUME reader = "inspector" PROVE seen = JsonOf(value)
    BY <2>1, <2>3, ShownOfToWire DEF CodecInv
  <2> QED BY <2>2, <2>3
<1> QED BY <1>1, CodecInvHolds, PTL

-----------------------------------------------------------------------------
(* query.rs: Normalize keeps the levels of a record.                       *)

\* What Normalize makes of the pairs of a MessagePack map.
NormalPairs(F, ps) == [i \in DOMAIN ps |-> Whole("pair", Each(F, ps[i].items))]

LEMMA NormalCases ==
  ASSUME NEW F, NEW x
  PROVE  /\ x.t = "map" => NormalizeBy(F, x) = Whole("map", NormalPairs(F, x.items))
         /\ Tag(x) = "@dxtr:map" =>
              NormalizeBy(F, x) =
                IF Entries(Payload(x)) THEN Whole("map", EachPair("pair", F, Payload(x).items))
                ELSE Invalid
         /\ Tag(x) = "@dxtr:list" =>
              NormalizeBy(F, x) =
                IF Payload(x).t = "arr" THEN Whole("arr", Each(F, Payload(x).items)) ELSE Invalid
         /\ x.t = "arr" /\ Tag(x) \notin {"@dxtr:map", "@dxtr:list"} =>
              NormalizeBy(F, x) = Whole("arr", Each(F, x.items))
         /\ x.t \notin {"map", "arr"} => NormalizeBy(F, x) = x
<1>1. Tag(x) \in {"@dxtr:map", "@dxtr:list"} => x.t = "arr" BY TagMeans
<1> QED BY <1>1 DEF NormalizeBy, NormalPairs

LEMMA EachTwo ==
  ASSUME NEW S, NEW ws \in Seq(S), Len(ws) = 2, NEW F, \A y \in S : F[y] \in AllTrees
  PROVE  Each(F, ws) = <<F[ws[1]], F[ws[2]]>>
<1> DEFINE f == Each(F, ws)
<1>1. f \in Seq(AllTrees) /\ Len(f) = Len(ws) BY EachIs
<1>2. DOMAIN ws = 1..2 BY SeqParts
<1>3. f[1] = F[ws[1]] /\ f[2] = F[ws[2]] BY <1>2 DEF Each
<1> HIDE DEF f
<1>4. f = <<f[1], f[2]>> BY <1>1
<1> QED BY <1>3, <1>4 DEF f

LEMMA NormalPairsAre ==
  ASSUME NEW D, WithParts(D), NEW x \in D, x.t = "map", NEW F, \A y \in Below(D, x) : F[y] \in AllTrees
  PROVE  /\ DOMAIN NormalPairs(F, x.items) = DOMAIN x.items
         /\ NormalPairs(F, x.items) \in Seq(AllTrees)
         /\ \A i \in DOMAIN x.items :
              /\ NormalPairs(F, x.items)[i] =
                   Whole("pair", <<F[x.items[i].items[1]], F[x.items[i].items[2]]>>)
              /\ NormalPairs(F, x.items)[i] = Invalid \/ IsPair(NormalPairs(F, x.items)[i])
         /\ Whole("map", NormalPairs(F, x.items)) \in AllTrees
<1> DEFINE s == NormalPairs(F, x.items)
<1>1. /\ s = [i \in DOMAIN s |-> s[i]] /\ DOMAIN s = DOMAIN x.items
      /\ \A i \in DOMAIN x.items : s[i] = Whole("pair", Each(F, x.items[i].items))
  BY DEF NormalPairs
<1>2. "pair" \in Types \ {"map"} /\ "map" \in Types BY DEF Types
<1> HIDE DEF s
<1>3. ASSUME NEW i \in DOMAIN x.items
      PROVE  /\ s[i] = Whole("pair", <<F[x.items[i].items[1]], F[x.items[i].items[2]]>>)
             /\ s[i] = Invalid \/ IsPair(s[i])
             /\ s[i] \in AllTrees
  <2> DEFINE q == x.items[i].items
  <2>1. q \in Seq(Below(D, x)) /\ DOMAIN q = {1, 2} BY MapParts
  <2>2. s[i] = Whole("pair", Each(F, q)) BY <1>1
  <2> HIDE DEF q
  <2>3. Len(q) = 2
    <3>1. Len(q) \in Nat /\ DOMAIN q = 1..Len(q) BY <2>1, SeqParts
    <3> QED BY <2>1, <3>1
  <2>4. Each(F, q) = <<F[q[1]], F[q[2]]>> BY <2>1, <2>3, EachTwo
  <2>5. F[q[1]] \in AllTrees /\ F[q[2]] \in AllTrees BY <2>1, SeqParts
  <2> DEFINE a == F[q[1]]
             b == F[q[2]]
  <2>6. s[i] = Whole("pair", <<a, b>>) /\ a \in AllTrees /\ b \in AllTrees BY <2>2, <2>4, <2>5
  <2> HIDE DEF a, b
  <2>7. s[i] \in AllTrees /\ (s[i] = Invalid \/ IsPair(s[i])) BY <1>2, <2>6, WholeTwo
  <2> QED BY <2>6, <2>7 DEF q, a, b
<1>4. x.items \in Seq(D) BY DEF WithParts
<1>5. s \in Seq(AllTrees) BY <1>1, <1>3, <1>4, SeqOnPlaces
<1>6. Whole("map", s) \in AllTrees BY <1>1, <1>2, <1>3, <1>5, WholeIsTree
<1> QED BY <1>1, <1>3, <1>5, <1>6 DEF s

LEMMA NormalIsTree ==
  ASSUME NEW D, WithParts(D), NEW x \in D, NEW F, \A y \in Below(D, x) : F[y] \in AllTrees
  PROVE  NormalizeBy(F, x) \in AllTrees
<1> DEFINE p == Payload(x)
<1>1. CASE x.t = "map" BY <1>1, NormalPairsAre, NormalCases
<1>2. CASE Tag(x) = "@dxtr:map"
  <2>1. ASSUME Entries(p) PROVE Whole("map", EachPair("pair", F, p.items)) \in AllTrees
    BY <1>2, <2>1, TagMeans, TaggedMapParts, MapIsTree
  <2> QED BY <1>2, <2>1, NormalCases, OwnTrees
<1>3. CASE Tag(x) = "@dxtr:list"
  <2>1. p.items \in Seq(Below(D, x)) BY <1>3, TagMeans, TaggedParts
  <2>2. Whole("arr", Each(F, p.items)) \in AllTrees BY <2>1, ListIsTree DEF Types
  <2> QED BY <1>3, <2>2, NormalCases, OwnTrees
<1>4. CASE x.t = "arr" /\ Tag(x) \notin {"@dxtr:map", "@dxtr:list"}
  <2>1. Whole("arr", Each(F, x.items)) \in AllTrees BY BelowParts, ListIsTree DEF Types
  <2> QED BY <1>4, <2>1, NormalCases
<1>5. CASE x.t \notin {"map", "arr"} BY <1>5, NormalCases DEF WithParts
<1> QED BY <1>1, <1>2, <1>3, <1>4, <1>5

LEMMA NormalSame ==
  ASSUME NEW D, WithParts(D), NEW x \in D, NEW F, NEW G, \A y \in Below(D, x) : F[y] = G[y]
  PROVE  NormalizeBy(F, x) = NormalizeBy(G, x)
<1> DEFINE p == Payload(x)
<1>1. CASE x.t = "map"
  <2>1. \A i \in DOMAIN x.items : Each(F, x.items[i].items) = Each(G, x.items[i].items)
    BY <1>1, MapParts, EachSame
  <2>2. NormalPairs(F, x.items) = NormalPairs(G, x.items) BY <2>1 DEF NormalPairs
  <2> QED BY <1>1, <2>2, NormalCases
<1>2. CASE Tag(x) = "@dxtr:map"
  <2>1. ASSUME Entries(p) PROVE EachPair("pair", F, p.items) = EachPair("pair", G, p.items)
    <3>1. ValuesIn(p.items, Below(D, x)) BY <1>2, <2>1, TagMeans, TaggedMapParts
    <3> QED BY <3>1, EachPairSame
  <2> QED BY <1>2, <2>1, NormalCases
<1>3. CASE Tag(x) = "@dxtr:list"
  <2>1. Each(F, p.items) = Each(G, p.items) BY <1>3, TagMeans, TaggedParts, EachSame
  <2> QED BY <1>3, <2>1, NormalCases
<1>4. CASE x.t = "arr" /\ Tag(x) \notin {"@dxtr:map", "@dxtr:list"}
  <2>1. Each(F, x.items) = Each(G, x.items) BY BelowParts, EachSame
  <2> QED BY <1>4, <2>1, NormalCases
<1>5. CASE x.t \notin {"map", "arr"} BY <1>5, NormalCases
<1> QED BY <1>1, <1>2, <1>3, <1>4, <1>5

\* Normalize as a function.
NormalOf == [x \in WireTrees |-> Normalize(x)]

LEMMA NormalizeUnfolds ==
  /\ \A x \in WireTrees : Normalize(x) \in AllTrees /\ NormalOf[x] = Normalize(x)
  /\ \A x \in WireTrees : Normalize(x) = NormalizeBy(NormalOf, x)
<1> DEFINE D == WireTrees
           H == [F \in [D -> AllTrees] |-> [x \in D |-> NormalizeBy(F, x)]]
           V == AllTrees
           f == CHOOSE g : g = [x \in D |-> NormalizeBy(g, x)]
<1>1. WithParts(D) BY TreesAreClosed
<1>2. \A F \in [D -> AllTrees], x \in D : NormalizeBy(F, x) \in AllTrees
  BY <1>1, NormalIsTree DEF Below
<1>3. \A F, G, x : x \in D /\ (\A y \in Below(D, x) : F[y] = G[y]) => NormalizeBy(F, x) = NormalizeBy(G, x)
  BY <1>1, NormalSame
<1>4. IsTreeBody(H, D, AllTrees) BY <1>2, <1>3 DEF IsTreeBody
<1>5. \A F \in [D -> AllTrees] : F = H[F] => F = [x \in D |-> NormalizeBy(F, x)] OBVIOUS
<1>6. PICK F \in [D -> AllTrees] : F = [x \in D |-> NormalizeBy(F, x)]
  <2>1. V # {} BY OwnTrees
  <2>2. IsTreeBody(H, D, V) BY <1>4
  <2> HIDE DEF H, V
  <2>3. \E F \in [D -> V] : F = H[F] BY <1>1, <2>1, <2>2, TreeFunction
  <2> QED BY <1>5, <2>3 DEF V
<1>7. f = [x \in D |-> NormalizeBy(f, x)]
  <2>1. \E g : g = [x \in D |-> NormalizeBy(g, x)] BY <1>6
  <2> QED BY <2>1
<1>8. \A x : Normalize(x) = f[x] BY DEF Normalize
<1> HIDE DEF f
<1>9. f = F
  <2>1. f = [x \in D |-> f[x]] /\ F = [x \in D |-> F[x]] BY <1>7
  <2>2. \A x \in D : (\A y \in Below(D, x) : f[y] = F[y]) => f[x] = F[x] BY <1>3, <1>6, <1>7
  <2> QED BY <1>1, <2>1, <2>2, OneFunction
<1>10. NormalOf = f BY <1>7, <1>8 DEF NormalOf
<1>11. \A x \in D : Normalize(x) = f[x] /\ f[x] \in AllTrees /\ f[x] = NormalizeBy(f, x)
  BY <1>7, <1>8, <1>9
<1> QED BY <1>10, <1>11

LEMMA WholeHeight ==
  ASSUME NEW t, NEW items, Whole(t, items) \in AllTrees, NEW n \in Nat,
         \A i \in DOMAIN items : Height[items[i]] < n
  PROVE  Height[Whole(t, items)] <= n
<1>1. CASE Whole(t, items) = Invalid BY <1>1, InvalidHeight
<1>2. CASE Whole(t, items) # Invalid
  <2>1. Whole(t, items) = Node(t, items) BY <1>2 DEF Whole
  <2>2. Node(t, items).items = items BY NodeMeans
  <2>3. Whole(t, items).items = items BY <2>1, <2>2
  <2> QED BY <2>3, HeightBound
<1> QED BY <1>1, <1>2

LEMMA WholePairHeight ==
  ASSUME NEW a \in AllTrees, NEW b \in AllTrees, NEW n \in Nat, Height[a] < n, Height[b] < n
  PROVE  Whole("pair", <<a, b>>) \in AllTrees /\ Height[Whole("pair", <<a, b>>)] <= n
<1>1. "pair" \in Types \ {"map"} BY DEF Types
<1>2. Height[Node("pair", <<a, b>>)] <= n BY <1>1, TwoHeight
<1> QED BY <1>1, <1>2, WholeTwo, InvalidHeight

LEMMA NormalizeHeight == \A x \in WireTrees : Height[Normalize(x)] <= Height[x]
<1> DEFINE D == WireTrees
           P == {x \in D : Height[Normalize(x)] <= Height[x]}
<1>0. WithParts(D) BY TreesAreClosed
<1>00. \A x \in D : x \in AllTrees /\ Height[x] \in Nat BY <1>0, HeightMeans DEF WithParts
<1>1. ASSUME NEW x \in D, Below(D, x) \subseteq P PROVE x \in P
  <2> DEFINE h == Height[x]
             n == Normalize(x)
             p == Payload(x)
  <2>0. h \in Nat /\ x \in AllTrees BY <1>00
  <2>1. n = NormalizeBy(NormalOf, x) /\ n \in AllTrees BY NormalizeUnfolds
  <2>2. \A y \in Below(D, x) : NormalOf[y] \in AllTrees
    BY NormalizeUnfolds DEF Below
  <2>3. \A y \in Below(D, x) : /\ Height[NormalOf[y]] <= Height[y] /\ Height[NormalOf[y]] \in Nat
                               /\ Height[y] \in Nat /\ Height[y] < h
    BY <1>1, <1>00, <2>2, NormalizeUnfolds, HeightMeans DEF Below
  <2>4. ASSUME NEW ws \in Seq(Below(D, x)), n = Whole("arr", Each(NormalOf, ws)) PROVE Height[n] <= h
    <3> DEFINE s == Each(NormalOf, ws)
    <3>1. DOMAIN s = DOMAIN ws /\ \A i \in DOMAIN ws : s[i] = NormalOf[ws[i]] BY DEF Each
    <3>2. \A i \in DOMAIN ws : ws[i] \in Below(D, x) BY SeqParts
    <3> HIDE DEF s, n, h
    <3>3. \A i \in DOMAIN s : Height[s[i]] < h
      <4> SUFFICES ASSUME NEW i \in DOMAIN s PROVE Height[s[i]] < h OBVIOUS
      <4>1. s[i] = NormalOf[ws[i]] /\ ws[i] \in Below(D, x) BY <3>1, <3>2
      <4> QED BY <2>0, <2>3, <4>1
    <3> QED BY <2>0, <2>1, <2>4, <3>3, WholeHeight DEF s
  <2> HIDE DEF h, n
  <2>5. CASE x.t = "map"
    <3> DEFINE s == NormalPairs(NormalOf, x.items)
    <3>1. /\ DOMAIN s = DOMAIN x.items /\ Whole("map", s) \in AllTrees
          /\ \A i \in DOMAIN x.items :
               s[i] = Whole("pair", <<NormalOf[x.items[i].items[1]], NormalOf[x.items[i].items[2]]>>)
      BY <1>0, <2>2, <2>5, NormalPairsAre
    <3>2. n = Whole("map", s) BY <2>1, <2>5, NormalCases
    <3> HIDE DEF s
    <3>3. ASSUME NEW i \in DOMAIN s PROVE Height[s[i]] < h
      <4> DEFINE q == x.items[i]
                 a == NormalOf[q.items[1]]
                 b == NormalOf[q.items[2]]
      <4>1. q \in D /\ q \in Below(D, x) /\ Below(D, q) \subseteq Below(D, x)
        BY <1>0, <3>1, BelowParts, SeqParts
      <4>2. DOMAIN q.items = {1, 2} BY <1>0, <2>5, <3>1, MapParts
      <4>3. s[i] = Whole("pair", <<a, b>>) BY <3>1
      <4> HIDE DEF q
      <4>4. q.items[1] \in Below(D, q) /\ q.items[2] \in Below(D, q)
        BY <1>0, <4>1, <4>2, BelowParts, SeqParts
      <4>5. /\ q.items[1] \in Below(D, x) /\ q.items[2] \in Below(D, x)
            /\ Height[q.items[1]] < Height[q] /\ Height[q.items[2]] < Height[q]
        BY <4>1, <4>4 DEF Below
      <4>6. Height[q] \in Nat /\ Height[q] < h BY <2>3, <4>1
      <4>7. a \in AllTrees /\ b \in AllTrees /\ Height[a] < Height[q] /\ Height[b] < Height[q]
        BY <2>2, <2>3, <4>5, <4>6
      <4> HIDE DEF a, b
      <4>8. s[i] \in AllTrees /\ Height[s[i]] <= Height[q] BY <4>3, <4>6, <4>7, WholePairHeight
      <4>9. Height[s[i]] \in Nat BY <4>8, HeightMeans
      <4> QED BY <2>0, <4>6, <4>8, <4>9
    <3>4. Height[n] <= h BY <2>0, <3>1, <3>2, <3>3, WholeHeight
    <3> QED BY <3>4 DEF h, n
  <2>6. CASE Tag(x) = "@dxtr:map"
    <3> DEFINE s == EachPair("pair", NormalOf, p.items)
    <3>0. ASSUME Entries(p) PROVE Height[Whole("map", s)] <= h
      <4>1. /\ p \in D /\ p \in Below(D, x) /\ p.items \in Seq(D)
            /\ KeysIn(p.items, AllTrees) /\ ValuesIn(p.items, Below(D, x))
        BY <1>0, <2>6, <3>0, TagMeans, TaggedParts, TaggedMapParts
      <4>2. \A i \in DOMAIN p.items : DOMAIN p.items[i].items = {1, 2} BY <1>0, <3>0, <4>1, EntryParts
      <4>3. Whole("map", s) \in AllTrees BY <2>2, <4>1, MapIsTree
      <4>4. DOMAIN s = DOMAIN p.items
            /\ \A i \in DOMAIN s : s[i] = Whole("pair", <<p.items[i].items[1], NormalOf[p.items[i].items[2]]>>)
        BY DEF EachPair
      <4> HIDE DEF s, p
      <4>5. ASSUME NEW i \in DOMAIN s PROVE Height[s[i]] < h
        <5> DEFINE q == p.items[i]
                   a == q.items[1]
                   b == NormalOf[q.items[2]]
        <5>1. q \in D /\ q \in Below(D, p) /\ DOMAIN q.items = {1, 2}
          BY <1>0, <4>1, <4>2, <4>4, BelowParts, SeqParts
        <5>2. s[i] = Whole("pair", <<a, b>>) BY <4>4
        <5> HIDE DEF q
        <5>3. q.items[1] \in Below(D, q) /\ q.items[2] \in Below(D, q)
          BY <1>0, <5>1, BelowParts, SeqParts
        <5>4. q \in Below(D, x) /\ Height[q] \in Nat /\ Height[q] < h
          BY <1>0, <2>3, <4>1, <5>1, BelowBelow
        <5>5. q.items[2] \in Below(D, x) /\ q.items[1] \in AllTrees
          BY <1>0, <5>3, <5>4, BelowBelow
        <5>6. a \in AllTrees /\ b \in AllTrees /\ Height[a] < Height[q] /\ Height[b] < Height[q]
          <6>1. Height[q.items[1]] < Height[q] /\ Height[q.items[2]] < Height[q] BY <5>3 DEF Below
          <6> QED BY <2>2, <2>3, <5>4, <5>5, <6>1
        <5> HIDE DEF a, b
        <5>7. s[i] \in AllTrees /\ Height[s[i]] <= Height[q] BY <5>2, <5>4, <5>6, WholePairHeight
        <5>8. Height[s[i]] \in Nat BY <5>7, HeightMeans
        <5> QED BY <2>0, <5>4, <5>7, <5>8
      <4> QED BY <2>0, <4>3, <4>5, WholeHeight
    <3>1. n = Invalid \/ (Entries(p) /\ n = Whole("map", s)) BY <2>1, <2>6, NormalCases
    <3>2. Height[n] <= h BY <2>0, <3>0, <3>1, InvalidHeight
    <3> QED BY <3>2 DEF h, n
  <2>7. CASE Tag(x) = "@dxtr:list"
    <3>1. p.items \in Seq(Below(D, x)) BY <1>0, <2>7, TagMeans, TaggedParts
    <3>2. n = Invalid \/ n = Whole("arr", Each(NormalOf, p.items)) BY <2>1, <2>7, NormalCases
    <3>3. Height[n] <= h BY <2>0, <2>4, <3>1, <3>2, InvalidHeight DEF h, n
    <3> QED BY <3>3 DEF h, n
  <2>8. CASE x.t = "arr" /\ Tag(x) \notin {"@dxtr:map", "@dxtr:list"}
    <3>1. x.items \in Seq(Below(D, x)) BY <1>0, BelowParts
    <3>2. n = Whole("arr", Each(NormalOf, x.items)) BY <2>1, <2>8, NormalCases
    <3>3. Height[n] <= h BY <2>4, <3>1, <3>2 DEF h, n
    <3> QED BY <3>3 DEF h, n
  <2>9. CASE x.t \notin {"map", "arr"}
    <3>1. n = x BY <2>1, <2>9, NormalCases
    <3>2. Height[n] <= h BY <2>0, <3>1 DEF h
    <3> QED BY <3>2 DEF h, n
  <2> QED BY <2>5, <2>6, <2>7, <2>8, <2>9
<1>2. D \subseteq P
  <2> HIDE DEF P
  <2> QED BY <1>0, <1>1, HeightInduction
<1> QED BY <1>2

LEMMA NormalizeInWire == \A x \in WireTrees : Normalize(x) \in WireTrees
<1> SUFFICES ASSUME NEW x \in WireTrees PROVE Normalize(x) \in WireTrees OBVIOUS
<1>1. x \in AllTrees /\ Height[x] \in Nat /\ Height[x] <= 2 * Nesting + 1
  BY TreesAreClosed, HeightMeans, HeightInWire DEF WithParts
<1>2. Normalize(x) \in AllTrees /\ Height[Normalize(x)] <= Height[x]
  BY NormalizeUnfolds, NormalizeHeight
<1>3. Height[Normalize(x)] \in Nat /\ Nesting \in Nat BY <1>2, HeightMeans, NestingAssumption
<1>4. Height[Normalize(x)] <= 2 * Nesting + 1 BY <1>1, <1>2, <1>3
<1> QED BY <1>2, <1>4, HeightInWire

-----------------------------------------------------------------------------
(* What a query compares is what the inspector shows.                      *)

LEMMA NormalJsonCases ==
  ASSUME NEW F, NEW x
  PROVE  /\ x.t = "bin" => JsonOfNormalBy(F, x) = BytesJson(x.items)
         /\ Tag(x) = "@dxtr:bytes" => JsonOfNormalBy(F, x) = BytesJson(Payload(x).items)
         /\ Tag(x) = "@dxtr:datetime" => JsonOfNormalBy(F, x) = DateJson(Payload(x).s)
         /\ x.t = "arr" /\ Tag(x) \notin {"@dxtr:bytes", "@dxtr:datetime"} =>
              JsonOfNormalBy(F, x) = Arr(Each(F, x.items))
         /\ x.t = "map" => JsonOfNormalBy(F, x) = Obj(EachPair("pair", F, x.items))
         /\ x.t \notin {"bin", "arr", "map"} => JsonOfNormalBy(F, x) = ScalarJson(x)
<1>1. Tag(x) \in {"@dxtr:bytes", "@dxtr:datetime"} => x.t = "arr" BY TagMeans
<1> QED BY <1>1 DEF JsonOfNormalBy

LEMMA NormalJsonIsTree ==
  ASSUME NEW D, WithParts(D), NEW x \in D, NEW F, \A y \in Below(D, x) : F[y] \in AllTrees
  PROVE  JsonOfNormalBy(F, x) \in AllTrees
<1> DEFINE p == Payload(x)
<1>0. x \in AllTrees /\ x.items \in Seq(AllTrees) BY AllMeans DEF WithParts, IsTree
<1>1. ASSUME IsTagged(x)
      PROVE  p.s \in Texts /\ p.items \in Seq(AllTrees)
  BY <1>1, TaggedParts, AllMeans DEF WithParts, IsTree
<1>2. CASE x.t = "bin" BY <1>0, <1>2, JsonTrees, NormalJsonCases
<1>3. CASE Tag(x) = "@dxtr:bytes"
  <2>1. BytesJson(p.items) \in AllTrees BY <1>1, <1>3, TagMeans, JsonTrees
  <2> QED BY <1>3, <2>1, NormalJsonCases
<1>4. CASE Tag(x) = "@dxtr:datetime"
  <2>1. DateJson(p.s) \in AllTrees BY <1>1, <1>4, TagMeans, JsonTrees
  <2> QED BY <1>4, <2>1, NormalJsonCases
<1>5. CASE x.t = "arr" /\ Tag(x) \notin {"@dxtr:bytes", "@dxtr:datetime"}
  <2>1. Each(F, x.items) \in Seq(AllTrees) BY BelowParts, EachIs
  <2> QED BY <1>5, <2>1, NormalJsonCases, ArrIsTree
<1>6. CASE x.t = "map"
  <2>1. KeysIn(x.items, AllTrees) /\ ValuesIn(x.items, Below(D, x)) /\ x.items \in Seq(D)
    BY <1>6, MapParts DEF KeysIn, Below, WithParts
  <2>2. "pair" \in Types \ {"map"} /\ "obj" \in Types \ {"map"} BY DEF Types
  <2>3. EachPair("pair", F, x.items) \in Seq(AllTrees) BY <2>1, <2>2, EachPairIs
  <2>4. Obj(EachPair("pair", F, x.items)) \in AllTrees BY <2>2, <2>3, OwnTrees DEF Obj
  <2> QED BY <1>6, <2>4, NormalJsonCases
<1>7. CASE x.t \notin {"bin", "arr", "map"} BY <1>0, <1>7, JsonTrees, NormalJsonCases
<1> QED BY <1>2, <1>3, <1>4, <1>5, <1>6, <1>7

LEMMA NormalJsonSame ==
  ASSUME NEW D, WithParts(D), NEW x \in D, NEW F, NEW G, \A y \in Below(D, x) : F[y] = G[y]
  PROVE  JsonOfNormalBy(F, x) = JsonOfNormalBy(G, x)
<1>1. CASE x.t = "arr" /\ Tag(x) \notin {"@dxtr:bytes", "@dxtr:datetime"}
  <2>1. Each(F, x.items) = Each(G, x.items) BY BelowParts, EachSame
  <2> QED BY <1>1, <2>1, NormalJsonCases
<1>2. CASE x.t = "map"
  <2>1. EachPair("pair", F, x.items) = EachPair("pair", G, x.items) BY <1>2, MapParts, EachPairSame
  <2> QED BY <1>2, <2>1, NormalJsonCases
<1>3. CASE x.t \notin {"arr", "map"} \/ Tag(x) \in {"@dxtr:bytes", "@dxtr:datetime"}
  BY <1>3, NormalJsonCases
<1> QED BY <1>1, <1>2, <1>3

\* JsonOfNormal as a function.
NormalJsonOf == [x \in WireTrees |-> JsonOfNormal(x)]

LEMMA JsonOfNormalUnfolds ==
  /\ \A x \in WireTrees : JsonOfNormal(x) \in AllTrees /\ NormalJsonOf[x] = JsonOfNormal(x)
  /\ \A x \in WireTrees : JsonOfNormal(x) = JsonOfNormalBy(NormalJsonOf, x)
<1> DEFINE D == WireTrees
           H == [F \in [D -> AllTrees] |-> [x \in D |-> JsonOfNormalBy(F, x)]]
           V == AllTrees
           f == CHOOSE g : g = [x \in D |-> JsonOfNormalBy(g, x)]
<1>1. WithParts(D) BY TreesAreClosed
<1>2. \A F \in [D -> AllTrees], x \in D : JsonOfNormalBy(F, x) \in AllTrees
  BY <1>1, NormalJsonIsTree DEF Below
<1>3. \A F, G, x : x \in D /\ (\A y \in Below(D, x) : F[y] = G[y]) => JsonOfNormalBy(F, x) = JsonOfNormalBy(G, x)
  BY <1>1, NormalJsonSame
<1>4. IsTreeBody(H, D, AllTrees) BY <1>2, <1>3 DEF IsTreeBody
<1>5. \A F \in [D -> AllTrees] : F = H[F] => F = [x \in D |-> JsonOfNormalBy(F, x)] OBVIOUS
<1>6. PICK F \in [D -> AllTrees] : F = [x \in D |-> JsonOfNormalBy(F, x)]
  <2>1. V # {} BY OwnTrees
  <2>2. IsTreeBody(H, D, V) BY <1>4
  <2> HIDE DEF H, V
  <2>3. \E F \in [D -> V] : F = H[F] BY <1>1, <2>1, <2>2, TreeFunction
  <2> QED BY <1>5, <2>3 DEF V
<1>7. f = [x \in D |-> JsonOfNormalBy(f, x)]
  <2>1. \E g : g = [x \in D |-> JsonOfNormalBy(g, x)] BY <1>6
  <2> QED BY <2>1
<1>8. \A x : JsonOfNormal(x) = f[x] BY DEF JsonOfNormal
<1> HIDE DEF f
<1>9. f = F
  <2>1. f = [x \in D |-> f[x]] /\ F = [x \in D |-> F[x]] BY <1>7
  <2>2. \A x \in D : (\A y \in Below(D, x) : f[y] = F[y]) => f[x] = F[x] BY <1>3, <1>6, <1>7
  <2> QED BY <1>1, <2>1, <2>2, OneFunction
<1>10. NormalJsonOf = f BY <1>7, <1>8 DEF NormalJsonOf
<1>11. \A x \in D : JsonOfNormal(x) = f[x] /\ f[x] \in AllTrees /\ f[x] = JsonOfNormalBy(f, x)
  BY <1>7, <1>8, <1>9
<1> QED BY <1>10, <1>11

LEMMA SpellsIsBoolean ==
  ASSUME NEW F, NEW x
  PROVE  SpellsTagBy(F, x) \in BOOLEAN
BY DEF SpellsTagBy

LEMMA SpellsSame ==
  ASSUME NEW D, WithParts(D), NEW x \in D, NEW F, NEW G, \A y \in Below(D, x) : F[y] = G[y]
  PROVE  SpellsTagBy(F, x) = SpellsTagBy(G, x)
<1>1. \A i \in DOMAIN x.items : F[x.items[i]] = G[x.items[i]] BY BelowParts, SeqParts
<1>2. SpellsTagBy(F, x) <=> SpellsTagBy(G, x) BY <1>1 DEF SpellsTagBy
<1> QED BY <1>2, SpellsIsBoolean

\* SpellsTag as a function.
SpellsOf == [x \in WireTrees |-> SpellsTag(x)]

LEMMA SpellsTagUnfolds ==
  /\ \A x \in WireTrees : SpellsTag(x) \in BOOLEAN /\ SpellsOf[x] = SpellsTag(x)
  /\ \A x \in WireTrees : SpellsTag(x) = SpellsTagBy(SpellsOf, x)
<1> DEFINE D == WireTrees
           H == [F \in [D -> BOOLEAN] |-> [x \in D |-> SpellsTagBy(F, x)]]
           V == BOOLEAN
           f == CHOOSE g : g = [x \in D |-> SpellsTagBy(g, x)]
<1>1. WithParts(D) BY TreesAreClosed
<1>2. \A F \in [D -> BOOLEAN], x \in D : SpellsTagBy(F, x) \in BOOLEAN
  BY <1>1, SpellsIsBoolean DEF Below
<1>3. \A F, G, x : x \in D /\ (\A y \in Below(D, x) : F[y] = G[y]) => SpellsTagBy(F, x) = SpellsTagBy(G, x)
  BY <1>1, SpellsSame
<1>4. IsTreeBody(H, D, BOOLEAN) BY <1>2, <1>3 DEF IsTreeBody
<1>5. \A F \in [D -> BOOLEAN] : F = H[F] => F = [x \in D |-> SpellsTagBy(F, x)] OBVIOUS
<1>6. PICK F \in [D -> BOOLEAN] : F = [x \in D |-> SpellsTagBy(F, x)]
  <2>1. V # {} OBVIOUS
  <2>2. IsTreeBody(H, D, V) BY <1>4
  <2> HIDE DEF H, V
  <2>3. \E F \in [D -> V] : F = H[F] BY <1>1, <2>1, <2>2, TreeFunction
  <2> QED BY <1>5, <2>3 DEF V
<1>7. f = [x \in D |-> SpellsTagBy(f, x)]
  <2>1. \E g : g = [x \in D |-> SpellsTagBy(g, x)] BY <1>6
  <2> QED BY <2>1
<1>8. \A x : SpellsTag(x) = f[x] BY DEF SpellsTag
<1> HIDE DEF f
<1>9. f = F
  <2>1. f = [x \in D |-> f[x]] /\ F = [x \in D |-> F[x]] BY <1>7
  <2>2. \A x \in D : (\A y \in Below(D, x) : f[y] = F[y]) => f[x] = F[x] BY <1>3, <1>6, <1>7
  <2> QED BY <1>1, <2>1, <2>2, OneFunction
<1>10. SpellsOf = f BY <1>7, <1>8 DEF SpellsOf
<1>11. \A x \in D : SpellsTag(x) = f[x] /\ f[x] \in BOOLEAN /\ f[x] = SpellsTagBy(f, x)
  BY <1>7, <1>8, <1>9
<1> QED BY <1>10, <1>11

\* A record without a tag in a list has none in its parts.
LEMMA SpellsMeans ==
  ASSUME NEW x \in WireTrees, ~SpellsTag(x)
  PROVE  /\ Tag(x) = "@dxtr:list" => Tag(Payload(x)) \notin {"@dxtr:bytes", "@dxtr:datetime"}
         /\ \A i \in DOMAIN x.items : x.items[i] \in WireTrees /\ ~SpellsTag(x.items[i])
<1>1. ~SpellsTagBy(SpellsOf, x) BY SpellsTagUnfolds
<1>2. \A i \in DOMAIN x.items : x.items[i] \in WireTrees BY TreesAreClosed, BelowParts
<1>3. \A i \in DOMAIN x.items : ~SpellsTag(x.items[i])
  <2> SUFFICES ASSUME NEW i \in DOMAIN x.items PROVE ~SpellsTag(x.items[i]) OBVIOUS
  <2>1. ~SpellsOf[x.items[i]] BY <1>1 DEF SpellsTagBy
  <2> QED BY <1>2, <2>1, SpellsTagUnfolds
<1> QED BY <1>1, <1>2, <1>3 DEF SpellsTagBy

LEMMA NormalizeLeaves ==
  ASSUME NEW x \in WireTrees
  PROVE  /\ x.t \notin {"map", "arr"} => Normalize(x) = x
         /\ Normalize(x).t = "str" => Normalize(x) = x
<1>1. Normalize(x) = NormalizeBy(NormalOf, x) BY NormalizeUnfolds
<1>2. \A t, items : Whole(t, items) = Invalid \/ Whole(t, items).t = t
  <2> SUFFICES ASSUME NEW t, NEW items, Whole(t, items) # Invalid PROVE Whole(t, items).t = t
    OBVIOUS
  <2>1. Whole(t, items) = Node(t, items) /\ Node(t, items).t = t BY NodeMeans DEF Whole
  <2> QED BY <2>1
<1>3. CASE x.t = "map" BY <1>1, <1>2, <1>3, NormalCases, InvalidHasType
<1>4. CASE Tag(x) = "@dxtr:map" BY <1>1, <1>2, <1>4, NormalCases, TagMeans, InvalidHasType
<1>5. CASE Tag(x) = "@dxtr:list" BY <1>1, <1>2, <1>5, NormalCases, TagMeans, InvalidHasType
<1>6. CASE x.t = "arr" /\ Tag(x) \notin {"@dxtr:map", "@dxtr:list"}
  BY <1>1, <1>2, <1>6, NormalCases, InvalidHasType
<1>7. CASE x.t \notin {"map", "arr"} BY <1>1, <1>7, NormalCases
<1> QED BY <1>3, <1>4, <1>5, <1>6, <1>7

LEMMA EachLength ==
  ASSUME NEW S, NEW ws \in Seq(S), NEW F, \A y \in S : F[y] \in AllTrees
  PROVE  Len(Each(F, ws)) = Len(ws)
<1> DEFINE f == Each(F, ws)
<1>1. DOMAIN f = DOMAIN ws BY DEF Each
<1>2. f \in Seq(AllTrees) BY EachIs
<1> HIDE DEF f
<1>3. Len(f) \in Nat /\ Len(ws) \in Nat /\ 1..Len(f) = 1..Len(ws) BY <1>1, <1>2, SeqParts
<1> QED BY <1>3 DEF f

\* Normalising the items of an array makes no tag of what was none.
LEMMA NoNewTag ==
  ASSUME NEW x, x.t = "arr", x.items \in Seq(WireTrees),
         NEW ns, ns = Each(NormalOf, x.items), Tag(Arr(ns)) # "none"
  PROVE  Tag(Arr(ns)) = Tag(x)
<1>1. /\ DOMAIN ns = DOMAIN x.items /\ Len(ns) = Len(x.items)
      /\ \A i \in DOMAIN x.items : ns[i] = NormalOf[x.items[i]]
  <2>1. \A y \in WireTrees : NormalOf[y] \in AllTrees BY NormalizeUnfolds
  <2> DEFINE ws == x.items
  <2>2. ws \in Seq(WireTrees) OBVIOUS
  <2> HIDE DEF ws
  <2>3. Each(NormalOf, ws) \in Seq(AllTrees) BY <2>1, <2>2, EachIs
  <2>4. Len(Each(NormalOf, ws)) = Len(ws) BY <2>1, <2>2, EachLength
  <2> QED BY <2>4 DEF Each, ws
<1>2. Arr(ns).items = ns BY NodeMeans
<1>3. Len(ns) = 2 /\ ns[1].t = "str" /\ Tag(Arr(ns)) = ns[1].s BY <1>2, TagMeans DEF IsTagged
<1>4. 1 \in DOMAIN x.items
  <2>1. DOMAIN x.items = 1..Len(x.items) BY SeqParts
  <2> QED BY <1>1, <1>3, <2>1
<1>5. x.items[1] \in WireTrees BY <1>4, SeqParts
<1>6. ns[1] = Normalize(x.items[1]) BY <1>1, <1>4, <1>5, NormalizeUnfolds
<1>7. ns[1] = x.items[1] BY <1>3, <1>5, <1>6, NormalizeLeaves
<1> QED BY <1>1, <1>3, <1>7 DEF Tag, IsTagged

Agree(x) ==
  Shown(x) # Invalid =>
    /\ Normalize(x) # Invalid
    /\ ~SpellsTag(x) => JsonOfNormal(Normalize(x)) = Shown(x)

\* An array whose items agree.
LEMMA ItemsAgree ==
  ASSUME NEW ws \in Seq(WireTrees), \A i \in DOMAIN ws : Agree(ws[i]),
         Whole("arr", Each(ShownOf, ws)) # Invalid,
         NEW ns, ns = Each(NormalOf, ws)
  PROVE  /\ Whole("arr", ns) = Arr(ns) /\ Arr(ns) # Invalid
         /\ Arr(ns) \in WireTrees /\ Tag(Arr(ns)) \notin {"@dxtr:bytes", "@dxtr:datetime"}
              /\ (\A i \in DOMAIN ws : ~SpellsTag(ws[i]))
            => JsonOfNormal(Arr(ns)) = Whole("arr", Each(ShownOf, ws))
<1> DEFINE sh == Each(ShownOf, ws)
           js == Each(NormalJsonOf, ns)
<1>1. /\ sh = [i \in DOMAIN ws |-> ShownOf[ws[i]]]
      /\ ns = [i \in DOMAIN ws |-> NormalOf[ws[i]]]
      /\ js = [i \in DOMAIN ns |-> NormalJsonOf[ns[i]]]
  BY DEF Each
<1>2. Whole("arr", sh) # Invalid OBVIOUS
<1>3. ASSUME Arr(ns) \in WireTrees, Tag(Arr(ns)) \notin {"@dxtr:bytes", "@dxtr:datetime"}
      PROVE  JsonOfNormal(Arr(ns)) = Arr(js)
  <2>1. Arr(ns).t = "arr" /\ Arr(ns).items = ns BY NodeMeans
  <2> QED BY <1>3, <2>1, JsonOfNormalUnfolds, NormalJsonCases
<1> HIDE DEF sh, js
<1>4. Whole("arr", sh) = Arr(sh) /\ \A i \in DOMAIN ws : sh[i] # Invalid
  BY <1>1, <1>2 DEF Whole, Arr
<1>5. ASSUME NEW i \in DOMAIN ws
      PROVE  /\ ns[i] # Invalid /\ ns[i] \in WireTrees
             /\ ~SpellsTag(ws[i]) => NormalJsonOf[ns[i]] = sh[i]
  <2>1. ws[i] \in WireTrees BY SeqParts
  <2>2. sh[i] = Shown(ws[i]) /\ ns[i] = Normalize(ws[i])
    BY <1>1, <2>1, ShownUnfolds, NormalizeUnfolds
  <2>3. ns[i] \in WireTrees BY <2>1, <2>2, NormalizeInWire
  <2>4. NormalJsonOf[ns[i]] = JsonOfNormal(ns[i]) BY <2>3, JsonOfNormalUnfolds
  <2> QED BY <1>4, <2>2, <2>3, <2>4 DEF Agree
<1>6. Whole("arr", ns) = Arr(ns) BY <1>1, <1>5 DEF Whole, Arr
<1>7. Arr(ns) # Invalid BY NodeMeans, InvalidHasType
<1>8. ASSUME \A i \in DOMAIN ws : ~SpellsTag(ws[i]) PROVE js = sh
  BY <1>1, <1>5, <1>8
<1> QED BY <1>3, <1>4, <1>6, <1>7, <1>8 DEF sh

\* Pairs of string keys, whose values agree.
LEMMA PairsAgree ==
  ASSUME NEW ps,
         \A i \in DOMAIN ps : /\ ps[i].items[1] \in AllTrees /\ ps[i].items[2] \in WireTrees
                              /\ Agree(ps[i].items[2]),
         ObjectOf(ShownOf, ps) # Invalid,
         NEW s, s = [i \in DOMAIN ps |-> s[i]],
         \A i \in DOMAIN ps : s[i] = Whole("pair", <<ps[i].items[1], NormalOf[ps[i].items[2]]>>)
  PROVE  /\ Whole("map", s) = Node("map", s) /\ Node("map", s) # Invalid
         /\ Node("map", s) \in WireTrees /\ (\A i \in DOMAIN ps : ~SpellsTag(ps[i].items[2]))
            => JsonOfNormal(Node("map", s)) = ObjectOf(ShownOf, ps)
<1> DEFINE sh == EachPair("pair", ShownOf, ps)
           js == EachPair("pair", NormalJsonOf, s)
<1>0. DOMAIN s = DOMAIN ps OBVIOUS
<1>1. /\ sh = [i \in DOMAIN ps |-> Whole("pair", <<ps[i].items[1], ShownOf[ps[i].items[2]]>>)]
      /\ js = [i \in DOMAIN s |-> Whole("pair", <<s[i].items[1], NormalJsonOf[s[i].items[2]]>>)]
  BY DEF EachPair
<1>2. /\ \A i \in DOMAIN ps : ps[i].items[1].t = "str"
      /\ ObjectOf(ShownOf, ps) = Whole("obj", sh)
  BY DEF ObjectOf
<1>3. ASSUME Node("map", s) \in WireTrees PROVE JsonOfNormal(Node("map", s)) = Obj(js)
  <2>1. Node("map", s).t = "map" /\ Node("map", s).items = s BY NodeMeans
  <2> QED BY <1>3, <2>1, JsonOfNormalUnfolds, NormalJsonCases
<1> HIDE DEF sh, js
<1>4. Whole("obj", sh) = Obj(sh) /\ \A i \in DOMAIN ps : sh[i] # Invalid
  BY <1>1, <1>2 DEF Whole, Obj
<1>5. ASSUME NEW i \in DOMAIN ps
      PROVE  /\ s[i] # Invalid
             /\ ~SpellsTag(ps[i].items[2]) =>
                  Whole("pair", <<s[i].items[1], NormalJsonOf[s[i].items[2]]>>) = sh[i]
  <2> DEFINE k == ps[i].items[1]
             v == ps[i].items[2]
  <2>1. k \in AllTrees /\ v \in WireTrees /\ Agree(v) /\ k.t = "str" BY <1>2
  <2>2. s[i] = Whole("pair", <<k, NormalOf[v]>>) OBVIOUS
  <2>3. sh[i] = Whole("pair", <<k, ShownOf[v]>>) /\ sh[i] # Invalid BY <1>1, <1>4
  <2> HIDE DEF k, v
  <2>4. k # Invalid BY <2>1, InvalidHasType
  <2>5. ShownOf[v] = Shown(v) /\ NormalOf[v] = Normalize(v) /\ Shown(v) \in AllTrees
    BY <2>1, ShownUnfolds, NormalizeUnfolds
  <2>6. Normalize(v) \in WireTrees /\ Normalize(v) \in AllTrees
    BY <2>1, NormalizeInWire, NormalizeUnfolds
  <2>7. Shown(v) # Invalid
    <3>1. "pair" \in Types \ {"map"} BY DEF Types
    <3> QED BY <2>1, <2>3, <2>5, <3>1, WholeTwo
  <2>8. Normalize(v) # Invalid BY <2>1, <2>7 DEF Agree
  <2> DEFINE n == Normalize(v)
  <2>9. s[i] = Pair(k, n) /\ Pair(k, n) # Invalid /\ Pair(k, n).items = <<k, n>>
    BY <2>1, <2>2, <2>4, <2>5, <2>6, <2>8, PairIsWhole
  <2>10. s[i].items[1] = k /\ s[i].items[2] = n
    <3> DEFINE two == <<k, n>>
    <3>1. two[1] = k /\ two[2] = n OBVIOUS
    <3>2. s[i].items = two BY <2>9
    <3> HIDE DEF two
    <3> QED BY <3>1, <3>2
  <2>11. NormalJsonOf[n] = JsonOfNormal(n) BY <2>6, JsonOfNormalUnfolds
  <2>12. ~SpellsTag(v) => JsonOfNormal(n) = Shown(v) BY <2>1, <2>7 DEF Agree
  <2> HIDE DEF n
  <2>13. ASSUME ~SpellsTag(v) PROVE Whole("pair", <<s[i].items[1], NormalJsonOf[s[i].items[2]]>>) = sh[i]
    <3>1. NormalJsonOf[s[i].items[2]] = ShownOf[v] BY <2>5, <2>10, <2>11, <2>12, <2>13
    <3> QED BY <2>3, <2>10, <3>1
  <2> QED BY <2>9, <2>13 DEF v
<1>6. Whole("map", s) = Node("map", s) BY <1>0, <1>5 DEF Whole
<1>7. Node("map", s) # Invalid
  <2>1. Node("map", s).t = "map" BY NodeMeans
  <2> QED BY <2>1, InvalidHasType
<1>8. ASSUME \A i \in DOMAIN ps : ~SpellsTag(ps[i].items[2]) PROVE js = sh
  BY <1>0, <1>1, <1>5, <1>8
<1> QED BY <1>2, <1>3, <1>4, <1>6, <1>7, <1>8

LEMMA RecordsAgree == \A x \in WireTrees : Agree(x)
<1> DEFINE D == WireTrees
           P == {x \in D : Agree(x)}
<1>0. WithParts(D) BY TreesAreClosed
<1>1. ASSUME NEW x \in D, Below(D, x) \subseteq P PROVE x \in P
  <2> SUFFICES ASSUME Shown(x) # Invalid
               PROVE  /\ Normalize(x) # Invalid
                      /\ ~SpellsTag(x) => JsonOfNormal(Normalize(x)) = Shown(x)
    BY DEF Agree
  <2> DEFINE p == Payload(x)
             n == Normalize(x)
  <2>0. \A y \in Below(D, x) : y \in D /\ Agree(y) BY <1>1 DEF Below
  <2>1. /\ Shown(x) = ShownBy(ShownOf, x) /\ n = NormalizeBy(NormalOf, x)
        /\ n \in D /\ JsonOfNormal(n) = JsonOfNormalBy(NormalJsonOf, n)
    BY ShownUnfolds, NormalizeUnfolds, NormalizeInWire, JsonOfNormalUnfolds
  <2>2. ~SpellsTag(x) =>
          /\ Tag(x) = "@dxtr:list" => Tag(p) \notin {"@dxtr:bytes", "@dxtr:datetime"}
          /\ \A i \in DOMAIN x.items : x.items[i] \in D /\ ~SpellsTag(x.items[i])
    BY SpellsMeans
  <2>3. IsTagged(x) =>
          /\ p \in D /\ p \in Below(D, x) /\ p.items \in Seq(Below(D, x)) /\ p.items \in Seq(D)
          /\ DOMAIN x.items = {1, 2} /\ p = x.items[2]
    BY <1>0, TaggedParts DEF Payload
  <2> HIDE DEF p, n
  <2>4. CASE x.t \in Scalars \cup {"bin"}
    <3>1. x.t \notin {"map", "arr"} BY <2>4, ScalarsAreNoParts
    <3>2. n = x BY <2>1, <3>1, NormalCases
    <3>3. x # Invalid BY <2>4, InvalidHasType, ScalarsAreNoParts
    <3>4. JsonOfNormalBy(NormalJsonOf, x) = ShownBy(ShownOf, x)
      BY <2>4, <3>1, ShownCases, NormalJsonCases, ScalarsAreNoParts
    <3> QED BY <2>1, <3>2, <3>3, <3>4 DEF n
  <2>5. CASE x.t = "map"
    <3> DEFINE ps == x.items
               s == NormalPairs(NormalOf, ps)
    <3>1. /\ \A i \in DOMAIN ps : ps[i].items[1] \in Below(D, x) /\ ps[i].items[2] \in Below(D, x)
          /\ \A i \in DOMAIN ps : DOMAIN ps[i].items = {1, 2}
      BY <1>0, <2>5, MapParts DEF KeysIn, ValuesIn
    <3>2. ObjectOf(ShownOf, ps) = Shown(x) BY <2>1, <2>5, ShownCases
    <3>3. \A i \in DOMAIN ps : ps[i].items[1].t = "str" BY <3>2 DEF ObjectOf
    <3>4. \A y \in D : NormalOf[y] \in AllTrees /\ NormalOf[y] = Normalize(y) BY NormalizeUnfolds
    <3>5. /\ DOMAIN s = DOMAIN ps
          /\ \A i \in DOMAIN ps : s[i] = Whole("pair", <<NormalOf[ps[i].items[1]], NormalOf[ps[i].items[2]]>>)
      BY <1>0, <2>0, <2>5, <3>4, NormalPairsAre
    <3>6. \A i \in DOMAIN ps : s[i] = Whole("pair", <<ps[i].items[1], NormalOf[ps[i].items[2]]>>)
      <4> SUFFICES ASSUME NEW i \in DOMAIN ps
                   PROVE  NormalOf[ps[i].items[1]] = ps[i].items[1]
        BY <3>5
      <4>1. ps[i].items[1] \in D /\ ps[i].items[1].t = "str" BY <2>0, <3>1, <3>3
      <4> QED BY <3>4, <4>1, NormalizeLeaves
    <3>7. s = [i \in DOMAIN ps |-> s[i]] BY DEF NormalPairs
    <3>8. n = Whole("map", s) BY <2>1, <2>5, NormalCases
    <3>9. \A i \in DOMAIN ps : /\ ps[i].items[1] \in AllTrees /\ ps[i].items[2] \in WireTrees
                               /\ Agree(ps[i].items[2])
      BY <1>0, <2>0, <3>1 DEF WithParts
    <3>10. ~SpellsTag(x) => \A i \in DOMAIN ps : ~SpellsTag(ps[i].items[2])
      <4> SUFFICES ASSUME ~SpellsTag(x), NEW i \in DOMAIN ps PROVE ~SpellsTag(ps[i].items[2])
        OBVIOUS
      <4>1. ps[i] \in WireTrees /\ ~SpellsTag(ps[i]) BY <2>2
      <4> QED BY <3>1, <4>1, SpellsMeans
    <3> HIDE DEF ps, s
    <3>11. /\ Whole("map", s) = Node("map", s) /\ Node("map", s) # Invalid
           /\ Node("map", s) \in WireTrees /\ (\A i \in DOMAIN ps : ~SpellsTag(ps[i].items[2]))
              => JsonOfNormal(Node("map", s)) = ObjectOf(ShownOf, ps)
      BY <3>2, <3>6, <3>7, <3>9, PairsAgree
    <3> QED BY <2>1, <3>2, <3>8, <3>10, <3>11 DEF n
  <2>6. CASE Tag(x) = "@dxtr:map"
    <3> DEFINE ps == p.items
               s == EachPair("pair", NormalOf, ps)
    <3>1. IsTagged(x) /\ Entries(p) /\ ObjectOf(ShownOf, ps) = Shown(x)
      BY <2>1, <2>6, TagMeans, ShownCases DEF p
    <3>2. /\ \A i \in DOMAIN ps : ps[i].items[1] \in AllTrees /\ ps[i].items[2] \in Below(D, x)
          /\ \A i \in DOMAIN ps : DOMAIN ps[i].items = {1, 2}
      <4>1. KeysIn(ps, AllTrees) /\ ValuesIn(ps, Below(D, x))
        BY <1>0, <3>1, TaggedMapParts DEF p
      <4>2. \A i \in DOMAIN ps : DOMAIN ps[i].items = {1, 2} BY <1>0, <2>3, <3>1, EntryParts
      <4> QED BY <4>1, <4>2 DEF KeysIn, ValuesIn
    <3>3. s = [i \in DOMAIN ps |-> s[i]]
          /\ \A i \in DOMAIN ps : s[i] = Whole("pair", <<ps[i].items[1], NormalOf[ps[i].items[2]]>>)
      BY DEF EachPair
    <3>4. n = Whole("map", s) BY <2>1, <2>6, <3>1, NormalCases DEF p
    <3>5. \A i \in DOMAIN ps : /\ ps[i].items[1] \in AllTrees /\ ps[i].items[2] \in WireTrees
                               /\ Agree(ps[i].items[2])
      BY <2>0, <3>2
    <3>6. ~SpellsTag(x) => \A i \in DOMAIN ps : ~SpellsTag(ps[i].items[2])
      <4> SUFFICES ASSUME ~SpellsTag(x), NEW i \in DOMAIN ps PROVE ~SpellsTag(ps[i].items[2])
        OBVIOUS
      <4>1. p \in WireTrees /\ ~SpellsTag(p) BY <2>2, <2>3, <3>1
      <4>2. ps[i] \in WireTrees /\ ~SpellsTag(ps[i]) BY <4>1, SpellsMeans
      <4> QED BY <3>2, <4>2, SpellsMeans
    <3> HIDE DEF ps, s
    <3>7. /\ Whole("map", s) = Node("map", s) /\ Node("map", s) # Invalid
          /\ Node("map", s) \in WireTrees /\ (\A i \in DOMAIN ps : ~SpellsTag(ps[i].items[2]))
             => JsonOfNormal(Node("map", s)) = ObjectOf(ShownOf, ps)
      BY <3>1, <3>3, <3>5, PairsAgree
    <3> QED BY <2>1, <3>1, <3>4, <3>6, <3>7 DEF n
  <2>7. CASE Tag(x) = "@dxtr:list"
    <3> DEFINE ns == Each(NormalOf, p.items)
    <3>1. IsTagged(x) /\ p.t = "arr" /\ Whole("arr", Each(ShownOf, p.items)) = Shown(x)
      BY <2>1, <2>7, TagMeans, ShownCases DEF p
    <3>2. n = Whole("arr", ns) BY <2>1, <2>7, <3>1, NormalCases DEF p
    <3>3. \A i \in DOMAIN p.items : Agree(p.items[i]) BY <2>0, <2>3, <3>1, SeqParts
    <3>4. ~SpellsTag(x) => /\ \A i \in DOMAIN p.items : ~SpellsTag(p.items[i])
                           /\ Tag(Arr(ns)) \notin {"@dxtr:bytes", "@dxtr:datetime"}
      <4> SUFFICES ASSUME ~SpellsTag(x)
                   PROVE  /\ \A i \in DOMAIN p.items : ~SpellsTag(p.items[i])
                          /\ Tag(Arr(ns)) \notin {"@dxtr:bytes", "@dxtr:datetime"}
        OBVIOUS
      <4>1. p \in WireTrees /\ ~SpellsTag(p) /\ Tag(p) \notin {"@dxtr:bytes", "@dxtr:datetime"}
        BY <2>2, <2>3, <2>7, <3>1
      <4>2. p.items \in Seq(WireTrees) BY <2>3, <3>1
      <4>3. Tag(Arr(ns)) # "none" => Tag(Arr(ns)) = Tag(p) BY <3>1, <4>2, NoNewTag
      <4> QED BY <4>1, <4>3, SpellsMeans
    <3>5. p.items \in Seq(WireTrees) BY <2>3, <3>1
    <3>6. Whole("arr", Each(ShownOf, p.items)) # Invalid BY <3>1
    <3>7. /\ Whole("arr", ns) = Arr(ns) /\ Arr(ns) # Invalid
          /\ Arr(ns) \in WireTrees /\ Tag(Arr(ns)) \notin {"@dxtr:bytes", "@dxtr:datetime"}
               /\ (\A i \in DOMAIN p.items : ~SpellsTag(p.items[i]))
             => JsonOfNormal(Arr(ns)) = Whole("arr", Each(ShownOf, p.items))
      BY <3>3, <3>5, <3>6, ItemsAgree
    <3> HIDE DEF ns
    <3> QED BY <2>1, <3>1, <3>2, <3>4, <3>7 DEF n
  <2>8. CASE Tag(x) \in {"@dxtr:bytes", "@dxtr:datetime"}
    <3> DEFINE k == x.items[1]
               ns == Each(NormalOf, x.items)
    <3>1. /\ IsTagged(x) /\ x.t = "arr" /\ k.t = "str" /\ k.s = Tag(x) /\ Len(x.items) = 2
          /\ x.items \in Seq(D) /\ p = x.items[2] /\ k \in D /\ p \in D
      <4>1. IsTagged(x) /\ x.t = "arr" /\ k.s = Tag(x) BY <2>8, TagMeans
      <4>2. k \in D /\ x.items \in Seq(D) BY <1>0, <4>1, TaggedParts DEF WithParts
      <4> QED BY <2>3, <4>1, <4>2 DEF IsTagged
    <3>2. \A y \in D : NormalOf[y] \in AllTrees /\ NormalOf[y] = Normalize(y) BY NormalizeUnfolds
    <3>3. ns = <<NormalOf[k], NormalOf[p]>>
      <4>1. ns = <<NormalOf[x.items[1]], NormalOf[x.items[2]]>> BY <3>1, <3>2, EachTwo
      <4> QED BY <3>1, <4>1
    <3>4. n = Whole("arr", ns) BY <2>1, <2>8, <3>1, NormalCases
    <3>5. NormalOf[k] = k BY <3>1, <3>2, NormalizeLeaves
    <3> DEFINE q == NormalOf[p]
    <3>6. ASSUME q # Invalid
          PROVE  n # Invalid /\ Tag(n) = Tag(x) /\ Payload(n) = q
      <4>1. k # Invalid BY <3>1, InvalidHasType
      <4> DEFINE two == <<k, q>>
      <4>2. two = ns /\ Len(two) = 2 /\ two[1] = k /\ two[2] = q /\ DOMAIN two = {1, 2} BY <3>3, <3>5
      <4> HIDE DEF two, ns, k, q
      <4>3. n = Arr(two) BY <3>4, <3>6, <4>1, <4>2 DEF Whole, Arr
      <4>4. n.t = "arr" /\ n.items = two BY <4>3, NodeMeans
      <4>5. n # Invalid BY <4>4, InvalidHasType
      <4> QED BY <3>1, <4>2, <4>4, <4>5 DEF Tag, IsTagged, Payload
    <3>7. CASE Tag(x) = "@dxtr:datetime"
      <4>1. p.t = "int" /\ Shown(x) = DateJson(p.s) BY <2>1, <3>7, ShownCases DEF p
      <4>2. q = p BY <3>1, <3>2, <4>1, NormalizeLeaves
      <4>3. q # Invalid BY <4>1, <4>2, InvalidHasType
      <4>4. JsonOfNormal(n) = DateJson(p.s) BY <2>1, <3>6, <3>7, <4>2, <4>3, NormalJsonCases
      <4> QED BY <3>6, <4>1, <4>3, <4>4 DEF n
    <3>8. CASE Tag(x) = "@dxtr:bytes"
      <4>1. (p.t = "bin" \/ ByteArray(p)) /\ Shown(x) = BytesJson(p.items)
        BY <2>1, <3>8, ShownCases DEF p
      <4>2. q # Invalid /\ q.items = p.items
        <5>1. CASE p.t = "bin" BY <3>1, <3>2, <5>1, NormalizeLeaves, InvalidHasType
        <5>2. CASE ByteArray(p)
          <6> DEFINE ms == Each(NormalOf, p.items)
          <6>1. p.t = "arr" /\ \A i \in DOMAIN p.items : p.items[i].t = "int"
            BY <5>2 DEF ByteArray, IntArray
          <6>2. p.items \in Seq(D) BY <2>3, <3>1
          <6>3. Tag(p) \notin {"@dxtr:map", "@dxtr:list"}
            <7> SUFFICES ASSUME Tag(p) # "none" PROVE FALSE OBVIOUS
            <7>1. IsTagged(p) BY TagMeans
            <7>2. 1 \in DOMAIN p.items /\ p.items[1].t = "str" BY <1>0, <3>1, <7>1, TaggedParts
            <7> QED BY <6>1, <7>2
          <6>4. q = Whole("arr", ms)
            <7>1. q = NormalizeBy(NormalOf, p) BY <3>1, NormalizeUnfolds
            <7> QED BY <6>1, <6>3, <7>1, NormalCases
          <6>5. \A i \in DOMAIN p.items : NormalOf[p.items[i]] = p.items[i]
            BY <3>2, <6>1, <6>2, SeqParts, NormalizeLeaves
          <6>6. ms = p.items
            <7>1. p.items = [i \in DOMAIN p.items |-> p.items[i]] BY <6>2, SeqParts, LenProperties
            <7> QED BY <6>5, <7>1 DEF Each
          <6>7. \A i \in DOMAIN p.items : p.items[i] # Invalid BY <6>1, InvalidHasType
          <6>8. Whole("arr", p.items) = Arr(p.items) BY <6>7 DEF Whole, Arr
          <6>9. q = Arr(p.items) BY <6>4, <6>6, <6>8
          <6> QED BY <6>9, NodeMeans, InvalidHasType
        <5> QED BY <4>1, <5>1, <5>2
      <4>3. JsonOfNormal(n) = BytesJson(p.items) BY <2>1, <3>6, <3>8, <4>2, NormalJsonCases
      <4> QED BY <3>6, <4>1, <4>2, <4>3 DEF n
    <3> QED BY <2>8, <3>7, <3>8
  <2>9. CASE x.t = "arr" /\ Tag(x) \notin {"@dxtr:map", "@dxtr:list", "@dxtr:bytes", "@dxtr:datetime"}
    <3> DEFINE ns == Each(NormalOf, x.items)
    <3>1. Whole("arr", Each(ShownOf, x.items)) = Shown(x) /\ n = Whole("arr", ns)
      BY <2>1, <2>9, ShownCases, NormalCases
    <3>2. x.items \in Seq(Below(D, x)) /\ x.items \in Seq(WireTrees)
      BY <1>0, BelowParts DEF WithParts
    <3>3. \A i \in DOMAIN x.items : Agree(x.items[i]) BY <2>0, <3>2, SeqParts
    <3>4. Tag(Arr(ns)) \notin {"@dxtr:bytes", "@dxtr:datetime"}
      <4>1. Tag(Arr(ns)) # "none" => Tag(Arr(ns)) = Tag(x) BY <2>9, <3>2, NoNewTag
      <4> QED BY <2>9, <4>1
    <3>5. Whole("arr", Each(ShownOf, x.items)) # Invalid BY <3>1
    <3>6. /\ Whole("arr", ns) = Arr(ns) /\ Arr(ns) # Invalid
          /\ Arr(ns) \in WireTrees /\ Tag(Arr(ns)) \notin {"@dxtr:bytes", "@dxtr:datetime"}
               /\ (\A i \in DOMAIN x.items : ~SpellsTag(x.items[i]))
             => JsonOfNormal(Arr(ns)) = Whole("arr", Each(ShownOf, x.items))
      BY <3>2, <3>3, <3>5, ItemsAgree
    <3> HIDE DEF ns
    <3> QED BY <2>1, <2>2, <3>1, <3>4, <3>6 DEF n
  <2>10. CASE x.t \notin Scalars \cup {"bin", "map", "arr"} BY <2>1, <2>10, ShownCases
  <2> QED BY <2>4, <2>5, <2>6, <2>7, <2>8, <2>9, <2>10
<1>2. D \subseteq P
  <2> HIDE DEF P
  <2> QED BY <1>0, <1>1, HeightInduction
<1> QED BY <1>2

\* On every record, foreign ones included, a query compares what the inspector
\* shows, unless a list spells the tag of a date or of bytes; a record that a
\* query cannot decode the inspector cannot show.
THEOREM CodecReadersAgree == CodecSpec => []ReadersAgree
<1>1. CodecInv => ReadersAgree
  <2> SUFFICES ASSUME CodecInv, reader = "inspector", seen # Invalid
               PROVE  /\ Normalize(stored) # Invalid
                      /\ ~SpellsTag(stored) => JsonOfNormal(Normalize(stored)) = seen
    BY DEF ReadersAgree
  <2>1. seen = Shown(stored) /\ Agree(stored) BY RecordsAgree DEF CodecInv
  <2> QED BY <2>1 DEF Agree
<1> QED BY <1>1, CodecInvHolds, PTL

-----------------------------------------------------------------------------
(* A query finds the very field that a Dart client stored.                 *)

LEMMA AllAreClosed == WithParts(AllTrees)
BY AllMeans DEF WithParts, IsTree

LEMMA FieldIsTree ==
  ASSUME NEW map \in AllTrees, NEW key
  PROVE  Field(map, key) \in AllTrees
<1> DEFINE at == {i \in DOMAIN map.items : map.items[i].items[1] = Str(key)}
           first == CHOOSE i \in at : \A j \in at : i <= j
<1>1. CASE map.t # "map" \/ at = {} BY <1>1, OwnTrees DEF Field
<1>2. CASE map.t = "map" /\ at # {}
  <2>1. DOMAIN map.items = 1..Len(map.items) /\ Len(map.items) \in Nat
    BY AllMeans, SeqParts DEF IsTree
  <2>2. at \subseteq Nat BY <2>1
  <2> HIDE DEF at
  <2>3. \E i \in at : \A j \in at : <<j, i>> \notin OpToRel(<, Nat)
    BY <1>2, <2>2, NatLessThanWellFounded, WFMin
  <2>4. \E i \in at : \A j \in at : i <= j
    <3>1. PICK i \in at : \A j \in at : <<j, i>> \notin OpToRel(<, Nat) BY <2>3
    <3>2. \A j \in at : j \in Nat /\ i \in Nat /\ ~(j < i) BY <2>2, <3>1 DEF OpToRel
    <3>3. \A j \in at : i <= j BY <3>2
    <3> QED BY <3>3
  <2>5. first \in at BY <2>4
  <2>6. first \in DOMAIN map.items BY <2>5 DEF at
  <2>7. map.items[first].items[2] \in AllTrees
    BY <1>2, <2>6, AllAreClosed, MapParts DEF ValuesIn, Below
  <2>8. Field(map, key) = map.items[first].items[2] BY <1>2 DEF Field, at
  <2> QED BY <2>7, <2>8
<1> QED BY <1>1, <1>2

LEMMA MemberIsTree ==
  ASSUME NEW v \in AllTrees, NEW name
  PROVE  DartMember(v, name) \in AllTrees
<1> DEFINE at == CHOOSE i \in DOMAIN v.items : v.items[i].items[1].s = name
<1>1. CASE v.t # "map" \/ \A i \in DOMAIN v.items : v.items[i].items[1].s # name
  BY <1>1, OwnTrees DEF DartMember
<1>2. CASE v.t = "map" /\ \E i \in DOMAIN v.items : v.items[i].items[1].s = name
  <2>1. at \in DOMAIN v.items BY <1>2
  <2>2. DartMember(v, name) = v.items[at].items[2] BY <1>2 DEF DartMember
  <2> HIDE DEF at
  <2>3. v.items[at].items[2] \in AllTrees
    BY <1>2, <2>1, AllAreClosed, MapParts DEF ValuesIn, Below
  <2> QED BY <2>2, <2>3
<1> QED BY <1>1, <1>2

\* A path is descended one step at a time.
LEMMA DescentExists ==
  ASSUME NEW n \in Nat, NEW start \in AllTrees, NEW step \in [1..n -> [AllTrees -> AllTrees]]
  PROVE  \E f \in [0..n -> AllTrees] :
           f = [i \in 0..n |-> IF i = 0 THEN start ELSE step[i][f[i - 1]]]
<1> DEFINE S == 0..n
           V == AllTrees
           H == [F \in [S -> V] |-> [i \in S |-> IF i = 0 THEN start ELSE step[i][F[i - 1]]]]
           Depth == [i \in S |-> i]
<1>1. Depth \in [S -> Nat] OBVIOUS
<1>2. ASSUME NEW F \in [S -> V], NEW i \in S
      PROVE  (IF i = 0 THEN start ELSE step[i][F[i - 1]]) \in V
  <2>1. CASE i = 0 BY <2>1
  <2>2. CASE i # 0
    <3>1. i - 1 \in S /\ i \in 1..n BY <2>2
    <3>2. F[i - 1] \in V BY <3>1
    <3> QED BY <2>2, <3>1, <3>2
  <2> QED BY <2>1, <2>2
<1>3. H \in [[S -> V] -> [S -> V]] BY <1>2
<1>4. ASSUME NEW F \in [S -> V], NEW G \in [S -> V], NEW i \in S, SameBelow(F, G, i, S, Depth)
      PROVE  H[F][i] = H[G][i]
  <2>1. CASE i = 0 BY <2>1
  <2>2. CASE i # 0
    <3>1. i - 1 \in S /\ Depth[i - 1] < Depth[i] BY <2>2
    <3>2. F[i - 1] = G[i - 1] BY <1>4, <3>1 DEF SameBelow
    <3> QED BY <2>2, <3>2
  <2> QED BY <2>1, <2>2
<1>5. IsBody(H, S, V, Depth) BY <1>3, <1>4 DEF IsBody
<1>6. \A F \in [S -> V] : F = H[F] => F = [i \in S |-> IF i = 0 THEN start ELSE step[i][F[i - 1]]]
  OBVIOUS
<1> HIDE DEF H, Depth
<1>7. \E F \in [S -> V] : F = H[F]
  <2> HIDE DEF S, V
  <2>1. start \in V BY DEF V
  <2> QED BY <1>1, <1>5, <2>1, DepthRecursion
<1> QED BY <1>6, <1>7

LEMMA LookupFieldUnfolds ==
  ASSUME NEW record \in AllTrees, NEW path \in Seq(Texts)
  PROVE  \E f : /\ LookupField(record, path) = f[Len(path)] /\ f[0] = record
                /\ \A n \in 1..Len(path) : f[n] = Field(f[n - 1], path[n])
<1> DEFINE N == Len(path)
           step == [n \in 1..N |-> [map \in AllTrees |-> Field(map, path[n])]]
           Body(g) == [n \in 0..N |-> IF n = 0 THEN record ELSE Field(g[n - 1], path[n])]
           f == CHOOSE g : g = Body(g)
<1>0. N \in Nat BY SeqParts
<1>1. step \in [1..N -> [AllTrees -> AllTrees]] BY FieldIsTree
<1>2. PICK g \in [0..N -> AllTrees] : g = [n \in 0..N |-> IF n = 0 THEN record ELSE step[n][g[n - 1]]]
  <2> HIDE DEF step, N
  <2> QED BY <1>0, <1>1, DescentExists
<1>3. g = Body(g)
  <2>1. ASSUME NEW n \in 0..N, n # 0 PROVE step[n][g[n - 1]] = Field(g[n - 1], path[n])
    <3>1. n - 1 \in 0..N /\ n \in 1..N BY <1>0, <2>1
    <3>2. g[n - 1] \in AllTrees BY <3>1
    <3> QED BY <3>1, <3>2
  <2> HIDE DEF step
  <2> QED BY <1>2, <2>1
<1>4. f = Body(f)
  <2> HIDE DEF Body
  <2> QED BY <1>3
<1>5. LookupField(record, path) = f[N] BY DEF LookupField
<1> HIDE DEF f
<1>6. f[0] = record BY <1>0, <1>4
<1>7. ASSUME NEW n \in 1..N PROVE f[n] = Field(f[n - 1], path[n])
  <2>1. n \in 0..N /\ n # 0 BY <1>0
  <2>2. Body(f)[n] = Field(f[n - 1], path[n]) BY <2>1
  <2> QED BY <1>4, <2>2
<1> QED BY <1>5, <1>6, <1>7

LEMMA DartFieldUnfolds ==
  ASSUME NEW v \in AllTrees, NEW path \in Seq(Texts)
  PROVE  \E f : /\ DartField(v, path) = f[Len(path)] /\ f[0] = v
                /\ \A n \in 1..Len(path) : f[n] = DartMember(f[n - 1], path[n])
<1> DEFINE N == Len(path)
           step == [n \in 1..N |-> [x \in AllTrees |-> DartMember(x, path[n])]]
           Body(g) == [n \in 0..N |-> IF n = 0 THEN v ELSE DartMember(g[n - 1], path[n])]
           f == CHOOSE g : g = Body(g)
<1>0. N \in Nat BY SeqParts
<1>1. step \in [1..N -> [AllTrees -> AllTrees]] BY MemberIsTree
<1>2. PICK g \in [0..N -> AllTrees] : g = [n \in 0..N |-> IF n = 0 THEN v ELSE step[n][g[n - 1]]]
  <2> HIDE DEF step, N
  <2> QED BY <1>0, <1>1, DescentExists
<1>3. g = Body(g)
  <2>1. ASSUME NEW n \in 0..N, n # 0 PROVE step[n][g[n - 1]] = DartMember(g[n - 1], path[n])
    <3>1. n - 1 \in 0..N /\ n \in 1..N BY <1>0, <2>1
    <3>2. g[n - 1] \in AllTrees BY <3>1
    <3> QED BY <3>1, <3>2
  <2> HIDE DEF step
  <2> QED BY <1>2, <2>1
<1>4. f = Body(f)
  <2> HIDE DEF Body
  <2> QED BY <1>3
<1>5. DartField(v, path) = f[N] BY DEF DartField
<1> HIDE DEF f
<1>6. f[0] = v BY <1>0, <1>4
<1>7. ASSUME NEW n \in 1..N PROVE f[n] = DartMember(f[n - 1], path[n])
  <2>1. n \in 0..N /\ n # 0 BY <1>0
  <2>2. Body(f)[n] = DartMember(f[n - 1], path[n]) BY <2>1
  <2> QED BY <1>4, <2>2
<1> QED BY <1>5, <1>6, <1>7

\* What a query finds in place of a part of a Dart value.
Normal(v) == IF v = Missing THEN Missing ELSE Normalize(ToWire(v))

LEMMA WholeMeans ==
  ASSUME NEW t, NEW items, Whole(t, items) # Invalid
  PROVE  Whole(t, items) = Node(t, items) /\ Whole(t, items).t = t /\ Whole(t, items).items = items
<1>1. Whole(t, items) = Node(t, items) BY DEF Whole
<1>2. Node(t, items).t = t /\ Node(t, items).items = items BY NodeMeans
<1> QED BY <1>1, <1>2

LEMMA NormalOfStored ==
  ASSUME NEW x \in Storable
  PROVE  /\ x # Missing /\ Normal(x) = Normalize(ToWire(x)) /\ Normal(x) \in AllTrees
         /\ Normal(x) # Invalid /\ Normal(x) # Missing
         /\ x.t \in Scalars => Normal(x) = x
         /\ x.t \in {"bytes", "datetime", "localtime"} => Normal(x).t = "arr"
         /\ x.t = "list" =>
              /\ Normal(x).t = "arr" /\ Len(Normal(x).items) = Len(x.items)
              /\ DOMAIN Normal(x).items = DOMAIN x.items
              /\ \A i \in DOMAIN x.items : Normal(x).items[i] = Normal(x.items[i])
         /\ x.t = "map" =>
              /\ Normal(x).t = "map" /\ DOMAIN Normal(x).items = DOMAIN x.items
              /\ \A i \in DOMAIN x.items :
                   /\ Normal(x).items[i].items[1] = x.items[i].items[1]
                   /\ Normal(x).items[i].items[2] = Normal(x.items[i].items[2])
<1> DEFINE w == ToWire(x)
           n == Normalize(w)
<1>1. w \in WireTrees /\ n = NormalizeBy(NormalOf, w) /\ n \in AllTrees
  BY StoredCases, NormalizeUnfolds
<1>2. n # Invalid
  <2>1. Shown(w) # Invalid BY ShownOfToWire
  <2>2. Agree(w) BY <1>1, RecordsAgree
  <2> QED BY <2>1, <2>2 DEF Agree
<1>0. \A y \in Storable : y # Missing
  <2> TAKE y \in Storable
  <2>1. y.t # "missing" BY StoredCases, ScalarsAreNoParts
  <2> QED BY <2>1, InvalidHasType
<1>3. x # Missing BY <1>0
<1>4. Normal(x) = n /\ Normal(x) = Normalize(ToWire(x)) BY <1>3 DEF Normal
<1> HIDE DEF n, w
<1>5. ASSUME x.t \in Scalars PROVE n = x
  <2>1. w = x /\ x.t \notin {"map", "arr"} BY <1>5, StoredCases, ScalarsAreNoParts DEF w
  <2> QED BY <1>1, <2>1, NormalCases
<1>6. ASSUME x.t \in {"bytes", "datetime", "localtime"} PROVE n.t = "arr"
  <2>1. w.t = "arr" /\ Tag(w) \notin {"@dxtr:map", "@dxtr:list"}
    <3>1. \E tag \in {"@dxtr:bytes", "@dxtr:datetime"} : \E p : w = Tagged(tag, p)
      BY <1>6, StoredCases DEF w
    <3>2. PICK tag \in {"@dxtr:bytes", "@dxtr:datetime"} : \E p : w = Tagged(tag, p) BY <3>1
    <3>3. PICK p : w = Tagged(tag, p) BY <3>2
    <3> QED BY <3>3, TaggedMeans
  <2>2. n = Whole("arr", Each(NormalOf, w.items)) BY <1>1, <2>1, NormalCases
  <2> QED BY <1>2, <2>2, WholeMeans
<1>7. ASSUME x.t = "list"
      PROVE  /\ n.t = "arr" /\ Len(n.items) = Len(x.items) /\ DOMAIN n.items = DOMAIN x.items
             /\ \A i \in DOMAIN x.items : n.items[i] = Normal(x.items[i])
  <2> DEFINE s == Each(WireOf, x.items)
             r == Each(NormalOf, s)
  <2>1. w = Tagged("@dxtr:list", Arr(s)) /\ DOMAIN s = DOMAIN x.items /\ x.items \in Seq(Storable)
        /\ \A i \in DOMAIN x.items : s[i] = ToWire(x.items[i])
    BY <1>7, StoredCases DEF w
  <2>2. DOMAIN r = DOMAIN s /\ r = [i \in DOMAIN r |-> r[i]]
        /\ \A i \in DOMAIN s : r[i] = NormalOf[s[i]]
    BY DEF Each
  <2> HIDE DEF s
  <2>3. Tag(w) = "@dxtr:list" /\ Payload(w) = Arr(s) /\ Arr(s).t = "arr" /\ Arr(s).items = s
    BY <2>1, TaggedMeans, NodeMeans
  <2>4. n = Whole("arr", r) BY <1>1, <2>3, NormalCases
  <2> HIDE DEF r
  <2>5. n.t = "arr" /\ n.items = r BY <1>2, <2>4, WholeMeans
  <2>6. \A i \in DOMAIN x.items : r[i] \in AllTrees
    BY <2>1, <2>2, SeqParts, StoredCases, NormalizeUnfolds
  <2>7. Len(r) = Len(x.items) BY <2>1, <2>2, <2>6, SeqOnPlaces
  <2>8. ASSUME NEW i \in DOMAIN x.items PROVE r[i] = Normal(x.items[i])
    <3>1. x.items[i] \in Storable BY <2>1, SeqParts
    <3>2. Normal(x.items[i]) = Normalize(ToWire(x.items[i])) BY <1>0, <3>1 DEF Normal
    <3>3. r[i] = NormalOf[ToWire(x.items[i])] BY <2>1, <2>2
    <3>4. ToWire(x.items[i]) \in WireTrees BY <3>1, StoredCases
    <3> QED BY <3>2, <3>3, <3>4, NormalizeUnfolds
  <2> QED BY <2>1, <2>2, <2>5, <2>7, <2>8
<1>8. ASSUME x.t = "map"
      PROVE  /\ n.t = "map" /\ DOMAIN n.items = DOMAIN x.items
             /\ \A i \in DOMAIN x.items : /\ n.items[i].items[1] = x.items[i].items[1]
                                          /\ n.items[i].items[2] = Normal(x.items[i].items[2])
  <2> DEFINE s == EachPair("arr", WireOf, x.items)
             r == EachPair("pair", NormalOf, s)
  <2>1. /\ w = Tagged("@dxtr:map", Arr(s))
        /\ \A i \in DOMAIN x.items : /\ x.items[i].items[1] \in AllTrees
                                     /\ x.items[i].items[1] # Invalid
                                     /\ x.items[i].items[2] \in Storable
    BY <1>8, StoredMap DEF w
  <2>2. /\ Entries(Arr(s)) /\ DOMAIN s = DOMAIN x.items /\ Arr(s).items = s
        /\ \A i \in DOMAIN s : /\ s[i].items[1] = x.items[i].items[1]
                               /\ s[i].items[2] = ToWire(x.items[i].items[2])
    BY <1>8, EntriesOfMap
  <2>3. DOMAIN r = DOMAIN s
        /\ \A i \in DOMAIN s : r[i] = Whole("pair", <<s[i].items[1], NormalOf[s[i].items[2]]>>)
    BY DEF EachPair
  <2> HIDE DEF s
  <2>4. Tag(w) = "@dxtr:map" /\ Payload(w) = Arr(s) BY <2>1, TaggedMeans
  <2>5. n = Whole("map", r) BY <1>1, <2>2, <2>4, NormalCases
  <2> HIDE DEF r
  <2>6. n.t = "map" /\ n.items = r BY <1>2, <2>5, WholeMeans
  <2>7. \A i \in DOMAIN r : r[i] # Invalid BY <1>2, <2>5 DEF Whole
  <2>8. ASSUME NEW i \in DOMAIN x.items
        PROVE  r[i].items[1] = x.items[i].items[1] /\ r[i].items[2] = Normal(x.items[i].items[2])
    <3> DEFINE k == x.items[i].items[1]
               v == x.items[i].items[2]
    <3>1. k \in AllTrees /\ k # Invalid /\ v \in Storable BY <2>1
    <3>2. r[i] = Whole("pair", <<k, NormalOf[ToWire(v)]>>) /\ r[i] # Invalid BY <2>2, <2>3, <2>7
    <3> HIDE DEF k, v
    <3>3. NormalOf[ToWire(v)] = Normalize(ToWire(v)) BY <3>1, StoredCases, NormalizeUnfolds
    <3>4. v # Missing
      <4>1. v.t # "missing" BY <3>1, StoredCases, ScalarsAreNoParts
      <4> QED BY <4>1, InvalidHasType
    <3>5. NormalOf[ToWire(v)] = Normal(v) BY <3>3, <3>4 DEF Normal
    <3> DEFINE two == <<k, Normal(v)>>
    <3>6. two[1] = k /\ two[2] = Normal(v) OBVIOUS
    <3>7. r[i] = Whole("pair", two) BY <3>2, <3>5
    <3> HIDE DEF two
    <3>8. r[i].items = two BY <3>2, <3>7, WholeMeans
    <3> QED BY <3>6, <3>8 DEF k, v
  <2> QED BY <2>2, <2>3, <2>6, <2>8
<1>9. n # Missing
  <2>1. CASE x.t \in Scalars BY <1>3, <1>5, <2>1
  <2>2. CASE x.t \notin Scalars
    <3>1. n.t \in {"arr", "map"} BY <1>6, <1>7, <1>8, <2>2, StoredCases
    <3> QED BY <3>1, InvalidHasType
  <2> QED BY <2>1, <2>2
<1> QED BY <1>1, <1>2, <1>3, <1>4, <1>5, <1>6, <1>7, <1>8, <1>9

\* One step of a path.
LEMMA FieldOfNormal ==
  ASSUME NEW x \in Storable \cup {Missing}, NEW name
  PROVE  /\ DartMember(x, name) \in Storable \cup {Missing}
         /\ Field(Normal(x), name) = Normal(DartMember(x, name))
<1>0. Normal(Missing) = Missing BY DEF Normal
<1>1. CASE x = Missing \/ x.t # "map"
  <2>1. x.t # "map" BY <1>1, InvalidHasType
  <2>2. DartMember(x, name) = Missing BY <2>1 DEF DartMember
  <2>3. Normal(x).t # "map"
    <3>1. CASE x = Missing BY <1>0, <3>1, InvalidHasType
    <3>2. CASE x \in Storable /\ x.t \in Scalars BY <2>1, <3>2, NormalOfStored
    <3>3. CASE x \in Storable /\ x.t \notin Scalars
      <4>1. x.t \in {"bytes", "datetime", "localtime", "list"} BY <2>1, <3>3, StoredCases
      <4> QED BY <3>3, <4>1, NormalOfStored
    <3> QED BY <3>1, <3>2, <3>3
  <2>4. Field(Normal(x), name) = Missing BY <2>3 DEF Field
  <2> QED BY <1>0, <2>2, <2>4
<1>2. CASE x \in Storable /\ x.t = "map"
  <2> DEFINE m == Normal(x)
             at == {i \in DOMAIN m.items : m.items[i].items[1] = Str(name)}
  <2>1. /\ m.t = "map" /\ DOMAIN m.items = DOMAIN x.items
        /\ \A i \in DOMAIN x.items :
             /\ m.items[i].items[1] = x.items[i].items[1]
             /\ m.items[i].items[2] = Normal(x.items[i].items[2])
    BY <1>2, NormalOfStored
  <2>2. /\ DartKeys(x.items) /\ x.items \in Seq(DartTrees)
        /\ \A i \in DOMAIN x.items : x.items[i].items[1].t = "str" /\ x.items[i].items[2] \in Storable
    BY <1>2, StoredMap
  <2> HIDE DEF m
  <2>3. ASSUME NEW i \in DOMAIN x.items
        PROVE  m.items[i].items[1] = Str(name) <=> x.items[i].items[1].s = name
    <3>1. m.items[i].items[1] = Leaf("str", x.items[i].items[1].s) BY <2>1, <2>2 DEF DartKeys
    <3>2. \A a, b : Leaf("str", a) = Leaf("str", b) => a = b BY DEF Leaf
    <3> QED BY <3>1, <3>2 DEF Str
  <2>4. CASE \A i \in DOMAIN x.items : x.items[i].items[1].s # name
    <3>1. at = {} BY <2>1, <2>3, <2>4
    <3>2. Field(m, name) = Missing BY <3>1 DEF Field
    <3>3. DartMember(x, name) = Missing BY <2>4 DEF DartMember
    <3> QED BY <1>0, <3>2, <3>3 DEF m
  <2>5. CASE \E i \in DOMAIN x.items : x.items[i].items[1].s = name
    <3>1. PICK i \in DOMAIN x.items : x.items[i].items[1].s = name BY <2>5
    <3>2. \A j \in DOMAIN x.items : x.items[j].items[1].s = name => j = i
      BY <2>2, <3>1 DEF DartKeys
    <3>3. at = {i} BY <2>1, <2>3, <3>1, <3>2
    <3>4. i \in Nat BY <2>2, SeqParts
    <3>5. Field(m, name) = m.items[i].items[2]
      <4> HIDE DEF at
      <4>1. (CHOOSE k \in at : \A j \in at : k <= j) = i BY <3>3, <3>4
      <4>2. at # {} BY <3>3
      <4> QED BY <2>1, <4>1, <4>2 DEF Field, at
    <3>6. (CHOOSE j \in DOMAIN x.items : x.items[j].items[1].s = name) = i BY <3>1, <3>2
    <3>7. DartMember(x, name) = x.items[i].items[2] BY <1>2, <2>5, <3>6 DEF DartMember
    <3> QED BY <2>1, <2>2, <3>5, <3>7 DEF m
  <2> QED BY <2>4, <2>5
<1> QED BY <1>1, <1>2

LEMMA LookupOfNormal ==
  ASSUME NEW x \in Storable, NEW path \in Seq(Texts)
  PROVE  /\ DartField(x, path) \in Storable \cup {Missing}
         /\ LookupField(Normal(x), path) = Normal(DartField(x, path))
<1>0. x \in AllTrees /\ Normal(x) \in AllTrees BY NormalOfStored, TreesAreClosed DEF Storable, WithParts
<1>1. PICK f : /\ LookupField(Normal(x), path) = f[Len(path)] /\ f[0] = Normal(x)
               /\ \A n \in 1..Len(path) : f[n] = Field(f[n - 1], path[n])
  BY <1>0, LookupFieldUnfolds
<1>2. PICK g : /\ DartField(x, path) = g[Len(path)] /\ g[0] = x
               /\ \A n \in 1..Len(path) : g[n] = DartMember(g[n - 1], path[n])
  BY <1>0, DartFieldUnfolds
<1> DEFINE P == {n \in Nat : n <= Len(path) => g[n] \in Storable \cup {Missing} /\ f[n] = Normal(g[n])}
<1>3. Len(path) \in Nat BY SeqParts
<1>4. 0 \in P BY <1>1, <1>2
<1>5. ASSUME NEW n \in Nat, n \in P PROVE n + 1 \in P
  <2> SUFFICES ASSUME n + 1 <= Len(path)
               PROVE  g[n + 1] \in Storable \cup {Missing} /\ f[n + 1] = Normal(g[n + 1])
    OBVIOUS
  <2>1. n + 1 \in 1..Len(path) /\ n + 1 - 1 = n /\ n <= Len(path) BY <1>3
  <2>2. g[n] \in Storable \cup {Missing} /\ f[n] = Normal(g[n]) BY <1>5, <2>1
  <2>3. f[n + 1] = Field(f[n], path[n + 1]) /\ g[n + 1] = DartMember(g[n], path[n + 1])
    BY <1>1, <1>2, <2>1
  <2> QED BY <2>2, <2>3, FieldOfNormal
<1>6. Nat \subseteq P
  <2> HIDE DEF P
  <2> QED BY <1>4, <1>5, NaturalInduction
<1> QED BY <1>1, <1>2, <1>3, <1>6

\* A query and an index look at the very field that a Dart client stored, at
\* any depth of any value: scalars as they are, missing fields as missing.
THEOREM CodecQuerySeesFields == CodecSpec => []QuerySeesFields
<1>1. CodecInv => QuerySeesFields
  <2> SUFFICES ASSUME CodecInv, reader = "query", value # Missing, NEW path \in Paths
               PROVE  LET field == DartField(value, path)
                          found == LookupField(seen, path)
                      IN  /\ field = Missing <=> found = Missing
                          /\ field.t \in Scalars <=> found.t \in Scalars
                          /\ field.t \in Scalars => found = field
                          /\ field.t = "list" => found.t = "arr" /\ Len(found.items) = Len(field.items)
                          /\ IndexScalarKey(stored, path) =
                               IF field = Missing \/ field.t \in Scalars THEN field ELSE Invalid
    BY DEF QuerySeesFields
  <2> DEFINE field == DartField(value, path)
             found == LookupField(seen, path)
  <2>1. value \in Storable /\ stored = ToWire(value) /\ seen = Normalize(stored) BY DEF CodecInv
  <2>2. seen = Normal(value) BY <2>1, NormalOfStored
  <2>3. path \in Seq(Texts) BY PathsAssumption
  <2>4. field \in Storable \cup {Missing} /\ found = Normal(field) BY <2>1, <2>2, <2>3, LookupOfNormal
  <2>5. IndexScalarKey(stored, path) = IF found = Missing \/ found.t \in Scalars THEN found ELSE Invalid
    BY <2>1 DEF IndexScalarKey
  <2> HIDE DEF field, found
  <2>6. CASE field = Missing
    <3>1. found = Missing BY <2>4, <2>6 DEF Normal
    <3>2. "missing" \notin Scalars BY DEF Scalars
    <3> QED BY <2>5, <2>6, <3>1, <3>2, InvalidHasType DEF field, found
  <2>7. CASE field \in Storable
    <3>1. field # Missing /\ found # Missing BY <2>4, <2>7, NormalOfStored
    <3>2. field.t \in Scalars => found = field BY <2>4, <2>7, NormalOfStored
    <3>3. field.t \notin Scalars => found.t \notin Scalars
      <4> SUFFICES ASSUME field.t \notin Scalars PROVE found.t \in {"arr", "map"}
        BY ScalarsAreNoParts
      <4>1. field.t \in {"bytes", "datetime", "localtime", "list", "map"} BY <2>7, StoredCases
      <4> QED BY <2>4, <2>7, <4>1, NormalOfStored
    <3>4. field.t = "list" => found.t = "arr" /\ Len(found.items) = Len(field.items)
      BY <2>4, <2>7, NormalOfStored
    <3> QED BY <2>5, <3>1, <3>2, <3>3, <3>4 DEF field, found
  <2> QED BY <2>4, <2>6, <2>7
<1> QED BY <1>1, CodecInvHolds, PTL
-----------------------------------------------------------------------------
(* Queries: filters are trees too, and so are their wire forms.            *)

LEMMA QueryTextsAreTexts == \A s \in QueryTexts \cup Fields : s \in Texts
BY QueryTextsAssumption

LEMMA InDart ==
  ASSUME NEW x \in AllTrees, Height[x] <= Nesting
  PROVE  x \in DartTrees
<1>1. Height[x] \in Nat /\ x \in Tree[Height[x]] BY HeightMeans
<1> QED BY <1>1, NestingAssumption, TreeMonotonic DEF DartTrees

LEMMA DartIsWire == DartTrees \subseteq WireTrees
<1>1. 2 * Nesting + 1 \in Nat /\ Nesting <= 2 * Nesting + 1 BY NestingAssumption
<1> QED BY <1>1, NestingAssumption, TreeMonotonic DEF DartTrees, WireTrees

LEMMA StrMeans ==
  /\ \A s : Str(s).t = "str" /\ Str(s).s = s /\ Str(s) = Leaf("str", s)
  /\ \A s, u : Str(s) = Str(u) => s = u
  /\ \A s \in Texts : Str(s) \in AllTrees /\ Height[Str(s)] = 0
  /\ \A s : Str(s) # Invalid /\ Str(s) # Missing /\ Str(s) # Nil
<1>1. \A s : Str(s).t = "str" /\ Str(s).s = s /\ Str(s) = Leaf("str", s) BY DEF Str, Leaf
<1>2. \A s \in Texts : Str(s) \in AllTrees /\ Height[Str(s)] = 0
  BY <1>1, LeafHeight DEF Types, Scalars
<1>3. Invalid.t # "str" /\ Missing.t # "str" /\ Nil.t # "str" BY DEF Invalid, Missing, Nil, Leaf
<1> QED BY <1>1, <1>2, <1>3

LEMMA MissingHeight == Missing \in AllTrees /\ Height[Missing] = 0 /\ Missing # Invalid
<1>1. "" \in Texts BY OwnTextsAreTexts DEF OwnTexts
<1> QED BY <1>1, LeafHeight, InvalidHasType DEF Missing, Types

LEMMA NilHeight == Nil \in AllTrees /\ Height[Nil] = 0 /\ Nil # Missing /\ Nil.t = "nil"
<1>1. "" \in Texts BY OwnTextsAreTexts DEF OwnTexts
<1>2. Nil.t = "nil" /\ Missing.t = "missing" BY DEF Nil, Missing, Leaf
<1> QED BY <1>1, <1>2, LeafHeight DEF Nil, Types, Scalars

\* A map of given keys.
LEMMA MapOfMeans ==
  ASSUME NEW keys \in Seq(Texts), NEW vals \in Seq(AllTrees), Len(vals) = Len(keys),
         NEW n \in Nat, n > 0, \A i \in DOMAIN vals : Height[vals[i]] < n
  PROVE  LET m == MapOf(keys, vals)
         IN  /\ m \in AllTrees /\ Height[m] \in Nat /\ Height[m] <= n + 1
             /\ m.t = "map" /\ m.s = "" /\ DOMAIN m.items = DOMAIN keys
             /\ \A i \in DOMAIN keys :
                  /\ m.items[i] = Pair(Str(keys[i]), vals[i])
                  /\ m.items[i].items = <<Str(keys[i]), vals[i]>>
<1> DEFINE ps == [i \in DOMAIN keys |-> Pair(Str(keys[i]), vals[i])]
           m  == MapOf(keys, vals)
<1>1. m = Node("map", ps) /\ m.t = "map" /\ m.s = "" /\ m.items = ps
  BY NodeMeans DEF MapOf
<1>2. DOMAIN keys = DOMAIN vals /\ (\A i \in DOMAIN keys : keys[i] \in Texts /\ vals[i] \in AllTrees)
  BY SeqParts
<1>3. \A i \in DOMAIN keys :
        /\ ps[i] \in AllTrees /\ IsPair(ps[i]) /\ Height[ps[i]] < n + 1
        /\ ps[i] = Pair(Str(keys[i]), vals[i]) /\ ps[i].items = <<Str(keys[i]), vals[i]>>
  <2> TAKE i \in DOMAIN keys
  <2>1. ps[i] = Node("pair", <<Str(keys[i]), vals[i]>>) /\ ps[i] = Pair(Str(keys[i]), vals[i])
    BY DEF Pair
  <2>2. ps[i].items = <<Str(keys[i]), vals[i]>>
    <3> DEFINE two == <<Str(keys[i]), vals[i]>>
    <3>1. ps[i] = Node("pair", two) BY <2>1
    <3> HIDE DEF ps, two
    <3>2. Node("pair", two).items = two BY NodeMeans
    <3> QED BY <3>1, <3>2 DEF two
  <2>3. Str(keys[i]) \in AllTrees /\ vals[i] \in AllTrees /\ Height[Str(keys[i])] < n /\ Height[vals[i]] < n
    BY <1>2, StrMeans
  <2>4. ps[i] \in AllTrees /\ Height[ps[i]] <= n /\ Height[ps[i]] \in Nat
    BY <2>1, <2>3, TwoHeight DEF Types
  <2>5. IsPair(ps[i])
    <3>1. IsTree(Pair(Str(keys[i]), vals[i]), AllTrees) /\ IsPair(Pair(Str(keys[i]), vals[i]))
      BY <2>3, PairIsTree
    <3> QED BY <2>1, <3>1
  <2> QED BY <2>1, <2>2, <2>4, <2>5
<1>4. DOMAIN ps = DOMAIN keys /\ ps = [i \in DOMAIN ps |-> ps[i]] OBVIOUS
<1> HIDE DEF ps
<1>5. ps \in Seq(PairsOf(AllTrees)) /\ ps \in Seq(AllTrees)
  BY <1>3, <1>4, SeqOnPlaces DEF PairsOf
<1>6. IsTree(Node("map", ps), AllTrees)
  <2>1. "map" \in Types BY DEF Types
  <2> QED BY <1>5, <2>1, NodeIsTree
<1>7. m \in AllTrees BY <1>1, <1>6, AllMeans
<1>8. Height[m] <= n + 1 /\ Height[m] \in Nat
  <2> HIDE DEF m
  <2>1. n + 1 \in Nat OBVIOUS
  <2>2. ASSUME NEW i \in DOMAIN m.items PROVE Height[m.items[i]] < n + 1
    <3>1. i \in DOMAIN keys /\ m.items[i] = ps[i] BY <1>1, <1>4
    <3> QED BY <1>3, <3>1
  <2> QED BY <1>7, <2>1, <2>2, HeightBound
<1> QED BY <1>1, <1>3, <1>4, <1>7, <1>8

\* It is a Dart value when its values are, and no key is there twice.
LEMMA MapOfIsDart ==
  ASSUME NEW keys \in Seq(Texts), NEW vals \in Seq(AllTrees), Len(vals) = Len(keys),
         NEW n \in Nat, n > 0, \A i \in DOMAIN vals : Height[vals[i]] < n, n + 1 <= Nesting,
         \A i, j \in DOMAIN keys : keys[i] = keys[j] => i = j,
         \A i \in DOMAIN vals : IsDart(vals[i])
  PROVE  /\ MapOf(keys, vals) \in DartTrees /\ IsDart(MapOf(keys, vals))
         /\ \A i \in DOMAIN keys : DartMember(MapOf(keys, vals), keys[i]) = vals[i]
<1> DEFINE m == MapOf(keys, vals)
<1>1. /\ m \in AllTrees /\ Height[m] \in Nat /\ Height[m] <= n + 1
      /\ m.t = "map" /\ m.s = "" /\ DOMAIN m.items = DOMAIN keys
      /\ \A i \in DOMAIN keys :
           /\ m.items[i] = Pair(Str(keys[i]), vals[i])
           /\ m.items[i].items = <<Str(keys[i]), vals[i]>>
  BY MapOfMeans
<1> HIDE DEF m
<1>2. m \in DartTrees
  <2> DEFINE h == Height[m]
  <2>1. h \in Nat /\ h <= n + 1 /\ m \in AllTrees BY <1>1
  <2> HIDE DEF h
  <2>2. h <= Nesting BY <2>1, NestingAssumption
  <2> QED BY <2>1, <2>2, InDart DEF h
<1>3. DOMAIN keys = DOMAIN vals BY SeqParts
<1>4. \A i \in DOMAIN keys : m.items[i].items[1] = Str(keys[i]) /\ m.items[i].items[2] = vals[i]
  <2> TAKE i \in DOMAIN keys
  <2>1. m.items[i].items = <<Str(keys[i]), vals[i]>> BY <1>1
  <2> HIDE DEF m
  <2> QED BY <2>1
<1>5. \A i \in DOMAIN m.items : vals[i] \in DartTrees /\ DartOf[vals[i]]
  <2> TAKE i \in DOMAIN m.items
  <2>0. i \in DOMAIN vals /\ vals[i] \in AllTrees BY <1>1, <1>3, SeqParts
  <2>1. Height[vals[i]] <= Nesting
    <3>1. Height[vals[i]] \in Nat /\ Height[vals[i]] < n BY <2>0, HeightMeans
    <3> QED BY <3>1, NestingAssumption
  <2>2. vals[i] \in DartTrees BY <2>0, <2>1, InDart
  <2> QED BY <1>1, <1>3, <2>2, IsDartUnfolds
<1>6. DartKeys(m.items)
  <2>0. ASSUME NEW i \in DOMAIN m.items
        PROVE  i \in DOMAIN keys /\ m.items[i].items[1] = Str(keys[i])
    BY <1>1, <1>4
  <2>1. \A i \in DOMAIN m.items : m.items[i].items[1] = Leaf(m.items[i].items[1].t, m.items[i].items[1].s)
    <3> TAKE i \in DOMAIN m.items
    <3> DEFINE k == m.items[i].items[1]
    <3>1. k = Str(keys[i]) BY <2>0
    <3> HIDE DEF k
    <3>2. k = Leaf(k.t, k.s) BY <3>1, StrMeans
    <3> QED BY <3>2 DEF k
  <2>2. \A i, j \in DOMAIN m.items : m.items[i].items[1] = m.items[j].items[1] => i = j
    <3> TAKE i, j \in DOMAIN m.items
    <3> HAVE m.items[i].items[1] = m.items[j].items[1]
    <3>1. Str(keys[i]) = Str(keys[j]) BY <2>0
    <3>2. keys[i] = keys[j] BY <3>1, StrMeans
    <3> QED BY <2>0, <3>2
  <2> QED BY <2>1, <2>2 DEF DartKeys
<1>7. IsDart(m)
  <2>1. IsDart(m) = IsDartBy(DartOf, m) BY <1>2, IsDartUnfolds
  <2>2. IsDartBy(DartOf, m) =
          (m.s = "" /\ DartKeys(m.items) /\ \A i \in DOMAIN m.items : DartOf[m.items[i].items[2]])
    BY <1>1, DartCases
  <2>3. \A i \in DOMAIN m.items : DartOf[m.items[i].items[2]] BY <1>1, <1>4, <1>5
  <2> QED BY <1>1, <1>6, <2>1, <2>2, <2>3
<1>8. ASSUME NEW i \in DOMAIN keys PROVE DartMember(m, keys[i]) = vals[i]
  <2>1. \A j \in DOMAIN m.items : m.items[j].items[1].s = keys[j] BY <1>1, <1>4, StrMeans
  <2>2. \A j \in DOMAIN m.items : m.items[j].items[1].s = keys[i] <=> j = i BY <1>1, <2>1
  <2>3. (CHOOSE j \in DOMAIN m.items : m.items[j].items[1].s = keys[i]) = i BY <1>1, <2>2
  <2>4. DartMember(m, keys[i]) = m.items[i].items[2] BY <1>1, <2>2, <2>3 DEF DartMember
  <2> QED BY <1>4, <2>4
<1> QED BY <1>2, <1>7, <1>8 DEF m

LEMMA ThreeIsSeq ==
  ASSUME NEW S, NEW a \in S, NEW b \in S, NEW c \in S
  PROVE  /\ <<a, b, c>> \in Seq(S) /\ Len(<<a, b, c>>) = 3 /\ DOMAIN <<a, b, c>> = {1, 2, 3}
         /\ <<a, b, c>>[1] = a /\ <<a, b, c>>[2] = b /\ <<a, b, c>>[3] = c
OBVIOUS

LEMMA FourIsSeq ==
  ASSUME NEW S, NEW a \in S, NEW b \in S, NEW c \in S, NEW d \in S
  PROVE  /\ <<a, b, c, d>> \in Seq(S) /\ Len(<<a, b, c, d>>) = 4
         /\ DOMAIN <<a, b, c, d>> = {1, 2, 3, 4}
         /\ <<a, b, c, d>>[1] = a /\ <<a, b, c, d>>[2] = b
         /\ <<a, b, c, d>>[3] = c /\ <<a, b, c, d>>[4] = d
OBVIOUS

LEMMA FiveIsSeq ==
  ASSUME NEW S, NEW a \in S, NEW b \in S, NEW c \in S, NEW d \in S, NEW e \in S
  PROVE  /\ <<a, b, c, d, e>> \in Seq(S) /\ Len(<<a, b, c, d, e>>) = 5
         /\ DOMAIN <<a, b, c, d, e>> = {1, 2, 3, 4, 5}
         /\ <<a, b, c, d, e>>[1] = a /\ <<a, b, c, d, e>>[2] = b /\ <<a, b, c, d, e>>[3] = c
         /\ <<a, b, c, d, e>>[4] = d /\ <<a, b, c, d, e>>[5] = e
OBVIOUS

LEMMA MapOfIsTree ==
  ASSUME NEW keys \in Seq(Texts), NEW vals \in Seq(AllTrees), Len(vals) = Len(keys)
  PROVE  MapOf(keys, vals) \in AllTrees
<1>1. PICK n \in Nat : vals \in Seq(Tree[n]) BY ManyInOne
<1>2. n + 1 \in Nat /\ n + 1 > 0 OBVIOUS
<1>3. ASSUME NEW i \in DOMAIN vals PROVE Height[vals[i]] < n + 1
  <2>1. vals[i] \in AllTrees /\ vals[i] \in Tree[n] BY <1>1, SeqParts
  <2> DEFINE h == Height[vals[i]]
  <2>2. h \in Nat /\ h <= n BY <2>1, HeightMeans
  <2> HIDE DEF h
  <2>3. h < n + 1 BY <2>2
  <2> QED BY <2>3 DEF h
<1> QED BY <1>2, <1>3, MapOfMeans

-----------------------------------------------------------------------------
(* Operands and parts of filters.                                          *)

LEMMA OperandMeans ==
  ASSUME NEW D, WithParts(D), NEW f \in D, NEW n
  PROVE  Operand(f, n) = Missing \/ Operand(f, n) \in Below(D, f)
<1>1. CASE n \in DOMAIN f.items
  <2>1. f.items[n] \in Below(D, f) BY <1>1, BelowParts, SeqParts
  <2> QED BY <1>1, <2>1 DEF Operand
<1>2. CASE n \notin DOMAIN f.items BY <1>2 DEF Operand
<1> QED BY <1>1, <1>2

LEMMA OperandIsDart ==
  ASSUME NEW f \in DartTrees, NEW n
  PROVE  /\ Operand(f, n) \in DartTrees /\ ToWire(Operand(f, n)) \in WireTrees
         /\ Normalize(ToWire(Operand(f, n))) \in AllTrees
<1>1. Missing \in DartTrees
  <2>1. 0 <= Nesting BY NestingAssumption
  <2> QED BY <2>1, MissingHeight, InDart
<1>2. Operand(f, n) \in DartTrees BY <1>1, TreesAreClosed, OperandMeans DEF Below
<1>3. ToWire(Operand(f, n)) \in WireTrees BY <1>2, ToWireInWire
<1> QED BY <1>2, <1>3, NormalizeUnfolds

LEMMA GroupMeans ==
  /\ \A op, fs : Group(op, fs).t = "group" /\ Group(op, fs).s = op /\ Group(op, fs).items = fs
  /\ \A c : /\ Comparison(c).t = "comparison" /\ Comparison(c).s = c.op
            /\ Comparison(c).items = <<Str(c.field), c.value, c.upper>>
  /\ \A op, pp, fs, gs : Group(op, fs) = Group(pp, gs) => op = pp /\ fs = gs
  /\ \A op, fs, c : Group(op, fs) # Comparison(c)
BY DEF Group, Comparison

LEMMA GroupIsTree ==
  ASSUME NEW op \in Texts, NEW fs \in Seq(AllTrees)
  PROVE  /\ Group(op, fs) \in AllTrees /\ Height[Group(op, fs)] \in Nat
         /\ \A n \in Nat : (\A i \in DOMAIN fs : Height[fs[i]] < n) => Height[Group(op, fs)] <= n
<1> DEFINE g == Group(op, fs)
<1>1. g.t = "group" /\ g.s = op /\ g.items = fs BY GroupMeans
<1>2. g = [t |-> g.t, s |-> g.s, items |-> g.items] BY DEF Group
<1>3. "group" \in Types BY DEF Types
<1> HIDE DEF g
<1>4. g \in AllTrees
  <2>1. IsTree(g, AllTrees) BY <1>1, <1>2, <1>3 DEF IsTree
  <2> QED BY <2>1, AllMeans
<1>5. Height[g] \in Nat BY <1>4, HeightMeans
<1>6. ASSUME NEW n \in Nat, \A i \in DOMAIN fs : Height[fs[i]] < n PROVE Height[g] <= n
  BY <1>1, <1>4, <1>6, HeightBound
<1> QED BY <1>4, <1>5, <1>6 DEF g

LEMMA ComparisonIsTree ==
  ASSUME NEW c, c.field \in Texts, c.op \in Texts, c.value \in AllTrees, c.upper \in AllTrees
  PROVE  /\ Comparison(c) \in AllTrees /\ Height[Comparison(c)] \in Nat
         /\ \A n \in Nat : n > 0 /\ Height[c.value] < n /\ Height[c.upper] < n =>
              Height[Comparison(c)] <= n
<1> DEFINE g == Comparison(c)
<1>1. g.t = "comparison" /\ g.s = c.op /\ g.items = <<Str(c.field), c.value, c.upper>> BY GroupMeans
<1>2. g = [t |-> g.t, s |-> g.s, items |-> g.items] BY DEF Comparison
<1>3. "comparison" \in Types BY DEF Types
<1>4. Str(c.field) \in AllTrees /\ Height[Str(c.field)] = 0 BY StrMeans
<1>5. g.items \in Seq(AllTrees) /\ DOMAIN g.items = {1, 2, 3}
      /\ g.items[1] = Str(c.field) /\ g.items[2] = c.value /\ g.items[3] = c.upper
  <2> DEFINE k == Str(c.field)
             v == c.value
             u == c.upper
             three == <<k, v, u>>
  <2>1. k \in AllTrees /\ v \in AllTrees /\ u \in AllTrees /\ g.items = three BY <1>1, <1>4
  <2> HIDE DEF k, v, u, g
  <2>2. three \in Seq(AllTrees) /\ DOMAIN three = {1, 2, 3} /\ three[1] = k /\ three[2] = v /\ three[3] = u
    BY <2>1, ThreeIsSeq
  <2> HIDE DEF three
  <2> QED BY <2>1, <2>2 DEF k, v, u
<1> HIDE DEF g
<1>6. g \in AllTrees
  <2>1. IsTree(g, AllTrees) BY <1>1, <1>2, <1>3, <1>5 DEF IsTree
  <2> QED BY <2>1, AllMeans
<1>7. Height[g] \in Nat BY <1>6, HeightMeans
<1>8. ASSUME NEW n \in Nat, n > 0, Height[c.value] < n, Height[c.upper] < n PROVE Height[g] <= n
  <2>1. \A i \in DOMAIN g.items : Height[g.items[i]] < n BY <1>4, <1>5, <1>8
  <2> QED BY <1>6, <2>1, HeightBound
<1> QED BY <1>6, <1>7, <1>8 DEF g

-----------------------------------------------------------------------------
(* The wire form of a filter.                                              *)

LEMMA WireKeys ==
  /\ <<"type", "field", "operator", "value", "upperValue">> \in Seq(Texts)
  /\ <<"type", "operator", "filters">> \in Seq(Texts)
  /\ <<"where", "sortBy", "limit", "offset">> \in Seq(Texts)
  /\ <<"field", "direction", "nulls">> \in Seq(Texts)
<1>1. {"type", "field", "operator", "value", "upperValue", "filters", "where", "sortBy", "limit",
       "offset", "direction", "nulls"} \subseteq Texts
  BY QueryTextsAreTexts DEF QueryTexts
<1> QED BY <1>1, ThreeIsSeq, FourIsSeq, FiveIsSeq

LEMMA ComparisonWireIsTree ==
  ASSUME NEW x \in AllTrees
  PROVE  LET vals == <<Str("comparison"), Operand(x, 1), Str(x.s), Operand(x, 2), Operand(x, 3)>>
         IN  vals \in Seq(AllTrees) /\ Len(vals) = 5
<1>1. x.s \in Texts /\ "comparison" \in Texts
  <2>1. IsTree(x, AllTrees) BY AllMeans
  <2> QED BY <2>1, QueryTextsAreTexts DEF QueryTexts, IsTree
<1>2. \A n : Operand(x, n) \in AllTrees
  BY AllAreClosed, OperandMeans, MissingHeight DEF Below
<1>3. Str("comparison") \in AllTrees /\ Str(x.s) \in AllTrees BY <1>1, StrMeans
<1> DEFINE a == Str("comparison")
           b == Operand(x, 1)
           c == Str(x.s)
           d == Operand(x, 2)
           e == Operand(x, 3)
<1>4. a \in AllTrees /\ b \in AllTrees /\ c \in AllTrees /\ d \in AllTrees /\ e \in AllTrees
  BY <1>2, <1>3
<1> HIDE DEF a, b, c, d, e
<1>5. <<a, b, c, d, e>> \in Seq(AllTrees) /\ Len(<<a, b, c, d, e>>) = 5 BY <1>4, FiveIsSeq
<1> QED BY <1>5 DEF a, b, c, d, e

LEMMA FilterWireIsTree ==
  ASSUME NEW D, WithParts(D), NEW x \in D, NEW F, \A y \in Below(D, x) : F[y] \in AllTrees
  PROVE  FilterWireBy(F, x) \in AllTrees
<1>0. x \in AllTrees /\ x.s \in Texts BY AllMeans DEF WithParts, IsTree
<1>1. CASE x.t = "comparison"
  <2> DEFINE keys == <<"type", "field", "operator", "value", "upperValue">>
             vals == <<Str("comparison"), Operand(x, 1), Str(x.s), Operand(x, 2), Operand(x, 3)>>
  <2>1. vals \in Seq(AllTrees) /\ Len(vals) = 5 BY <1>0, ComparisonWireIsTree
  <2>2. keys \in Seq(Texts) /\ Len(keys) = 5 BY WireKeys
  <2>3. FilterWireBy(F, x) = MapOf(keys, vals) BY <1>1 DEF FilterWireBy
  <2> HIDE DEF keys, vals
  <2> QED BY <2>1, <2>2, <2>3, MapOfIsTree
<1>2. CASE x.t # "comparison"
  <2> DEFINE keys == <<"type", "operator", "filters">>
             a == Str("group")
             b == Str(x.s)
             c == Node("list", Each(F, x.items))
  <2>1. a \in AllTrees /\ b \in AllTrees
    <3>1. "group" \in Texts BY QueryTextsAreTexts DEF QueryTexts
    <3> QED BY <1>0, <3>1, StrMeans
  <2>2. c \in AllTrees
    <3>1. x.items \in Seq(Below(D, x)) BY BelowParts
    <3>2. Each(F, x.items) \in Seq(AllTrees) BY <3>1, EachIs
    <3> QED BY <3>2, OwnTrees DEF Types
  <2>3. keys \in Seq(Texts) /\ Len(keys) = 3 BY WireKeys
  <2>4. FilterWireBy(F, x) = MapOf(keys, <<a, b, c>>) BY <1>2 DEF FilterWireBy
  <2> HIDE DEF keys, a, b, c
  <2>5. <<a, b, c>> \in Seq(AllTrees) /\ Len(<<a, b, c>>) = 3 BY <2>1, <2>2, ThreeIsSeq
  <2> QED BY <2>3, <2>4, <2>5, MapOfIsTree
<1> QED BY <1>1, <1>2

LEMMA FilterWireSame ==
  ASSUME NEW D, WithParts(D), NEW x \in D, NEW F, NEW G, \A y \in Below(D, x) : F[y] = G[y]
  PROVE  FilterWireBy(F, x) = FilterWireBy(G, x)
<1>1. Each(F, x.items) = Each(G, x.items) BY BelowParts, EachSame
<1> QED BY <1>1 DEF FilterWireBy


FilterWireOf == [x \in DartTrees |-> FilterWire(x)]

LEMMA FilterWireUnfolds ==
  /\ \A x \in DartTrees : FilterWire(x) \in AllTrees /\ FilterWireOf[x] = FilterWire(x)
  /\ \A x \in DartTrees : FilterWire(x) = FilterWireBy(FilterWireOf, x)
<1> DEFINE D == DartTrees
           H == [F \in [D -> AllTrees] |-> [x \in D |-> FilterWireBy(F, x)]]
           V == AllTrees
           f == CHOOSE g : g = [x \in D |-> FilterWireBy(g, x)]
<1>1. WithParts(D) BY TreesAreClosed
<1>2. \A F \in [D -> AllTrees], x \in D : FilterWireBy(F, x) \in AllTrees
  BY <1>1, FilterWireIsTree DEF Below
<1>3. \A F, G, x : x \in D /\ (\A y \in Below(D, x) : F[y] = G[y]) => FilterWireBy(F, x) = FilterWireBy(G, x)
  BY <1>1, FilterWireSame
<1>4. IsTreeBody(H, D, AllTrees) BY <1>2, <1>3 DEF IsTreeBody
<1>5. \A F \in [D -> AllTrees] : F = H[F] => F = [x \in D |-> FilterWireBy(F, x)] OBVIOUS
<1>6. PICK F \in [D -> AllTrees] : F = [x \in D |-> FilterWireBy(F, x)]
  <2>1. V # {} BY OwnTrees
  <2>2. IsTreeBody(H, D, V) BY <1>4
  <2> HIDE DEF H, V
  <2>3. \E F \in [D -> V] : F = H[F] BY <1>1, <2>1, <2>2, TreeFunction
  <2> QED BY <1>5, <2>3 DEF V
<1>7. f = [x \in D |-> FilterWireBy(f, x)]
  <2>1. \E g : g = [x \in D |-> FilterWireBy(g, x)] BY <1>6
  <2> QED BY <2>1
<1>8. \A x : FilterWire(x) = f[x] BY DEF FilterWire
<1> HIDE DEF f
<1>9. f = F
  <2>1. f = [x \in D |-> f[x]] /\ F = [x \in D |-> F[x]] BY <1>7
  <2>2. \A x \in D : (\A y \in Below(D, x) : f[y] = F[y]) => f[x] = F[x] BY <1>3, <1>6, <1>7
  <2> QED BY <1>1, <2>1, <2>2, OneFunction
<1>10. FilterWireOf = f BY <1>7, <1>8 DEF FilterWireOf
<1>11. \A x \in D : FilterWire(x) = f[x] /\ f[x] \in AllTrees /\ f[x] = FilterWireBy(f, x)
  BY <1>7, <1>8, <1>9
<1> QED BY <1>10, <1>11

-----------------------------------------------------------------------------
(* What arrives of a filter.                                               *)

LEMMA CarriedIsTree ==
  ASSUME NEW x \in DartTrees, NEW F, \A y \in Below(DartTrees, x) : F[y] \in AllTrees
  PROVE  CarriedBy(F, x) \in AllTrees
<1>0. x \in AllTrees /\ x.s \in Texts /\ WithParts(DartTrees)
  BY AllMeans, TreesAreClosed DEF WithParts, IsTree
<1>1. CASE x.t = "comparison"
  <2> DEFINE a == Operand(x, 1)
             b == Normalize(ToWire(Operand(x, 2)))
             c == Normalize(ToWire(Operand(x, 3)))
             g == CarriedBy(F, x)
  <2>1. a \in AllTrees /\ b \in AllTrees /\ c \in AllTrees BY <1>0, OperandIsDart DEF WithParts
  <2>2. g = [t |-> "comparison", s |-> x.s, items |-> <<a, b, c>>] BY <1>1 DEF CarriedBy
  <2>3. g.t = "comparison" /\ g.s = x.s /\ g.items = <<a, b, c>>
        /\ g = [t |-> g.t, s |-> g.s, items |-> g.items]
    BY <2>2
  <2> HIDE DEF a, b, c, g
  <2>4. <<a, b, c>> \in Seq(AllTrees) BY <2>1, ThreeIsSeq
  <2>5. IsTree(g, AllTrees)
    <3>1. "comparison" \in Types BY DEF Types
    <3> QED BY <1>0, <2>3, <2>4, <3>1 DEF IsTree
  <2>6. g \in AllTrees BY <2>5, AllMeans
  <2> QED BY <2>6 DEF g
<1>2. CASE x.t # "comparison"
  <2>1. CarriedBy(F, x) = Group(x.s, Each(F, x.items)) BY <1>2 DEF CarriedBy
  <2>2. Each(F, x.items) \in Seq(AllTrees) BY <1>0, BelowParts, EachIs
  <2> QED BY <1>0, <2>1, <2>2, GroupIsTree
<1> QED BY <1>1, <1>2

LEMMA CarriedSame ==
  ASSUME NEW D, WithParts(D), NEW x \in D, NEW F, NEW G, \A y \in Below(D, x) : F[y] = G[y]
  PROVE  CarriedBy(F, x) = CarriedBy(G, x)
<1>1. Each(F, x.items) = Each(G, x.items) BY BelowParts, EachSame
<1> QED BY <1>1 DEF CarriedBy


CarriedOf == [x \in DartTrees |-> Carried(x)]

LEMMA CarriedUnfolds ==
  /\ \A x \in DartTrees : Carried(x) \in AllTrees /\ CarriedOf[x] = Carried(x)
  /\ \A x \in DartTrees : Carried(x) = CarriedBy(CarriedOf, x)
<1> DEFINE D == DartTrees
           H == [F \in [D -> AllTrees] |-> [x \in D |-> CarriedBy(F, x)]]
           V == AllTrees
           f == CHOOSE g : g = [x \in D |-> CarriedBy(g, x)]
<1>1. WithParts(D) BY TreesAreClosed
<1>2. \A F \in [D -> AllTrees], x \in D : CarriedBy(F, x) \in AllTrees
  BY <1>1, CarriedIsTree DEF Below
<1>3. \A F, G, x : x \in D /\ (\A y \in Below(D, x) : F[y] = G[y]) => CarriedBy(F, x) = CarriedBy(G, x)
  BY <1>1, CarriedSame
<1>4. IsTreeBody(H, D, AllTrees) BY <1>2, <1>3 DEF IsTreeBody
<1>5. \A F \in [D -> AllTrees] : F = H[F] => F = [x \in D |-> CarriedBy(F, x)] OBVIOUS
<1>6. PICK F \in [D -> AllTrees] : F = [x \in D |-> CarriedBy(F, x)]
  <2>1. V # {} BY OwnTrees
  <2>2. IsTreeBody(H, D, V) BY <1>4
  <2> HIDE DEF H, V
  <2>3. \E F \in [D -> V] : F = H[F] BY <1>1, <2>1, <2>2, TreeFunction
  <2> QED BY <1>5, <2>3 DEF V
<1>7. f = [x \in D |-> CarriedBy(f, x)]
  <2>1. \E g : g = [x \in D |-> CarriedBy(g, x)] BY <1>6
  <2> QED BY <2>1
<1>8. \A x : Carried(x) = f[x] BY DEF Carried
<1> HIDE DEF f
<1>9. f = F
  <2>1. f = [x \in D |-> f[x]] /\ F = [x \in D |-> F[x]] BY <1>7
  <2>2. \A x \in D : (\A y \in Below(D, x) : f[y] = F[y]) => f[x] = F[x] BY <1>3, <1>6, <1>7
  <2> QED BY <1>1, <2>1, <2>2, OneFunction
<1>10. CarriedOf = f BY <1>7, <1>8 DEF CarriedOf
<1>11. \A x \in D : Carried(x) = f[x] /\ f[x] \in AllTrees /\ f[x] = CarriedBy(f, x)
  BY <1>7, <1>8, <1>9
<1> QED BY <1>10, <1>11

-----------------------------------------------------------------------------
(* The parser.                                                             *)

LEMMA LeastIndex ==
  ASSUME NEW S, NEW s \in Seq(S), NEW I, I \subseteq DOMAIN s, I # {}
  PROVE  (CHOOSE i \in I : \A j \in I : i <= j) \in I
         /\ \A j \in I : (CHOOSE i \in I : \A k \in I : i <= k) <= j
<1>1. I \subseteq Nat BY SeqParts
<1>2. \E i \in I : \A j \in I : <<j, i>> \notin OpToRel(<, Nat)
  BY <1>1, NatLessThanWellFounded, WFMin
<1>3. \E i \in I : \A j \in I : i <= j
  <2>1. PICK i \in I : \A j \in I : <<j, i>> \notin OpToRel(<, Nat) BY <1>2
  <2>2. \A j \in I : j \in Nat /\ i \in Nat /\ ~(j < i) BY <1>1, <2>1 DEF OpToRel
  <2>3. \A j \in I : i <= j BY <2>2
  <2> QED BY <2>3
<1> QED BY <1>3

LEMMA FieldBelow ==
  ASSUME NEW D, WithParts(D), NEW w \in D, NEW key
  PROVE  Field(w, key) = Missing \/ Field(w, key) \in Below(D, w)
<1> DEFINE at == {i \in DOMAIN w.items : w.items[i].items[1] = Str(key)}
           first == CHOOSE i \in at : \A j \in at : i <= j
<1>1. CASE w.t # "map" \/ at = {} BY <1>1 DEF Field
<1>2. CASE w.t = "map" /\ at # {}
  <2>1. w.items \in Seq(D) /\ at \subseteq DOMAIN w.items BY DEF WithParts
  <2>2. first \in at
    <3> HIDE DEF at
    <3> QED BY <1>2, <2>1, LeastIndex
  <2>3. first \in DOMAIN w.items BY <2>2
  <2>4. w.items[first].items[2] \in Below(D, w) BY <1>2, <2>3, MapParts DEF ValuesIn
  <2>5. Field(w, key) = w.items[first].items[2] BY <1>2 DEF Field
  <2> QED BY <2>4, <2>5
<1> QED BY <1>1, <1>2

LEMMA FieldParts ==
  ASSUME NEW D, WithParts(D), NEW w \in D, NEW key
  PROVE  Field(w, key).items \in Seq(Below(D, w)) /\ Field(w, key) \in D \cup {Missing}
<1>1. CASE Field(w, key) = Missing
  <2>1. Missing.items = <<>> BY DEF Missing, Leaf
  <2> QED BY <1>1, <2>1, EmptySeq
<1>2. CASE Field(w, key) \in Below(D, w)
  <2>1. Field(w, key) \in D BY <1>2 DEF Below
  <2>2. Field(w, key).items \in Seq(Below(D, Field(w, key))) BY <2>1, BelowParts
  <2>3. \A i \in DOMAIN Field(w, key).items : Field(w, key).items[i] \in Below(D, w)
    BY <1>2, <2>2, SeqParts, BelowBelow
  <2>4. Field(w, key).items = [i \in DOMAIN Field(w, key).items |-> Field(w, key).items[i]]
    BY <2>2, LenProperties
  <2>5. Field(w, key).items \in Seq(Below(D, w))
    <3> DEFINE s == Field(w, key).items
    <3>1. s \in Seq(Below(D, Field(w, key))) /\ s = [i \in DOMAIN s |-> s[i]]
          /\ \A i \in DOMAIN s : s[i] \in Below(D, w)
      BY <2>2, <2>3, <2>4
    <3> HIDE DEF s
    <3>2. s \in Seq(Below(D, w)) BY <3>1, SeqOnPlaces
    <3> QED BY <3>2 DEF s
  <2> QED BY <2>1, <2>5
<1> QED BY <1>1, <1>2, FieldBelow

LEMMA NoFilterIsTree == NoFilter \in AllTrees
<1>1. "none" \in Texts BY QueryTextsAreTexts DEF QueryTexts
<1> QED BY <1>1, EmptySeq, GroupIsTree DEF NoFilter

LEMMA ComparisonOfIsTree ==
  ASSUME NEW D, WithParts(D), NEW w \in D
  PROVE  ComparisonOf(w) \in AllTrees
<1>1. Field(w, "value") \in AllTrees /\ Field(w, "upperValue") \in AllTrees
  BY FieldIsTree DEF WithParts
<1>2. ASSUME NEW field \in Fields, NEW op \in CompareOps
      PROVE  Comparison([field |-> field, op |-> op, value |-> Field(w, "value"),
                         upper |-> Field(w, "upperValue")]) \in AllTrees
  <2>1. field \in Texts /\ op \in Texts BY QueryTextsAreTexts DEF QueryTexts
  <2> QED BY <1>1, <2>1, ComparisonIsTree
<1> QED BY <1>2, NoFilterIsTree DEF ComparisonOf

LEMMA ParseIsTree ==
  ASSUME NEW D, WithParts(D), NEW w \in D, NEW F, \A y \in Below(D, w) : F[y] \in AllTrees
  PROVE  ParseFilterBy(F, w) \in AllTrees
<1> DEFINE fs == Each(F, Field(w, "filters").items)
<1>1. fs \in Seq(AllTrees) BY FieldParts, EachIs
<1> HIDE DEF fs
<1>2. GroupOf(w, fs) \in AllTrees
  <2>1. "and" \in Texts /\ "or" \in Texts BY QueryTextsAreTexts DEF QueryTexts
  <2>2. Text(w, "operator") \in {"and", "or"} => Group(Text(w, "operator"), fs) \in AllTrees
    BY <1>1, <2>1, GroupIsTree
  <2> QED BY <2>2, NoFilterIsTree DEF GroupOf
<1> QED BY <1>2, ComparisonOfIsTree, NoFilterIsTree DEF ParseFilterBy, fs

LEMMA ParseSame ==
  ASSUME NEW D, WithParts(D), NEW w \in D, NEW F, NEW G, \A y \in Below(D, w) : F[y] = G[y]
  PROVE  ParseFilterBy(F, w) = ParseFilterBy(G, w)
<1>1. Each(F, Field(w, "filters").items) = Each(G, Field(w, "filters").items)
  BY FieldParts, EachSame
<1> QED BY <1>1 DEF ParseFilterBy


ParseOf == [x \in WireTrees |-> ParseFilter(x)]

LEMMA ParseFilterUnfolds ==
  /\ \A x \in WireTrees : ParseFilter(x) \in AllTrees /\ ParseOf[x] = ParseFilter(x)
  /\ \A x \in WireTrees : ParseFilter(x) = ParseFilterBy(ParseOf, x)
<1> DEFINE D == WireTrees
           H == [F \in [D -> AllTrees] |-> [x \in D |-> ParseFilterBy(F, x)]]
           V == AllTrees
           f == CHOOSE g : g = [x \in D |-> ParseFilterBy(g, x)]
<1>1. WithParts(D) BY TreesAreClosed
<1>2. \A F \in [D -> AllTrees], x \in D : ParseFilterBy(F, x) \in AllTrees
  BY <1>1, ParseIsTree DEF Below
<1>3. \A F, G, x : x \in D /\ (\A y \in Below(D, x) : F[y] = G[y]) => ParseFilterBy(F, x) = ParseFilterBy(G, x)
  BY <1>1, ParseSame
<1>4. IsTreeBody(H, D, AllTrees) BY <1>2, <1>3 DEF IsTreeBody
<1>5. \A F \in [D -> AllTrees] : F = H[F] => F = [x \in D |-> ParseFilterBy(F, x)] OBVIOUS
<1>6. PICK F \in [D -> AllTrees] : F = [x \in D |-> ParseFilterBy(F, x)]
  <2>1. V # {} BY OwnTrees
  <2>2. IsTreeBody(H, D, V) BY <1>4
  <2> HIDE DEF H, V
  <2>3. \E F \in [D -> V] : F = H[F] BY <1>1, <2>1, <2>2, TreeFunction
  <2> QED BY <1>5, <2>3 DEF V
<1>7. f = [x \in D |-> ParseFilterBy(f, x)]
  <2>1. \E g : g = [x \in D |-> ParseFilterBy(g, x)] BY <1>6
  <2> QED BY <2>1
<1>8. \A x : ParseFilter(x) = f[x] BY DEF ParseFilter
<1> HIDE DEF f
<1>9. f = F
  <2>1. f = [x \in D |-> f[x]] /\ F = [x \in D |-> F[x]] BY <1>7
  <2>2. \A x \in D : (\A y \in Below(D, x) : f[y] = F[y]) => f[x] = F[x] BY <1>3, <1>6, <1>7
  <2> QED BY <1>1, <2>1, <2>2, OneFunction
<1>10. ParseOf = f BY <1>7, <1>8 DEF ParseOf
<1>11. \A x \in D : ParseFilter(x) = f[x] /\ f[x] \in AllTrees /\ f[x] = ParseFilterBy(f, x)
  BY <1>7, <1>8, <1>9
<1> QED BY <1>10, <1>11

-----------------------------------------------------------------------------
(* Which filters the engine has a meaning for.                             *)

LEMMA WellformedIsBoolean ==
  ASSUME NEW F, NEW x
  PROVE  WellformedBy(F, x) \in BOOLEAN
BY DEF WellformedBy

LEMMA WellformedSame ==
  ASSUME NEW D, WithParts(D), NEW x \in D, NEW F, NEW G, \A y \in Below(D, x) : F[y] = G[y]
  PROVE  WellformedBy(F, x) = WellformedBy(G, x)
<1>1. \A i \in DOMAIN x.items : F[x.items[i]] = G[x.items[i]] BY BelowParts, SeqParts
<1> QED BY <1>1 DEF WellformedBy


WellformedOf == [x \in WireTrees |-> Wellformed(x)]

LEMMA WellformedUnfolds ==
  /\ \A x \in WireTrees : Wellformed(x) \in BOOLEAN /\ WellformedOf[x] = Wellformed(x)
  /\ \A x \in WireTrees : Wellformed(x) = WellformedBy(WellformedOf, x)
<1> DEFINE D == WireTrees
           H == [F \in [D -> BOOLEAN] |-> [x \in D |-> WellformedBy(F, x)]]
           V == BOOLEAN
           f == CHOOSE g : g = [x \in D |-> WellformedBy(g, x)]
<1>1. WithParts(D) BY TreesAreClosed
<1>2. \A F \in [D -> BOOLEAN], x \in D : WellformedBy(F, x) \in BOOLEAN
  BY <1>1, WellformedIsBoolean DEF Below
<1>3. \A F, G, x : x \in D /\ (\A y \in Below(D, x) : F[y] = G[y]) => WellformedBy(F, x) = WellformedBy(G, x)
  BY <1>1, WellformedSame
<1>4. IsTreeBody(H, D, BOOLEAN) BY <1>2, <1>3 DEF IsTreeBody
<1>5. \A F \in [D -> BOOLEAN] : F = H[F] => F = [x \in D |-> WellformedBy(F, x)] OBVIOUS
<1>6. PICK F \in [D -> BOOLEAN] : F = [x \in D |-> WellformedBy(F, x)]
  <2>1. V # {} BY OwnTrees
  <2>2. IsTreeBody(H, D, V) BY <1>4
  <2> HIDE DEF H, V
  <2>3. \E F \in [D -> V] : F = H[F] BY <1>1, <2>1, <2>2, TreeFunction
  <2> QED BY <1>5, <2>3 DEF V
<1>7. f = [x \in D |-> WellformedBy(f, x)]
  <2>1. \E g : g = [x \in D |-> WellformedBy(g, x)] BY <1>6
  <2> QED BY <2>1
<1>8. \A x : Wellformed(x) = f[x] BY DEF Wellformed
<1> HIDE DEF f
<1>9. f = F
  <2>1. f = [x \in D |-> f[x]] /\ F = [x \in D |-> F[x]] BY <1>7
  <2>2. \A x \in D : (\A y \in Below(D, x) : f[y] = F[y]) => f[x] = F[x] BY <1>3, <1>6, <1>7
  <2> QED BY <1>1, <2>1, <2>2, OneFunction
<1>10. WellformedOf = f BY <1>7, <1>8 DEF WellformedOf
<1>11. \A x \in D : Wellformed(x) = f[x] /\ f[x] \in BOOLEAN /\ f[x] = WellformedBy(f, x)
  BY <1>7, <1>8, <1>9
<1> QED BY <1>10, <1>11

-----------------------------------------------------------------------------
(* The verdict on a filter, from the verdicts on its comparisons.          *)

LEMMA HoldsIsVerdict ==
  ASSUME NEW D, WithParts(D), NEW x \in D, NEW verdict, NEW V, {"yes", "no"} \subseteq V,
         verdict[Operands(x)] \in V, NEW F, \A y \in Below(D, x) : F[y] \in V
  PROVE  HoldsBy(F, verdict, x) \in V
<1> DEFINE decisive == {i \in DOMAIN x.items : F[x.items[i]] # Neutral(x.s)}
           first == CHOOSE i \in decisive : \A j \in decisive : i <= j
<1>1. CASE x.t = "comparison" BY <1>1 DEF HoldsBy
<1>2. CASE x.t # "comparison" /\ decisive = {}
  <2>1. HoldsBy(F, verdict, x) = Neutral(x.s) BY <1>2 DEF HoldsBy
  <2> QED BY <2>1 DEF Neutral
<1>3. CASE x.t # "comparison" /\ decisive # {}
  <2>1. x.items \in Seq(Below(D, x)) BY BelowParts
  <2>2. first \in decisive
    <3>1. decisive \subseteq DOMAIN x.items OBVIOUS
    <3> HIDE DEF decisive
    <3> QED BY <1>3, <2>1, <3>1, LeastIndex
  <2>3. first \in DOMAIN x.items BY <2>2
  <2>4. F[x.items[first]] \in V BY <2>1, <2>3, SeqParts
  <2>5. HoldsBy(F, verdict, x) = F[x.items[first]] BY <1>3 DEF HoldsBy
  <2> QED BY <2>4, <2>5
<1> QED BY <1>1, <1>2, <1>3

LEMMA HoldsSame ==
  ASSUME NEW D, WithParts(D), NEW x \in D, NEW verdict, NEW F, NEW G,
         \A y \in Below(D, x) : F[y] = G[y]
  PROVE  HoldsBy(F, verdict, x) = HoldsBy(G, verdict, x)
<1> DEFINE d(H) == {i \in DOMAIN x.items : H[x.items[i]] # Neutral(x.s)}
           first == CHOOSE i \in d(F) : \A j \in d(F) : i <= j
<1>1. x.items \in Seq(Below(D, x)) BY BelowParts
<1>2. \A i \in DOMAIN x.items : F[x.items[i]] = G[x.items[i]] BY <1>1, SeqParts
<1>3. d(F) = d(G) BY <1>2
<1>4. CASE x.t = "comparison" BY <1>4 DEF HoldsBy
<1>5. CASE x.t # "comparison" /\ d(F) = {}
  <2>1. HoldsBy(F, verdict, x) = Neutral(x.s) BY <1>5 DEF HoldsBy
  <2>2. HoldsBy(G, verdict, x) = Neutral(x.s) BY <1>3, <1>5 DEF HoldsBy
  <2> QED BY <2>1, <2>2
<1>6. CASE x.t # "comparison" /\ d(F) # {}
  <2>1. first \in d(F)
    <3>1. d(F) \subseteq DOMAIN x.items OBVIOUS
    <3> HIDE DEF d
    <3> QED BY <1>1, <1>6, <3>1, LeastIndex
  <2>2. first \in DOMAIN x.items BY <2>1
  <2>3. HoldsBy(F, verdict, x) = F[x.items[first]] BY <1>6 DEF HoldsBy
  <2>4. HoldsBy(G, verdict, x) = G[x.items[first]]
    <3>1. HoldsBy(G, verdict, x) = G[x.items[CHOOSE i \in d(G) : \A j \in d(G) : i <= j]]
      BY <1>3, <1>6 DEF HoldsBy
    <3> HIDE DEF d
    <3> QED BY <1>3, <3>1
  <2> QED BY <1>2, <2>2, <2>3, <2>4
<1> QED BY <1>4, <1>5, <1>6

HoldsOf(verdict) == [x \in WireTrees |-> Holds(x, verdict)]

LEMMA HoldsUnfolds ==
  ASSUME NEW verdict
  PROVE  \A x \in WireTrees : /\ Holds(x, verdict) = HoldsBy(HoldsOf(verdict), verdict, x)
                              /\ HoldsOf(verdict)[x] = Holds(x, verdict)
<1> DEFINE D == WireTrees
           V == {"yes", "no"} \cup {verdict[Operands(x)] : x \in D}
           H == [F \in [D -> V] |-> [x \in D |-> HoldsBy(F, verdict, x)]]
           f == CHOOSE g : g = [x \in D |-> HoldsBy(g, verdict, x)]
<1>1. WithParts(D) BY TreesAreClosed
<1>2. \A F \in [D -> V], x \in D : HoldsBy(F, verdict, x) \in V
  <2> TAKE F \in [D -> V], x \in D
  <2>1. {"yes", "no"} \subseteq V /\ verdict[Operands(x)] \in V OBVIOUS
  <2>2. \A y \in Below(D, x) : F[y] \in V BY DEF Below
  <2> HIDE DEF V, D
  <2> QED BY <1>1, <2>1, <2>2, HoldsIsVerdict
<1>3. \A F, G, x : x \in D /\ (\A y \in Below(D, x) : F[y] = G[y])
                     => HoldsBy(F, verdict, x) = HoldsBy(G, verdict, x)
  BY <1>1, HoldsSame
<1>4. IsTreeBody(H, D, V)
  <2> HIDE DEF V, D
  <2> QED BY <1>2, <1>3 DEF IsTreeBody
<1>5. \A F \in [D -> V] : F = H[F] => F = [x \in D |-> HoldsBy(F, verdict, x)]
  <2> HIDE DEF V, D
  <2> QED OBVIOUS
<1>6. PICK F \in [D -> V] : F = [x \in D |-> HoldsBy(F, verdict, x)]
  <2>1. V # {} OBVIOUS
  <2> HIDE DEF H, V
  <2>2. \E F \in [D -> V] : F = H[F] BY <1>1, <1>4, <2>1, TreeFunction
  <2> QED BY <1>5, <2>2
<1> HIDE DEF V
<1>7. f = [x \in D |-> HoldsBy(f, verdict, x)]
  <2>1. \E g : g = [x \in D |-> HoldsBy(g, verdict, x)] BY <1>6
  <2> QED BY <2>1
<1>8. \A x : Holds(x, verdict) = f[x] BY DEF Holds
<1> HIDE DEF f
<1>10. HoldsOf(verdict) = f BY <1>7, <1>8 DEF HoldsOf
<1>11. \A x \in D : Holds(x, verdict) = f[x] /\ f[x] = HoldsBy(f, verdict, x)
  BY <1>7, <1>8
<1> QED BY <1>10, <1>11

LEMMA ComparisonHolds ==
  ASSUME NEW verdict, NEW x \in WireTrees, x.t = "comparison"
  PROVE  Holds(x, verdict) = verdict[Operands(x)]
BY HoldsUnfolds DEF HoldsBy

\* The first of the filters fs that is not the neutral verdict decides.
FirstVerdict(op, fs, verdict) ==
  LET decisive == {i \in DOMAIN fs : Holds(fs[i], verdict) # Neutral(op)}
  IN  IF decisive = {} THEN Neutral(op)
      ELSE Holds(fs[CHOOSE i \in decisive : \A j \in decisive : i <= j], verdict)

LEMMA GroupHolds ==
  ASSUME NEW verdict, NEW op, NEW fs \in Seq(WireTrees), Group(op, fs) \in WireTrees
  PROVE  Holds(Group(op, fs), verdict) = FirstVerdict(op, fs, verdict)
<1> DEFINE g == Group(op, fs)
           d == {i \in DOMAIN fs : Holds(fs[i], verdict) # Neutral(op)}
           e == {i \in DOMAIN g.items : HoldsOf(verdict)[g.items[i]] # Neutral(g.s)}
           first == CHOOSE i \in d : \A j \in d : i <= j
<1>1. g.t # "comparison" /\ g.s = op /\ g.items = fs BY GroupMeans
<1>2. \A i \in DOMAIN fs : HoldsOf(verdict)[fs[i]] = Holds(fs[i], verdict) BY HoldsUnfolds, SeqParts
<1> HIDE DEF g
<1>3. e = d BY <1>1, <1>2
<1>4. Holds(g, verdict) = HoldsBy(HoldsOf(verdict), verdict, g) BY HoldsUnfolds DEF g
<1>5. CASE d = {}
  <2>1. HoldsBy(HoldsOf(verdict), verdict, g) = Neutral(op) BY <1>1, <1>3, <1>5 DEF HoldsBy
  <2> QED BY <1>4, <1>5, <2>1 DEF FirstVerdict, g
<1>6. CASE d # {}
  <2>1. first \in d
    <3>1. d \subseteq DOMAIN fs OBVIOUS
    <3> HIDE DEF d
    <3> QED BY <1>6, <3>1, LeastIndex
  <2>2. first \in DOMAIN fs BY <2>1
  <2>3. HoldsBy(HoldsOf(verdict), verdict, g) =
          HoldsOf(verdict)[g.items[CHOOSE i \in e : \A j \in e : i <= j]]
    BY <1>1, <1>3, <1>6 DEF HoldsBy
  <2>4. HoldsBy(HoldsOf(verdict), verdict, g) = HoldsOf(verdict)[fs[first]]
    <3> HIDE DEF d, e
    <3> QED BY <1>1, <1>3, <2>3
  <2>5. FirstVerdict(op, fs, verdict) = Holds(fs[first], verdict) BY <1>6 DEF FirstVerdict
  <2> QED BY <1>2, <1>4, <2>2, <2>4, <2>5 DEF g
<1> QED BY <1>5, <1>6

LEMMA VerdictOfNone ==
  ASSUME NEW op, NEW verdict
  PROVE  FirstVerdict(op, <<>>, verdict) = Neutral(op)
BY DEF FirstVerdict

LEMMA VerdictOfMore ==
  ASSUME NEW op, NEW verdict, NEW S, NEW fs \in Seq(S), NEW f \in S
  PROVE  FirstVerdict(op, Append(fs, f), verdict) =
           IF FirstVerdict(op, fs, verdict) = Neutral(op) THEN Holds(f, verdict)
           ELSE FirstVerdict(op, fs, verdict)
<1> DEFINE gs == Append(fs, f)
           n == Len(fs)
           d == {i \in DOMAIN fs : Holds(fs[i], verdict) # Neutral(op)}
           e == {i \in DOMAIN gs : Holds(gs[i], verdict) # Neutral(op)}
           first == CHOOSE i \in d : \A j \in d : i <= j
<1>1. n \in Nat /\ DOMAIN fs = 1..n BY LenProperties
<1>2. gs \in Seq(S) /\ DOMAIN gs = 1..(n + 1) /\ gs[n + 1] = f /\ \A i \in 1..n : gs[i] = fs[i]
  BY AppendProperties, LenProperties
<1>3. DOMAIN gs = DOMAIN fs \cup {n + 1} /\ n + 1 \notin DOMAIN fs BY <1>1, <1>2
<1>4. e = d \cup (IF Holds(f, verdict) # Neutral(op) THEN {n + 1} ELSE {})
  BY <1>1, <1>2, <1>3
<1>5. CASE d = {}
  <2>1. FirstVerdict(op, fs, verdict) = Neutral(op) BY <1>5 DEF FirstVerdict
  <2>2. CASE Holds(f, verdict) = Neutral(op)
    <3>1. e = {} BY <1>4, <1>5, <2>2
    <3>2. FirstVerdict(op, gs, verdict) = Neutral(op) BY <3>1 DEF FirstVerdict
    <3> QED BY <2>1, <2>2, <3>2
  <2>3. CASE Holds(f, verdict) # Neutral(op)
    <3>1. e = {n + 1} BY <1>4, <1>5, <2>3
    <3>2. FirstVerdict(op, gs, verdict) = Holds(gs[CHOOSE i \in e : \A j \in e : i <= j], verdict)
      BY <3>1 DEF FirstVerdict
    <3> HIDE DEF e
    <3>3. (CHOOSE i \in e : \A j \in e : i <= j) = n + 1 BY <1>1, <3>1
    <3>4. gs[CHOOSE i \in e : \A j \in e : i <= j] = f BY <1>2, <3>3
    <3> QED BY <2>1, <3>2, <3>4
  <2> QED BY <2>2, <2>3
<1>6. CASE d # {}
  <2>1. first \in d /\ \A j \in d : first <= j
    <3>1. d \subseteq DOMAIN fs OBVIOUS
    <3> HIDE DEF d
    <3> QED BY <1>6, <3>1, LeastIndex
  <2>2. first \in 1..n /\ Holds(fs[first], verdict) # Neutral(op) BY <1>1, <2>1
  <2>3. FirstVerdict(op, fs, verdict) = Holds(fs[first], verdict) BY <1>6 DEF FirstVerdict
  <2>4. FirstVerdict(op, gs, verdict) = Holds(gs[CHOOSE i \in e : \A j \in e : i <= j], verdict)
    BY <1>4, <1>6 DEF FirstVerdict
  <2>5. first \in e /\ e \subseteq Nat /\ \A j \in e : first <= j
    <3>0. e \subseteq DOMAIN gs OBVIOUS
    <3> HIDE DEF d, e, first
    <3>1. first \in e BY <1>4, <2>1
    <3>2. e \subseteq Nat BY <1>1, <1>2, <3>0
    <3>3. ASSUME NEW j \in e PROVE first <= j
      <4>1. CASE j \in d BY <2>1, <4>1
      <4>2. CASE j = n + 1
        <5> HIDE DEF n
        <5> QED BY <1>1, <2>2, <4>2
      <4> QED BY <1>4, <4>1, <4>2
    <3> QED BY <3>1, <3>2, <3>3
  <2> HIDE DEF e, first
  <2>6. (CHOOSE i \in e : \A j \in e : i <= j) = first
    <3>1. \A i \in e : (\A j \in e : i <= j) => i = first
      <4> SUFFICES ASSUME NEW i \in e, \A j \in e : i <= j PROVE i = first OBVIOUS
      <4>1. i \in Nat /\ first \in Nat /\ i <= first /\ first <= i BY <2>5
      <4> QED BY <4>1
    <3> QED BY <2>5, <3>1
  <2>7. gs[CHOOSE i \in e : \A j \in e : i <= j] = fs[first] BY <1>2, <2>2, <2>6
  <2> QED BY <2>2, <2>3, <2>4, <2>7
<1> QED BY <1>5, <1>6

LEMMA AppendToNone == \A a : Append(<<>>, a) = <<a>>
OBVIOUS

LEMMA AppendToOne == \A a, b : Append(<<a>>, b) = <<a, b>>
<1> TAKE a, b
<1> DEFINE S == {a, b}
           s == Append(<<a>>, b)
           t == <<a, b>>
<1>1. <<a>> \in Seq(S) /\ Len(<<a>>) = 1 /\ <<a>>[1] = a /\ a \in S /\ b \in S OBVIOUS
<1> HIDE DEF S
<1>2. s \in Seq(S) /\ Len(s) = 2 /\ s[1] = a /\ s[2] = b
  BY <1>1, AppendProperties
<1>3. t \in Seq(S) /\ Len(t) = 2 /\ t[1] = a /\ t[2] = b BY <1>1, TwoIsSeq
<1> HIDE DEF s, t
<1>4. s = t BY <1>2, <1>3, SeqEqual
<1> QED BY <1>4 DEF s, t

LEMMA VerdictOfFew ==
  ASSUME NEW op, NEW verdict, NEW a, NEW b
  PROVE  /\ FirstVerdict(op, <<a>>, verdict) = Holds(a, verdict)
         /\ FirstVerdict(op, <<a, b>>, verdict) =
              IF Holds(a, verdict) = Neutral(op) THEN Holds(b, verdict) ELSE Holds(a, verdict)
<1> DEFINE S == {a, b}
<1>1. <<>> \in Seq(S) /\ <<a>> \in Seq(S) /\ a \in S /\ b \in S BY EmptySeq
<1>2. Append(<<>>, a) = <<a>> /\ Append(<<a>>, b) = <<a, b>> BY AppendToNone, AppendToOne
<1> HIDE DEF S
<1>3. FirstVerdict(op, <<a>>, verdict) = Holds(a, verdict)
  BY <1>1, <1>2, VerdictOfNone, VerdictOfMore
<1>4. FirstVerdict(op, <<a, b>>, verdict) =
        IF FirstVerdict(op, <<a>>, verdict) = Neutral(op) THEN Holds(b, verdict)
        ELSE FirstVerdict(op, <<a>>, verdict)
  BY <1>1, <1>2, VerdictOfMore
<1> QED BY <1>3, <1>4

-----------------------------------------------------------------------------
(* What a chain of calls says, from its first call to its last.            *)

\* The next verdict, after v, when call c is heard.
Heard(v, c, verdict) == IF v = Neutral(c.op) THEN Holds(c.filter, verdict) ELSE v

LEMMA SaidUnfolds ==
  ASSUME NEW S, NEW cs \in Seq(S), Len(cs) > 0, NEW verdict
  PROVE  \E f : /\ Said(cs, verdict) = f[Len(cs)] /\ f[1] = Holds(cs[1].filter, verdict)
                /\ \A n \in 2..Len(cs) : f[n] = Heard(f[n - 1], cs[n], verdict)
<1> DEFINE N == 1..Len(cs)
           V == {Holds(cs[n].filter, verdict) : n \in N}
           B(F, n) == IF n = 1 \/ F[n - 1] = Neutral(cs[n].op) THEN Holds(cs[n].filter, verdict)
                      ELSE F[n - 1]
           H == [F \in [N -> V] |-> [n \in N |-> B(F, n)]]
           Depth == [n \in N |-> n]
           f == CHOOSE g : g = [n \in N |-> B(g, n)]
<1>0. Len(cs) \in Nat BY LenProperties
<1>1. Depth \in [N -> Nat] BY <1>0
<1>2. ASSUME NEW F \in [N -> V], NEW n \in N PROVE B(F, n) \in V
  <2>1. CASE n = 1 BY <2>1
  <2>2. CASE n # 1
    <3>1. n - 1 \in N BY <1>0, <2>2
    <3>2. F[n - 1] \in V BY <3>1
    <3>3. Holds(cs[n].filter, verdict) \in V OBVIOUS
    <3> HIDE DEF V
    <3> QED BY <3>2, <3>3
  <2> QED BY <2>1, <2>2
<1>3. ASSUME NEW F, NEW G, NEW n \in N, SameBelow(F, G, n, N, Depth) PROVE B(F, n) = B(G, n)
  <2>1. CASE n = 1 BY <2>1
  <2>2. CASE n # 1
    <3>1. n - 1 \in N /\ Depth[n - 1] < Depth[n] BY <1>0, <2>2
    <3>2. F[n - 1] = G[n - 1] BY <1>3, <3>1 DEF SameBelow
    <3> QED BY <2>2, <3>2
  <2> QED BY <2>1, <2>2
<1>4. IsBody(H, N, V, Depth)
  <2> HIDE DEF V, N, B, Depth
  <2> QED BY <1>2, <1>3 DEF IsBody
<1>5. \A F \in [N -> V] : F = H[F] => F = [n \in N |-> B(F, n)]
  <2> HIDE DEF V, N, B
  <2> QED OBVIOUS
<1>6. \E g : g = [n \in N |-> B(g, n)]
  <2> DEFINE v == Holds(cs[1].filter, verdict)
  <2>1. v \in V
    <3>1. 1 \in N BY <1>0
    <3> QED BY <3>1
  <2> HIDE DEF H, V, N, v, Depth, B
  <2>2. \E F \in [N -> V] : F = H[F] BY <1>1, <1>4, <2>1, DepthRecursion
  <2> QED BY <1>5, <2>2
<1>7. f = [n \in N |-> B(f, n)]
  <2> HIDE DEF B, N
  <2> QED BY <1>6
<1>8. Said(cs, verdict) = f[Len(cs)] BY DEF Said
<1> HIDE DEF f
<1>9. 1 \in N /\ \A n \in 2..Len(cs) : n \in N /\ n # 1 BY <1>0
<1>10. \A n \in N : f[n] = B(f, n)
  <2> HIDE DEF B
  <2> QED BY <1>7
<1>11. f[1] = Holds(cs[1].filter, verdict) BY <1>9, <1>10
<1>12. \A n \in 2..Len(cs) : f[n] = Heard(f[n - 1], cs[n], verdict) BY <1>9, <1>10 DEF Heard
<1> QED BY <1>8, <1>11, <1>12

LEMMA SaidOfOne ==
  ASSUME NEW c, NEW verdict
  PROVE  Said(<<c>>, verdict) = Holds(c.filter, verdict)
<1> DEFINE cs == <<c>>
<1>1. cs \in Seq({c}) /\ Len(cs) = 1 /\ cs[1] = c OBVIOUS
<1> HIDE DEF cs
<1>2. PICK f : Said(cs, verdict) = f[Len(cs)] /\ f[1] = Holds(cs[1].filter, verdict)
  BY <1>1, SaidUnfolds
<1> QED BY <1>1, <1>2 DEF cs

LEMMA SaidOfMore ==
  ASSUME NEW S, NEW cs \in Seq(S), Len(cs) > 0, NEW c \in S, NEW verdict
  PROVE  Said(Append(cs, c), verdict) = Heard(Said(cs, verdict), c, verdict)
<1> DEFINE ds == Append(cs, c)
<1>1. Len(cs) \in Nat /\ DOMAIN cs = 1..Len(cs) BY LenProperties
<1>2. /\ ds \in Seq(S) /\ Len(ds) = Len(cs) + 1 /\ ds[Len(cs) + 1] = c
      /\ \A i \in 1..Len(cs) : ds[i] = cs[i]
  BY AppendProperties
<1> HIDE DEF ds
<1>3. PICK f : /\ Said(cs, verdict) = f[Len(cs)] /\ f[1] = Holds(cs[1].filter, verdict)
               /\ \A n \in 2..Len(cs) : f[n] = Heard(f[n - 1], cs[n], verdict)
  BY SaidUnfolds
<1>4. PICK g : /\ Said(ds, verdict) = g[Len(ds)] /\ g[1] = Holds(ds[1].filter, verdict)
               /\ \A n \in 2..Len(ds) : g[n] = Heard(g[n - 1], ds[n], verdict)
  <2>1. Len(ds) > 0 BY <1>1, <1>2
  <2> QED BY <1>2, <2>1, SaidUnfolds
<1> DEFINE P == {n \in Nat : n + 1 \in 1..Len(cs) => f[n + 1] = g[n + 1]}
<1>5. 0 \in P
  <2>1. 1 \in 1..Len(cs) BY <1>1
  <2>2. f[1] = g[1] BY <1>2, <1>3, <1>4, <2>1
  <2> QED BY <2>2
<1>6. ASSUME NEW n \in P PROVE n + 1 \in P
  <2>1. n \in Nat /\ n + 1 \in Nat BY <1>6
  <2> SUFFICES ASSUME n + 1 + 1 \in 1..Len(cs) PROVE f[n + 1 + 1] = g[n + 1 + 1] BY <2>1
  <2> DEFINE m == n + 2
  <2>2. m = n + 1 + 1 /\ m - 1 = n + 1 /\ m \in 2..Len(cs) /\ m \in 1..Len(cs) /\ n + 1 \in 1..Len(cs)
        /\ m \in 2..Len(ds)
    BY <1>1, <1>2, <2>1
  <2>3. f[m - 1] = g[m - 1] BY <1>6, <2>2
  <2> HIDE DEF m
  <2>4. ds[m] = cs[m] BY <1>2, <2>2
  <2>5. f[m] = g[m] BY <1>3, <1>4, <2>2, <2>3, <2>4
  <2> QED BY <2>2, <2>5
<1>7. Nat \subseteq P
  <2> HIDE DEF P
  <2> QED BY <1>5, <1>6, NaturalInduction
<1>8. f[Len(cs)] = g[Len(cs)]
  <2>1. Len(cs) - 1 \in Nat /\ Len(cs) - 1 + 1 = Len(cs) /\ Len(cs) \in 1..Len(cs) BY <1>1
  <2>2. Len(cs) - 1 \in P BY <1>7, <2>1
  <2> QED BY <2>1, <2>2
<1>9. Len(ds) \in 2..Len(ds) /\ Len(ds) - 1 = Len(cs) BY <1>1, <1>2
<1>10. g[Len(ds)] = Heard(g[Len(ds) - 1], ds[Len(ds)], verdict) BY <1>4, <1>9
<1>11. g[Len(ds)] = Heard(f[Len(cs)], c, verdict) BY <1>2, <1>8, <1>9, <1>10
<1> QED BY <1>3, <1>4, <1>11 DEF ds

-----------------------------------------------------------------------------
(* What a filter is after its way: over the codec, and read by the parser. *)

LEMMA ScalarIsDart ==
  ASSUME NEW t \in Scalars, NEW s \in Texts
  PROVE  /\ Leaf(t, s) \in DartTrees /\ IsDart(Leaf(t, s)) /\ Leaf(t, s) \in AllTrees
         /\ Height[Leaf(t, s)] = 0 /\ Leaf(t, s).t = t /\ Leaf(t, s) # Missing
<1> DEFINE x == Leaf(t, s)
<1>1. x.t = t /\ x.items = <<>> BY DEF Leaf
<1>2. x \in AllTrees /\ Height[x] = 0 BY ScalarsAreNoParts, LeafHeight
<1> HIDE DEF x
<1>3. x \in DartTrees
  <2>1. Height[x] <= Nesting BY <1>2, NestingAssumption
  <2> QED BY <1>2, <2>1, InDart
<1>4. IsDart(x)
  <2>1. IsDartBy(DartOf, x) = (x.items = <<>>) BY <1>1, DartCases
  <2> QED BY <1>1, <1>3, <2>1, IsDartUnfolds
<1>5. x # Missing BY <1>1, ScalarsAreNoParts, InvalidHasType
<1> QED BY <1>1, <1>2, <1>3, <1>4, <1>5 DEF x

LEMMA TextIsDart ==
  ASSUME NEW s \in Texts
  PROVE  Str(s) \in DartTrees /\ IsDart(Str(s)) /\ Str(s) \in AllTrees /\ Height[Str(s)] = 0
         /\ Str(s) # Missing
<1>1. "str" \in Scalars BY DEF Scalars
<1> QED BY <1>1, ScalarIsDart DEF Str

LEMMA NormalOfScalar ==
  ASSUME NEW x \in Storable, x.t \in Scalars
  PROVE  Normal(x) = x
BY NormalOfStored

\* What the parser finds in the map under a key.
LEMMA MemberOfMap ==
  ASSUME NEW keys \in Seq(Texts), NEW vals \in Seq(AllTrees), Len(vals) = Len(keys),
         NEW n \in Nat, n > 0, \A i \in DOMAIN vals : Height[vals[i]] < n, n + 1 <= Nesting,
         \A i, j \in DOMAIN keys : keys[i] = keys[j] => i = j,
         \A i \in DOMAIN vals : IsDart(vals[i]) /\ vals[i] # Missing,
         MapOf(keys, vals) \in Storable
  PROVE  \A i \in DOMAIN keys :
           /\ vals[i] \in Storable /\ Field(Normal(MapOf(keys, vals)), keys[i]) = Normal(vals[i])
           /\ vals[i].t \in Scalars => Field(Normal(MapOf(keys, vals)), keys[i]) = vals[i]
<1> TAKE i \in DOMAIN keys
<1> DEFINE m == MapOf(keys, vals)
<1>1. DartMember(m, keys[i]) = vals[i] BY MapOfIsDart
<1> HIDE DEF m
<1>2. m \in Storable BY DEF m
<1>3. DartMember(m, keys[i]) \in Storable \cup {Missing}
      /\ Field(Normal(m), keys[i]) = Normal(DartMember(m, keys[i]))
  BY <1>2, FieldOfNormal
<1>4. vals[i] # Missing
  <2>1. i \in DOMAIN vals BY SeqParts
  <2> QED BY <2>1
<1> QED BY <1>1, <1>3, <1>4, NormalOfScalar DEF m

LEMMA OperandHeight ==
  ASSUME NEW x \in DartTrees, NEW n
  PROVE  /\ Height[Operand(x, n)] < 2 * Height[x] + 1
         /\ Height[Normalize(ToWire(Operand(x, n)))] < 2 * Height[x] + 1
<1> DEFINE y == Operand(x, n)
           w == ToWire(y)
           h == Height[x]
           k == Height[y]
           l == Height[w]
           m == Height[Normalize(w)]
<1>1. y \in DartTrees /\ w \in WireTrees /\ Normalize(w) \in AllTrees BY OperandIsDart
<1>2. h \in Nat /\ k \in Nat BY <1>1, HeightInDart
<1>3. l \in Nat /\ m \in Nat /\ m <= l
  <2>1. w \in AllTrees BY <1>1, TreesAreClosed DEF WithParts
  <2> QED BY <1>1, <2>1, HeightMeans, NormalizeHeight
<1>4. CASE y = Missing
  <2>1. k = 0 /\ Missing.t = "missing" BY <1>4, MissingHeight, InvalidHasType
  <2>2. w = ToWireBy(WireOf, Missing) BY <1>1, <1>4, ToWireUnfolds
  <2>3. w = Invalid BY <2>1, <2>2, WireCases, ScalarsAreNoParts
  <2>4. l = 0 BY <2>3, InvalidHeight
  <2> HIDE DEF h, k, l, m
  <2>5. k < 2 * h + 1 /\ m < 2 * h + 1 BY <1>2, <1>3, <2>1, <2>4
  <2> QED BY <2>5 DEF k, m, h, w, y
<1>5. CASE y \in Below(DartTrees, x)
  <2>1. k < h BY <1>5 DEF Below
  <2>2. l <= 2 * k + 1 BY <1>1, ToWireHeight
  <2> HIDE DEF h, k, l, m
  <2>3. k < 2 * h + 1 /\ m < 2 * h + 1 BY <1>2, <1>3, <2>1, <2>2
  <2> QED BY <2>3 DEF k, m, h, w, y
<1> QED BY <1>4, <1>5, OperandMeans, TreesAreClosed

LEMMA CarriedHeight == \A x \in DartTrees : Carried(x) \in WireTrees /\ Height[Carried(x)] <= 2 * Height[x] + 1
<1> DEFINE P == {x \in DartTrees : Height[Carried(x)] <= 2 * Height[x] + 1}
<1>0. WithParts(DartTrees) BY TreesAreClosed
<1>1. ASSUME NEW x \in DartTrees, Below(DartTrees, x) \subseteq P PROVE x \in P
  <2> DEFINE h == Height[x]
             g == Carried(x)
  <2>0. h \in Nat /\ 2 * h + 1 \in Nat /\ x \in AllTrees BY HeightInDart
  <2>1. g = CarriedBy(CarriedOf, x) /\ g \in AllTrees BY CarriedUnfolds
  <2>2. CASE x.t = "comparison"
    <3> DEFINE a == Operand(x, 1)
               b == Normalize(ToWire(Operand(x, 2)))
               c == Normalize(ToWire(Operand(x, 3)))
    <3>1. g = [t |-> "comparison", s |-> x.s, items |-> <<a, b, c>>] BY <2>1, <2>2 DEF CarriedBy
    <3>2. a \in AllTrees /\ b \in AllTrees /\ c \in AllTrees BY <1>0, OperandIsDart DEF WithParts
    <3>3. Height[a] < 2 * h + 1 /\ Height[b] < 2 * h + 1 /\ Height[c] < 2 * h + 1 BY OperandHeight
    <3> HIDE DEF a, b, c, g, h
    <3>4. g.items = <<a, b, c>> BY <3>1
    <3>5. DOMAIN g.items = {1, 2, 3} /\ g.items[1] = a /\ g.items[2] = b /\ g.items[3] = c
      BY <3>2, <3>4, ThreeIsSeq
    <3>6. \A i \in DOMAIN g.items : Height[g.items[i]] < 2 * h + 1 BY <3>3, <3>5
    <3>7. Height[g] <= 2 * h + 1 BY <2>0, <2>1, <3>6, HeightBound
    <3> QED BY <3>7 DEF g, h
  <2>3. CASE x.t # "comparison"
    <3>1. g = Group(x.s, Each(CarriedOf, x.items)) BY <2>1, <2>3 DEF CarriedBy
    <3> DEFINE fs == Each(CarriedOf, x.items)
    <3>2. x.items \in Seq(Below(DartTrees, x)) BY <1>0, BelowParts
    <3>3. ASSUME NEW i \in DOMAIN x.items
          PROVE  Height[fs[i]] < 2 * h + 1
      <4> DEFINE y == x.items[i]
      <4>1. y \in Below(DartTrees, x) BY <3>2, SeqParts
      <4>2. y \in P /\ y \in DartTrees /\ Height[y] < h BY <1>1, <4>1 DEF Below
      <4>3. fs[i] = Carried(y) BY <4>2, CarriedUnfolds DEF Each
      <4>4. Height[Carried(y)] \in Nat BY <4>2, CarriedUnfolds, HeightMeans
      <4>5. Height[Carried(y)] <= 2 * Height[y] + 1 BY <4>2
      <4>6. Height[y] \in Nat BY <4>2, HeightInDart
      <4> DEFINE k == Height[y]
                 l == Height[Carried(y)]
      <4>7. k \in Nat /\ l \in Nat /\ l <= 2 * k + 1 /\ k < h BY <4>2, <4>4, <4>5, <4>6
      <4> HIDE DEF k, l, h
      <4>8. l < 2 * h + 1 BY <2>0, <4>7
      <4> QED BY <4>3, <4>8 DEF l
    <3>4. DOMAIN fs = DOMAIN x.items /\ fs \in Seq(AllTrees)
      <4>1. x.items \in Seq(DartTrees) BY <1>0 DEF WithParts
      <4>2. \A y \in DartTrees : CarriedOf[y] \in AllTrees BY CarriedUnfolds
      <4> QED BY <4>1, <4>2, EachIs
    <3>5. g.items = fs BY <3>1, GroupMeans
    <3> HIDE DEF fs, g, h
    <3>6. \A i \in DOMAIN g.items : Height[g.items[i]] < 2 * h + 1 BY <3>3, <3>4, <3>5
    <3>7. Height[g] <= 2 * h + 1 BY <2>0, <2>1, <3>6, HeightBound
    <3> QED BY <3>7 DEF g, h
  <2> QED BY <2>2, <2>3
<1>2. DartTrees \subseteq P
  <2> HIDE DEF P
  <2> QED BY <1>0, <1>1, HeightInduction
<1>3. ASSUME NEW x \in DartTrees PROVE Carried(x) \in WireTrees
  <2> DEFINE h == Height[x]
             k == Height[Carried(x)]
  <2>1. Carried(x) \in AllTrees BY CarriedUnfolds
  <2>2. h \in Nat /\ h <= Nesting /\ k \in Nat /\ k <= 2 * h + 1 BY <1>2, <2>1, HeightInDart, HeightMeans
  <2> HIDE DEF h, k
  <2>3. k <= 2 * Nesting + 1 BY <2>2, NestingAssumption
  <2> QED BY <2>1, <2>3, HeightInWire DEF k
<1> QED BY <1>2, <1>3

\* A filter of so many levels gets through the codec and the parser as it is.
Travels(f, n) ==
  /\ f \in DartTrees /\ Height[f] <= n
  /\ FilterWire(f) \in DartTrees /\ Height[FilterWire(f)] <= 3 * n /\ IsDart(FilterWire(f))
  /\ Carried(f) # NoFilter
  /\ FilterWire(f) \in Storable => ParseFilter(Normal(FilterWire(f))) = Carried(f)

\* A comparison a builder of Dart accepts, over values of n levels and fewer.
Accepted(c, n) ==
  /\ DartAccepts(c) /\ c.op \in CompareOps
  /\ {c.value, c.upper} \subseteq Tree[n] /\ IsDart(c.value) /\ IsDart(c.upper)

LEMMA NotMissing == \A x \in DartTrees : IsDart(x) => x # Missing
<1> SUFFICES ASSUME Missing \in DartTrees, IsDart(Missing) PROVE FALSE OBVIOUS
<1>1. IsDartBy(DartOf, Missing) BY IsDartUnfolds
<1>2. Missing.t = "missing" BY InvalidHasType
<1> QED BY <1>1, <1>2, DartCases, ScalarsAreNoParts

LEMMA AcceptedParts ==
  ASSUME NEW n \in Nat, n <= Nesting, NEW c, Accepted(c, n)
  PROVE  /\ c.field \in Fields /\ c.field \in Texts /\ c.op \in Texts
         /\ c.value \in DartTrees /\ c.value \in AllTrees /\ Height[c.value] <= n /\ c.value # Missing
         /\ c.upper \in DartTrees /\ c.upper \in AllTrees /\ Height[c.upper] <= n /\ c.upper # Missing
<1>1. c.field \in Fields BY DEF Accepted, DartAccepts
<1>2. c.field \in Texts /\ c.op \in Texts BY <1>1, QueryTextsAreTexts DEF Accepted, QueryTexts
<1>3. ASSUME NEW v \in Tree[n] PROVE v \in DartTrees /\ v \in AllTrees /\ Height[v] <= n
  <2>1. v \in AllTrees BY <1>3 DEF AllTrees
  <2>2. v \in DartTrees BY NestingAssumption, TreeMonotonic DEF DartTrees
  <2> QED BY <2>1, <2>2, HeightMeans
<1>4. c.value \in Tree[n] /\ c.upper \in Tree[n] BY DEF Accepted
<1>5. c.value # Missing /\ c.upper # Missing BY <1>3, <1>4, NotMissing DEF Accepted
<1> QED BY <1>1, <1>2, <1>3, <1>4, <1>5

LEMMA ComparisonParts ==
  ASSUME NEW c
  PROVE  /\ Operand(Comparison(c), 1) = Str(c.field) /\ Operand(Comparison(c), 2) = c.value
         /\ Operand(Comparison(c), 3) = c.upper
<1> DEFINE g == Comparison(c)
           k == Str(c.field)
           v == c.value
           u == c.upper
           S == {k, v, u}
<1>1. g.items = <<k, v, u>> BY GroupMeans
<1>2. k \in S /\ v \in S /\ u \in S OBVIOUS
<1> HIDE DEF g, k, v, u, S
<1>3. DOMAIN g.items = {1, 2, 3} /\ g.items[1] = k /\ g.items[2] = v /\ g.items[3] = u
  BY <1>1, <1>2, ThreeIsSeq
<1>4. Operand(g, 1) = k /\ Operand(g, 2) = v /\ Operand(g, 3) = u BY <1>3 DEF Operand
<1> QED BY <1>4 DEF g, k, v, u

\* A comparison whose values have been over the codec.
CarriedComparison(c) ==
  [field |-> c.field, op |-> c.op, value |-> Normalize(ToWire(c.value)),
   upper |-> Normalize(ToWire(c.upper))]

LEMMA ComparisonCarried ==
  ASSUME NEW c, Comparison(c) \in DartTrees
  PROVE  Carried(Comparison(c)) = Comparison(CarriedComparison(c))
<1> DEFINE g == Comparison(c)
           d == CarriedComparison(c)
<1>1. g.t = "comparison" /\ g.s = c.op BY GroupMeans
<1>2. Operand(g, 1) = Str(c.field) /\ Operand(g, 2) = c.value /\ Operand(g, 3) = c.upper
  BY ComparisonParts
<1>3. d.field = c.field /\ d.op = c.op /\ d.value = Normalize(ToWire(c.value))
      /\ d.upper = Normalize(ToWire(c.upper))
  BY DEF CarriedComparison
<1> HIDE DEF g, d
<1>4. Comparison(d) = [t |-> "comparison", s |-> c.op,
                       items |-> <<Str(c.field), Normalize(ToWire(c.value)), Normalize(ToWire(c.upper))>>]
  BY <1>3 DEF Comparison
<1>5. Carried(g) = CarriedBy(CarriedOf, g) BY CarriedUnfolds DEF g
<1>6. CarriedBy(CarriedOf, g) =
        [t |-> "comparison", s |-> c.op,
         items |-> <<Str(c.field), Normalize(ToWire(c.value)), Normalize(ToWire(c.upper))>>]
  BY <1>1, <1>2 DEF CarriedBy
<1> QED BY <1>4, <1>5, <1>6 DEF g, d

LEMMA ComparisonTravels ==
  ASSUME NEW n \in Nat, n + 2 <= Nesting, NEW c, Accepted(c, n)
  PROVE  Travels(Comparison(c), n + 1)
<1> DEFINE f == Comparison(c)
           keys == <<"type", "field", "operator", "value", "upperValue">>
           a == Str("comparison")
           b == Str(c.field)
           o == Str(c.op)
           v == c.value
           u == c.upper
           vals == <<a, b, o, v, u>>
           m == MapOf(keys, vals)
<1>0. n <= Nesting /\ n + 1 \in Nat /\ n + 1 > 0 /\ (n + 1) + 1 <= Nesting /\ n + 1 <= Nesting
      /\ n < n + 1 /\ 0 < n + 1
  BY NestingAssumption
<1>1. /\ c.field \in Fields /\ c.field \in Texts /\ c.op \in Texts
      /\ v \in DartTrees /\ v \in AllTrees /\ Height[v] <= n /\ v # Missing
      /\ u \in DartTrees /\ u \in AllTrees /\ Height[u] <= n /\ u # Missing
  BY <1>0, AcceptedParts
<1>2. "comparison" \in Texts BY QueryTextsAreTexts DEF QueryTexts
<1>3. /\ a \in AllTrees /\ Height[a] = 0 /\ IsDart(a) /\ a # Missing
      /\ b \in AllTrees /\ Height[b] = 0 /\ IsDart(b) /\ b # Missing
      /\ o \in AllTrees /\ Height[o] = 0 /\ IsDart(o) /\ o # Missing
  BY <1>1, <1>2, TextIsDart
<1>4. IsDart(v) /\ IsDart(u) BY DEF Accepted
<1>5. Height[v] < n + 1 /\ Height[u] < n + 1
  <2> DEFINE h == Height[v]
             k == Height[u]
  <2>1. h \in Nat /\ k \in Nat /\ h <= n /\ k <= n BY <1>1, HeightMeans
  <2> HIDE DEF h, k
  <2>2. h < n + 1 /\ k < n + 1 BY <2>1
  <2> QED BY <2>2 DEF h, k
<1>6. f \in AllTrees /\ Height[f] <= n + 1 BY <1>0, <1>1, <1>5, ComparisonIsTree
<1>7. f \in DartTrees
  <2> DEFINE h == Height[f]
  <2>1. h \in Nat /\ h <= n + 1 BY <1>6, HeightMeans
  <2> HIDE DEF h
  <2>2. h <= Nesting BY <1>0, <2>1, NestingAssumption
  <2> QED BY <1>6, <2>2, InDart DEF h
<1>8. FilterWire(f) = m
  <2>1. FilterWire(f) = FilterWireBy(FilterWireOf, f) BY <1>7, FilterWireUnfolds
  <2>2. f.t = "comparison" /\ f.s = c.op BY GroupMeans
  <2>3. Operand(f, 1) = b /\ Operand(f, 2) = v /\ Operand(f, 3) = u BY ComparisonParts
  <2> HIDE DEF f, keys
  <2> QED BY <2>1, <2>2, <2>3 DEF FilterWireBy, keys
<1>9. keys \in Seq(Texts) /\ Len(keys) = 5 /\ DOMAIN keys = {1, 2, 3, 4, 5}
      /\ keys[1] = "type" /\ keys[2] = "field" /\ keys[3] = "operator" /\ keys[4] = "value"
      /\ keys[5] = "upperValue"
  BY WireKeys
<1> HIDE DEF a, b, o, v, u
<1>10. vals \in Seq(AllTrees) /\ Len(vals) = 5 /\ DOMAIN vals = {1, 2, 3, 4, 5}
       /\ vals[1] = a /\ vals[2] = b /\ vals[3] = o /\ vals[4] = v /\ vals[5] = u
  BY <1>1, <1>3, FiveIsSeq
<1> HIDE DEF keys, vals, f
<1>11. \A i \in DOMAIN vals : Height[vals[i]] < n + 1 BY <1>0, <1>3, <1>5, <1>10
<1>12. \A i, j \in DOMAIN keys : keys[i] = keys[j] => i = j BY <1>9
<1>13. \A i \in DOMAIN vals : IsDart(vals[i]) /\ vals[i] # Missing BY <1>1, <1>3, <1>4, <1>10
<1>14. m \in DartTrees /\ IsDart(m) BY <1>0, <1>9, <1>10, <1>11, <1>12, <1>13, MapOfIsDart
<1>15. Height[m] <= 3 * (n + 1)
  <2> DEFINE h == Height[m]
  <2>1. h \in Nat /\ h <= (n + 1) + 1 BY <1>0, <1>9, <1>10, <1>11, MapOfMeans
  <2> HIDE DEF h
  <2>2. h <= 3 * (n + 1) BY <2>1
  <2> QED BY <2>2 DEF h
<1>16. Carried(f) = Comparison(CarriedComparison(c)) BY <1>7, ComparisonCarried DEF f
<1>17. Carried(f) # NoFilter BY <1>16, GroupMeans DEF NoFilter
<1>18. ASSUME m \in Storable PROVE ParseFilter(Normal(m)) = Carried(f)
  <2> DEFINE w == Normal(m)
  <2>1. w \in WireTrees
    <3>1. w = Normalize(ToWire(m)) BY <1>18, NormalOfStored
    <3>2. ToWire(m) \in WireTrees BY <1>18, StoredCases
    <3> QED BY <3>1, <3>2, NormalizeInWire
  <2>2. \A i \in DOMAIN keys :
          /\ vals[i] \in Storable /\ Field(w, keys[i]) = Normal(vals[i])
          /\ vals[i].t \in Scalars => Field(w, keys[i]) = vals[i]
    BY <1>0, <1>9, <1>10, <1>11, <1>12, <1>13, <1>18, MemberOfMap
  <2>3. a.t = "str" /\ b.t = "str" /\ o.t = "str" /\ "str" \in Scalars
        /\ a.s = "comparison" /\ b.s = c.field /\ o.s = c.op
    BY StrMeans DEF a, b, o, Scalars
  <2> HIDE DEF w, m
  <2>4. Field(w, "type") = a /\ Field(w, "field") = b /\ Field(w, "operator") = o
        /\ Field(w, "value") = Normal(v) /\ Field(w, "upperValue") = Normal(u)
        /\ v \in Storable /\ u \in Storable
    BY <1>9, <1>10, <2>2, <2>3
  <2>5. Text(w, "type") = "comparison" /\ Text(w, "field") = c.field /\ Text(w, "operator") = c.op
    BY <2>3, <2>4 DEF Text
  <2>6. Normal(v) = Normalize(ToWire(v)) /\ Normal(u) = Normalize(ToWire(u)) /\ Normal(u) # Missing
    BY <2>4, NormalOfStored
  <2>7. ComparisonOf(w) =
          Comparison([field |-> c.field, op |-> c.op, value |-> Field(w, "value"),
                      upper |-> Field(w, "upperValue")])
    <3>1. c.op \in CompareOps BY DEF Accepted
    <3> QED BY <1>1, <2>4, <2>5, <2>6, <3>1 DEF ComparisonOf
  <2>8. ComparisonOf(w) = Comparison(CarriedComparison(c))
    BY <2>4, <2>6, <2>7 DEF CarriedComparison, u, v
  <2>9. ParseFilter(w) = ComparisonOf(w) BY <2>1, <2>5, ParseFilterUnfolds DEF ParseFilterBy
  <2> QED BY <1>16, <2>8, <2>9 DEF w
<1> HIDE DEF m
<1> QED BY <1>6, <1>7, <1>8, <1>14, <1>15, <1>17, <1>18 DEF Travels, f

LEMMA ListIsDart ==
  ASSUME NEW ws \in Seq(DartTrees), \A i \in DOMAIN ws : IsDart(ws[i]),
         NEW n \in Nat, n <= Nesting, \A i \in DOMAIN ws : Height[ws[i]] < n
  PROVE  /\ Node("list", ws) \in DartTrees /\ IsDart(Node("list", ws))
         /\ Node("list", ws) \in AllTrees /\ Height[Node("list", ws)] <= n
         /\ Node("list", ws) # Missing
<1> DEFINE x == Node("list", ws)
<1>0. x.t = "list" /\ x.s = "" /\ x.items = ws BY NodeMeans
<1>1. ws \in Seq(AllTrees)
  <2>1. \A i \in DOMAIN ws : ws[i] \in AllTrees BY SeqParts, HeightInDart
  <2>2. ws = [i \in DOMAIN ws |-> ws[i]] BY LenProperties
  <2> QED BY <2>1, <2>2, SeqOnPlaces
<1>2. x \in AllTrees /\ Height[x] <= n /\ Height[x] \in Nat BY <1>1, NodeHeight DEF Types
<1> HIDE DEF x
<1>3. x \in DartTrees
  <2> DEFINE h == Height[x]
  <2>1. h \in Nat /\ h <= n BY <1>2
  <2> HIDE DEF h
  <2>2. h <= Nesting BY <2>1, NestingAssumption
  <2> QED BY <1>2, <2>2, InDart DEF h
<1>4. IsDart(x)
  <2>1. \A i \in DOMAIN ws : DartOf[ws[i]]
    <3> TAKE i \in DOMAIN ws
    <3>1. ws[i] \in DartTrees BY SeqParts
    <3> QED BY <3>1, IsDartUnfolds
  <2>2. IsDartBy(DartOf, x) = (x.s = "" /\ \A i \in DOMAIN x.items : DartOf[x.items[i]])
    BY <1>0, DartCases
  <2>3. IsDart(x) = IsDartBy(DartOf, x) BY <1>3, IsDartUnfolds
  <2> QED BY <1>0, <2>1, <2>2, <2>3
<1>5. x # Missing BY <1>0, InvalidHasType
<1> QED BY <1>2, <1>3, <1>4, <1>5 DEF x

LEMMA GroupCarried ==
  ASSUME NEW op, NEW fs \in Seq(DartTrees), Group(op, fs) \in DartTrees
  PROVE  /\ Carried(Group(op, fs)) = Group(op, Each(CarriedOf, fs))
         /\ Each(CarriedOf, fs) \in Seq(WireTrees) /\ Len(Each(CarriedOf, fs)) = Len(fs)
         /\ DOMAIN Each(CarriedOf, fs) = DOMAIN fs
         /\ \A i \in DOMAIN fs : Each(CarriedOf, fs)[i] = Carried(fs[i])
<1> DEFINE g == Group(op, fs)
<1>1. g.t = "group" /\ g.s = op /\ g.items = fs BY GroupMeans
<1>2. Carried(g) = CarriedBy(CarriedOf, g) BY CarriedUnfolds
<1> HIDE DEF g
<1>3. CarriedBy(CarriedOf, g) = Group(op, Each(CarriedOf, fs)) BY <1>1 DEF CarriedBy
<1>4. \A y \in DartTrees : CarriedOf[y] = Carried(y) /\ CarriedOf[y] \in WireTrees
  BY CarriedUnfolds, CarriedHeight
<1>5. /\ Each(CarriedOf, fs) \in Seq(WireTrees) /\ DOMAIN Each(CarriedOf, fs) = DOMAIN fs
      /\ Len(Each(CarriedOf, fs)) = Len(fs)
      /\ \A i \in DOMAIN fs : Each(CarriedOf, fs)[i] = CarriedOf[fs[i]]
  <2>1. \A y \in DartTrees : CarriedOf[y] \in WireTrees BY <1>4
  <2> QED BY <2>1, EachIs
<1>6. \A i \in DOMAIN fs : Each(CarriedOf, fs)[i] = Carried(fs[i]) BY <1>4, <1>5, SeqParts
<1> QED BY <1>2, <1>3, <1>5, <1>6 DEF g

LEMMA GroupTravels ==
  ASSUME NEW n \in Nat, 3 * n + 3 <= Nesting, NEW op \in {"and", "or"}, NEW fs \in Seq(DartTrees),
         fs # <<>>, \A i \in DOMAIN fs : Travels(fs[i], n)
  PROVE  Travels(Group(op, fs), n + 1)
<1> DEFINE f == Group(op, fs)
           ws == Each(FilterWireOf, fs)
           keys == <<"type", "operator", "filters">>
           a == Str("group")
           b == Str(op)
           l == Node("list", ws)
           vals == <<a, b, l>>
           m == MapOf(keys, vals)
           k == 3 * n + 2
<1>0. k \in Nat /\ k > 0 /\ k + 1 <= Nesting /\ n + 1 \in Nat /\ 3 * n + 1 \in Nat /\ 3 * n + 1 <= Nesting
      /\ n + 1 <= Nesting /\ 0 < k
  BY NestingAssumption
<1>1. op \in Texts /\ "group" \in Texts BY QueryTextsAreTexts DEF QueryTexts
<1>2. \A i \in DOMAIN fs : /\ fs[i] \in DartTrees /\ Height[fs[i]] <= n /\ FilterWire(fs[i]) \in DartTrees
                           /\ Height[FilterWire(fs[i])] <= 3 * n /\ IsDart(FilterWire(fs[i]))
                           /\ Carried(fs[i]) # NoFilter
  BY DEF Travels
<1>3. f \in AllTrees /\ Height[f] <= n + 1
  <2>1. ASSUME NEW i \in DOMAIN fs PROVE fs[i] \in AllTrees /\ Height[fs[i]] < n + 1
    <3> DEFINE h == Height[fs[i]]
    <3>1. h \in Nat /\ h <= n /\ fs[i] \in AllTrees BY <1>2, HeightInDart
    <3> HIDE DEF h
    <3>2. h < n + 1 BY <3>1
    <3> QED BY <3>1, <3>2 DEF h
  <2>2. fs \in Seq(AllTrees)
    <3>1. fs = [i \in DOMAIN fs |-> fs[i]] BY LenProperties
    <3> QED BY <2>1, <3>1, SeqOnPlaces
  <2> QED BY <1>0, <1>1, <2>1, <2>2, GroupIsTree
<1>4. f \in DartTrees
  <2> DEFINE h == Height[f]
  <2>1. h \in Nat /\ h <= n + 1 BY <1>3, HeightMeans
  <2> HIDE DEF h
  <2>2. h <= Nesting BY <1>0, <2>1, NestingAssumption
  <2> QED BY <1>3, <2>2, InDart DEF h
<1>5. /\ ws \in Seq(DartTrees) /\ DOMAIN ws = DOMAIN fs
      /\ \A i \in DOMAIN fs : ws[i] = FilterWire(fs[i])
  <2>1. DOMAIN ws = DOMAIN fs /\ ws = [i \in DOMAIN ws |-> ws[i]] BY DEF Each
  <2>2. \A i \in DOMAIN fs : ws[i] = FilterWire(fs[i]) BY <1>2, FilterWireUnfolds DEF Each
  <2> HIDE DEF ws
  <2> QED BY <1>2, <2>1, <2>2, SeqOnPlaces
<1> HIDE DEF ws
<1>6. /\ l \in DartTrees /\ IsDart(l) /\ l \in AllTrees /\ Height[l] <= 3 * n + 1 /\ l # Missing
  <2>1. ASSUME NEW i \in DOMAIN ws PROVE IsDart(ws[i]) /\ Height[ws[i]] < 3 * n + 1
    <3> DEFINE h == Height[ws[i]]
    <3>1. ws[i] \in DartTrees /\ IsDart(ws[i]) /\ h <= 3 * n BY <1>2, <1>5
    <3>2. h \in Nat BY <3>1, HeightInDart
    <3> HIDE DEF h
    <3>3. h < 3 * n + 1 BY <3>1, <3>2
    <3> QED BY <3>1, <3>3 DEF h
  <2> QED BY <1>0, <1>5, <2>1, ListIsDart
<1>7. /\ a \in AllTrees /\ Height[a] = 0 /\ IsDart(a) /\ a # Missing
      /\ b \in AllTrees /\ Height[b] = 0 /\ IsDart(b) /\ b # Missing
  BY <1>1, TextIsDart
<1>8. Height[l] < k
  <2> DEFINE h == Height[l]
  <2>1. h \in Nat /\ h <= 3 * n + 1 BY <1>6, HeightMeans
  <2> HIDE DEF h
  <2>2. h < 3 * n + 2 BY <2>1
  <2> QED BY <2>2 DEF h
<1>9. FilterWire(f) = m
  <2>1. FilterWire(f) = FilterWireBy(FilterWireOf, f) BY <1>4, FilterWireUnfolds
  <2>2. f.t = "group" /\ f.s = op /\ f.items = fs BY GroupMeans
  <2> HIDE DEF f, keys
  <2> QED BY <2>1, <2>2 DEF FilterWireBy, keys, ws
<1>10. keys \in Seq(Texts) /\ Len(keys) = 3 /\ DOMAIN keys = {1, 2, 3}
       /\ keys[1] = "type" /\ keys[2] = "operator" /\ keys[3] = "filters"
  BY WireKeys
<1>11. a.t = "str" /\ b.t = "str" /\ "str" \in Scalars /\ a.s = "group" /\ b.s = op /\ l.t = "list"
       /\ l.items = ws
  <2>1. a.t = "str" /\ b.t = "str" /\ a.s = "group" /\ b.s = op BY StrMeans
  <2>2. l.t = "list" /\ l.items = ws BY NodeMeans
  <2> QED BY <2>1, <2>2 DEF Scalars
<1> HIDE DEF a, b, l
<1>12. vals \in Seq(AllTrees) /\ Len(vals) = 3 /\ DOMAIN vals = {1, 2, 3}
       /\ vals[1] = a /\ vals[2] = b /\ vals[3] = l
  BY <1>6, <1>7, ThreeIsSeq
<1> HIDE DEF keys, vals, f, k
<1>13. \A i \in DOMAIN vals : Height[vals[i]] < k BY <1>0, <1>7, <1>8, <1>12
<1>14. \A i, j \in DOMAIN keys : keys[i] = keys[j] => i = j BY <1>10
<1>15. \A i \in DOMAIN vals : IsDart(vals[i]) /\ vals[i] # Missing BY <1>6, <1>7, <1>12
<1>16. m \in DartTrees /\ IsDart(m) BY <1>0, <1>10, <1>12, <1>13, <1>14, <1>15, MapOfIsDart
<1>17. Height[m] <= 3 * (n + 1)
  <2> DEFINE h == Height[m]
  <2>1. h \in Nat /\ h <= k + 1 BY <1>0, <1>10, <1>12, <1>13, MapOfMeans
  <2> HIDE DEF h
  <2>2. h <= 3 * (n + 1) BY <2>1 DEF k
  <2> QED BY <2>2 DEF h
<1> DEFINE cs == Each(CarriedOf, fs)
<1>18. /\ Carried(f) = Group(op, cs) /\ DOMAIN cs = DOMAIN fs /\ Len(cs) = Len(fs)
       /\ \A i \in DOMAIN fs : cs[i] = Carried(fs[i])
       /\ cs = [i \in DOMAIN fs |-> cs[i]]
  <2>1. cs = [i \in DOMAIN fs |-> cs[i]] BY DEF Each
  <2> QED BY <1>4, <2>1, GroupCarried DEF f
<1> HIDE DEF cs
<1>19. cs # <<>>
  <2>1. Len(fs) # 0 BY EmptySeq
  <2> QED BY <1>18, <2>1
<1>20. Carried(f) # NoFilter
  <2>1. op # "none" OBVIOUS
  <2> QED BY <1>18, <2>1, GroupMeans DEF NoFilter
<1>21. ASSUME m \in Storable PROVE ParseFilter(Normal(m)) = Carried(f)
  <2> DEFINE w == Normal(m)
  <2>1. w \in WireTrees
    <3>1. w = Normalize(ToWire(m)) BY <1>21, NormalOfStored
    <3>2. ToWire(m) \in WireTrees BY <1>21, StoredCases
    <3> QED BY <3>1, <3>2, NormalizeInWire
  <2>2. \A i \in DOMAIN keys :
          /\ vals[i] \in Storable /\ Field(w, keys[i]) = Normal(vals[i])
          /\ vals[i].t \in Scalars => Field(w, keys[i]) = vals[i]
    BY <1>0, <1>10, <1>12, <1>13, <1>14, <1>15, <1>21, MemberOfMap
  <2> HIDE DEF w, m
  <2>3. Field(w, "type") = a /\ Field(w, "operator") = b /\ Field(w, "filters") = Normal(l)
        /\ l \in Storable
    BY <1>10, <1>11, <1>12, <2>2
  <2>4. Text(w, "type") = "group" /\ Text(w, "operator") = op BY <1>11, <2>3 DEF Text
  <2> DEFINE ns == Normal(l).items
             ps == Each(ParseOf, ns)
  <2>5. /\ Normal(l).t = "arr" /\ DOMAIN ns = DOMAIN ws
        /\ \A i \in DOMAIN ws : ns[i] = Normal(ws[i]) /\ ws[i] \in Storable
    <3>1. l.items \in Seq(Storable) BY <1>11, <2>3, StoredCases
    <3> QED BY <1>11, <2>3, <3>1, NormalOfStored, SeqParts
  <2>6. \A i \in DOMAIN fs : ParseOf[ns[i]] = cs[i]
    <3> TAKE i \in DOMAIN fs
    <3>1. ns[i] = Normal(FilterWire(fs[i])) /\ FilterWire(fs[i]) \in Storable BY <1>5, <2>5
    <3>2. ParseFilter(ns[i]) = cs[i] BY <1>18, <3>1 DEF Travels
    <3>3. ns[i] \in WireTrees
      <4> DEFINE x == FilterWire(fs[i])
      <4>1. Normal(x) = Normalize(ToWire(x)) /\ ToWire(x) \in WireTrees
        BY <3>1, NormalOfStored, StoredCases
      <4> QED BY <3>1, <4>1, NormalizeInWire
    <3> QED BY <3>2, <3>3, ParseFilterUnfolds
  <2>7. ps = cs
    <3>1. ps = [i \in DOMAIN fs |-> ParseOf[ns[i]]] BY <1>5, <2>5 DEF Each
    <3> HIDE DEF ps, ns
    <3>2. [i \in DOMAIN fs |-> ParseOf[ns[i]]] = [i \in DOMAIN fs |-> cs[i]] BY <2>6
    <3> QED BY <1>18, <3>1, <3>2
  <2>8. \A i \in DOMAIN cs : cs[i] # NoFilter BY <1>2, <1>18
  <2>9. GroupOf(w, cs) = Group(op, cs) BY <1>19, <2>3, <2>4, <2>5, <2>8 DEF GroupOf
  <2>10. ParseFilter(w) = GroupOf(w, ps) BY <2>1, <2>3, <2>4, ParseFilterUnfolds DEF ParseFilterBy
  <2> HIDE DEF ps
  <2> QED BY <1>18, <2>7, <2>9, <2>10 DEF w
<1> HIDE DEF m
<1> QED BY <1>3, <1>4, <1>9, <1>16, <1>17, <1>20, <1>21 DEF Travels, f

-----------------------------------------------------------------------------
(* The rest of a query: its sorts and its page.                            *)

SortsOf == [field : Fields, direction : {"ascending", "descending"}, nulls : {"first", "last"}]

LEMMA SortTravels ==
  ASSUME 2 <= Nesting, NEW s \in SortsOf
  PROVE  /\ SortWire(s) \in DartTrees /\ IsDart(SortWire(s)) /\ Height[SortWire(s)] <= 2
         /\ SortWire(s) \in Storable =>
              GoodSort(Normal(SortWire(s))) /\ ParseSort(Normal(SortWire(s))) = s
<1> DEFINE keys == <<"field", "direction", "nulls">>
           a == Str(s.field)
           b == Str(s.direction)
           c == Str(s.nulls)
           vals == <<a, b, c>>
           m == MapOf(keys, vals)
<1>0. 1 \in Nat /\ 1 > 0 /\ 1 + 1 <= Nesting /\ 1 + 1 = 2 OBVIOUS
<1>1. /\ s.field \in Fields /\ s.direction \in {"ascending", "descending"} /\ s.nulls \in {"first", "last"}
      /\ s = [field |-> s.field, direction |-> s.direction, nulls |-> s.nulls]
  BY DEF SortsOf
<1>2. s.field \in Texts /\ s.direction \in Texts /\ s.nulls \in Texts
  BY <1>1, QueryTextsAreTexts DEF QueryTexts
<1>3. /\ a \in AllTrees /\ Height[a] = 0 /\ IsDart(a) /\ a # Missing
      /\ b \in AllTrees /\ Height[b] = 0 /\ IsDart(b) /\ b # Missing
      /\ c \in AllTrees /\ Height[c] = 0 /\ IsDart(c) /\ c # Missing
  BY <1>2, TextIsDart
<1>4. a.t = "str" /\ b.t = "str" /\ c.t = "str" /\ "str" \in Scalars
      /\ a.s = s.field /\ b.s = s.direction /\ c.s = s.nulls
  BY StrMeans DEF Scalars
<1>5. SortWire(s) = m BY DEF SortWire
<1>6. keys \in Seq(Texts) /\ Len(keys) = 3 /\ DOMAIN keys = {1, 2, 3}
      /\ keys[1] = "field" /\ keys[2] = "direction" /\ keys[3] = "nulls"
  BY WireKeys
<1> HIDE DEF a, b, c
<1>7. vals \in Seq(AllTrees) /\ Len(vals) = 3 /\ DOMAIN vals = {1, 2, 3}
      /\ vals[1] = a /\ vals[2] = b /\ vals[3] = c
  BY <1>3, ThreeIsSeq
<1> HIDE DEF keys, vals
<1>8. \A i \in DOMAIN vals : Height[vals[i]] < 1 BY <1>3, <1>7
<1>9. \A i, j \in DOMAIN keys : keys[i] = keys[j] => i = j BY <1>6
<1>10. \A i \in DOMAIN vals : IsDart(vals[i]) /\ vals[i] # Missing BY <1>3, <1>7
<1>11. m \in DartTrees /\ IsDart(m) BY <1>0, <1>6, <1>7, <1>8, <1>9, <1>10, MapOfIsDart
<1>12. Height[m] <= 1 + 1 BY <1>0, <1>6, <1>7, <1>8, MapOfMeans
<1>13. ASSUME m \in Storable PROVE GoodSort(Normal(m)) /\ ParseSort(Normal(m)) = s
  <2> DEFINE w == Normal(m)
  <2>1. \A i \in DOMAIN keys :
          /\ vals[i] \in Storable /\ Field(w, keys[i]) = Normal(vals[i])
          /\ vals[i].t \in Scalars => Field(w, keys[i]) = vals[i]
    BY <1>0, <1>6, <1>7, <1>8, <1>9, <1>10, <1>13, MemberOfMap
  <2> HIDE DEF w, m
  <2>2. Field(w, "field") = a /\ Field(w, "direction") = b /\ Field(w, "nulls") = c
    BY <1>4, <1>6, <1>7, <2>1
  <2>3. Text(w, "field") = s.field /\ Text(w, "direction") = s.direction /\ Text(w, "nulls") = s.nulls
    BY <1>4, <2>2 DEF Text
  <2>4. GoodSort(w) BY <1>1, <2>3 DEF GoodSort
  <2>5. ParseSort(w) = s BY <1>1, <2>3 DEF ParseSort
  <2> QED BY <2>4, <2>5 DEF w
<1> HIDE DEF m
<1> QED BY <1>0, <1>5, <1>11, <1>12, <1>13

LEMMA SizesDiffer ==
  /\ \A m, n \in DOMAIN Numerals : Int_(m) = Int_(n) => m = n
  /\ \A n \in DOMAIN Numerals : Int_(n) \notin {Missing, Nil} /\ Int_(n).t = "int"
  /\ 0 \in Sizes /\ Sizes \subseteq Nat /\ Sizes \subseteq DOMAIN Numerals
<1>1. \A m, n \in DOMAIN Numerals : Int_(m) = Int_(n) => Numerals[m] = Numerals[n] BY DEF Int_, Leaf
<1>2. \A n \in DOMAIN Numerals : Int_(n).t = "int" BY DEF Int_, Leaf
<1>3. Missing.t = "missing" /\ Nil.t = "nil" BY DEF Missing, Nil, Leaf
<1>4. Sizes \subseteq Nat /\ 0 \in Sizes /\ Sizes \subseteq DOMAIN Numerals
  BY NumeralsAssumption DEF Sizes
<1> QED BY <1>1, <1>2, <1>3, <1>4, NumeralsAssumption

LEMMA SizeIsRead ==
  ASSUME NEW w, NEW key, NEW none
  PROVE  /\ Field(w, key) \in {Missing, Nil} => ~BadNumber(w, key) /\ NumberOr(w, key, none) = none
         /\ \A n \in Sizes : Field(w, key) = Int_(n) =>
              ~BadNumber(w, key) /\ NumberOr(w, key, none) = n
<1>1. ASSUME Field(w, key) \in {Missing, Nil}
      PROVE  ~BadNumber(w, key) /\ NumberOr(w, key, none) = none
  BY <1>1 DEF BadNumber, NumberOr
<1>2. ASSUME NEW n \in Sizes, Field(w, key) = Int_(n)
      PROVE  ~BadNumber(w, key) /\ NumberOr(w, key, none) = n
  <2>1. Field(w, key) \notin {Missing, Nil} BY <1>2, SizesDiffer
  <2>2. ~BadNumber(w, key) BY <1>2, <2>1 DEF BadNumber
  <2>3. \A m \in Sizes : Field(w, key) = Int_(m) => m = n BY <1>2, SizesDiffer
  <2>4. (CHOOSE m \in Sizes : Field(w, key) = Int_(m)) = n BY <1>2, <2>3
  <2>5. NumberOr(w, key, none) = n BY <2>1, <2>4 DEF NumberOr
  <2> QED BY <2>2, <2>5
<1> QED BY <1>1, <1>2

\* A query as a builder of Dart leaves it, with a filter of n levels.
Buildable(q, n) ==
  /\ q = Spec_(q.where, q.sortBy, q.limit, q.offset)
  /\ Travels(q.where, n)
  /\ q.sortBy \in Seq(SortsOf)
  /\ q.limit = NoLimit \/ (q.limit \in Sizes /\ q.limit > 0)
  /\ q.offset \in Sizes

LEMMA QueryTravels ==
  ASSUME NEW n \in Nat, n > 0, 3 * n + 2 <= Nesting, NEW q, Buildable(q, n),
         ToWire(QueryWire(q)) # Invalid
  PROVE  /\ Normalize(ToWire(QueryWire(q))) \in WireTrees
         /\ DecodeQuery(Normalize(ToWire(QueryWire(q)))) = [q EXCEPT !.where = Carried(@)]
<1> DEFINE keys == <<"where", "sortBy", "limit", "offset">>
           ss == [i \in DOMAIN q.sortBy |-> SortWire(q.sortBy[i])]
           a == FilterWire(q.where)
           b == Node("list", ss)
           c == IF q.limit = NoLimit THEN Nil ELSE Int_(q.limit)
           d == Int_(q.offset)
           vals == <<a, b, c, d>>
           m == MapOf(keys, vals)
           k == 3 * n + 1
<1>0. /\ k \in Nat /\ k > 0 /\ k + 1 <= Nesting /\ 3 \in Nat /\ 3 <= Nesting /\ 2 <= Nesting /\ 3 < k
      /\ 3 * n < k /\ 0 < k
  BY NestingAssumption
<1>1. /\ q.where \in DartTrees /\ a \in DartTrees /\ a \in AllTrees /\ Height[a] <= 3 * n /\ IsDart(a)
      /\ a # Missing /\ Carried(q.where) # NoFilter
      /\ a \in Storable => ParseFilter(Normal(a)) = Carried(q.where)
  BY NotMissing, HeightInDart DEF Buildable, Travels
<1>2. /\ DOMAIN ss = DOMAIN q.sortBy /\ ss = [i \in DOMAIN ss |-> ss[i]]
      /\ \A i \in DOMAIN q.sortBy : q.sortBy[i] \in SortsOf /\ ss[i] = SortWire(q.sortBy[i])
  BY SeqParts DEF Buildable
<1> HIDE DEF ss
<1>3. ss \in Seq(DartTrees) /\ \A i \in DOMAIN ss : IsDart(ss[i]) /\ Height[ss[i]] < 3
  <2>1. ASSUME NEW i \in DOMAIN ss PROVE ss[i] \in DartTrees /\ IsDart(ss[i]) /\ Height[ss[i]] < 3
    <3> DEFINE h == Height[ss[i]]
    <3>1. ss[i] \in DartTrees /\ IsDart(ss[i]) /\ h <= 2 BY <1>0, <1>2, SortTravels
    <3>2. h \in Nat BY <3>1, HeightInDart
    <3> HIDE DEF h
    <3>3. h < 3 BY <3>1, <3>2
    <3> QED BY <3>1, <3>3 DEF h
  <2>2. q.sortBy \in Seq(SortsOf) BY DEF Buildable
  <2> QED BY <1>2, <2>1, <2>2, SeqOnPlaces
<1>4. b \in DartTrees /\ IsDart(b) /\ b \in AllTrees /\ Height[b] <= 3 /\ b # Missing
  BY <1>0, <1>3, ListIsDart
<1>5. /\ c \in AllTrees /\ Height[c] = 0 /\ IsDart(c) /\ c # Missing /\ c.t \in Scalars
  <2>1. Nil \in AllTrees /\ Height[Nil] = 0 /\ IsDart(Nil) /\ Nil # Missing /\ Nil.t \in Scalars
    <3>1. "nil" \in Scalars /\ "" \in Texts BY OwnTextsAreTexts DEF Scalars, OwnTexts
    <3> QED BY <3>1, ScalarIsDart, NilHeight DEF Nil
  <2>2. ASSUME NEW i \in Sizes
        PROVE  /\ Int_(i) \in AllTrees /\ Height[Int_(i)] = 0 /\ IsDart(Int_(i)) /\ Int_(i) # Missing
               /\ Int_(i).t \in Scalars
    <3>1. Numerals[i] \in Texts /\ "int" \in Scalars BY SizesDiffer, NumeralsAssumption DEF Scalars
    <3> QED BY <3>1, ScalarIsDart DEF Int_
  <2> QED BY <2>1, <2>2 DEF Buildable
<1>6. /\ d \in AllTrees /\ Height[d] = 0 /\ IsDart(d) /\ d # Missing /\ d.t \in Scalars
  <2>1. Numerals[q.offset] \in Texts /\ "int" \in Scalars
    BY SizesDiffer, NumeralsAssumption DEF Scalars, Buildable
  <2> QED BY <2>1, ScalarIsDart DEF Int_
<1>7. Height[a] < k /\ Height[b] < k
  <2> DEFINE h == Height[a]
             j == Height[b]
  <2>1. h \in Nat /\ j \in Nat /\ h <= 3 * n /\ j <= 3 BY <1>1, <1>4, HeightMeans
  <2> HIDE DEF h, j, a, b
  <2>2. h < k /\ j < k BY <1>0, <2>1
  <2> QED BY <2>2 DEF h, j
<1>8. QueryWire(q) = m BY DEF QueryWire, ss
<1>9. keys \in Seq(Texts) /\ Len(keys) = 4 /\ DOMAIN keys = {1, 2, 3, 4}
      /\ keys[1] = "where" /\ keys[2] = "sortBy" /\ keys[3] = "limit" /\ keys[4] = "offset"
  BY WireKeys
<1>10. b.t = "list" /\ b.items = ss BY NodeMeans
<1> HIDE DEF a, b, c, d
<1>11. vals \in Seq(AllTrees) /\ Len(vals) = 4 /\ DOMAIN vals = {1, 2, 3, 4}
       /\ vals[1] = a /\ vals[2] = b /\ vals[3] = c /\ vals[4] = d
  BY <1>1, <1>4, <1>5, <1>6, FourIsSeq
<1> HIDE DEF keys, vals, k
<1>12. \A i \in DOMAIN vals : Height[vals[i]] < k BY <1>0, <1>5, <1>6, <1>7, <1>11
<1>13. \A i, j \in DOMAIN keys : keys[i] = keys[j] => i = j BY <1>9
<1>14. \A i \in DOMAIN vals : IsDart(vals[i]) /\ vals[i] # Missing BY <1>1, <1>4, <1>5, <1>6, <1>11
<1>15. m \in Storable
  <2>1. m \in DartTrees /\ IsDart(m) BY <1>0, <1>9, <1>11, <1>12, <1>13, <1>14, MapOfIsDart
  <2> QED BY <1>8, <2>1 DEF Storable
<1> DEFINE w == Normal(m)
<1>16. w = Normalize(ToWire(QueryWire(q))) BY <1>8, <1>15, NormalOfStored
<1> DEFINE r == Normalize(ToWire(QueryWire(q)))
<1>26. r \in WireTrees
  <2>1. ToWire(m) \in WireTrees BY <1>15, StoredCases
  <2> QED BY <1>8, <2>1, NormalizeInWire
<1> HIDE DEF r
<1>17. \A i \in DOMAIN keys :
         /\ vals[i] \in Storable /\ Field(w, keys[i]) = Normal(vals[i])
         /\ vals[i].t \in Scalars => Field(w, keys[i]) = vals[i]
  BY <1>0, <1>9, <1>11, <1>12, <1>13, <1>14, <1>15, MemberOfMap
<1> HIDE DEF w, m
<1>18. /\ Field(w, "where") = Normal(a) /\ a \in Storable /\ Field(w, "sortBy") = Normal(b)
       /\ b \in Storable /\ Field(w, "limit") = c /\ Field(w, "offset") = d
  BY <1>5, <1>6, <1>9, <1>11, <1>17
<1>19. ParseFilter(Field(w, "where")) = Carried(q.where) /\ Carried(q.where) # NoFilter
  BY <1>1, <1>18
<1> DEFINE sortBy == Field(w, "sortBy")
<1>20. /\ sortBy.t = "arr" /\ DOMAIN sortBy.items = DOMAIN q.sortBy
       /\ \A i \in DOMAIN q.sortBy :
            GoodSort(sortBy.items[i]) /\ ParseSort(sortBy.items[i]) = q.sortBy[i]
  <2>1. b.items \in Seq(Storable) BY <1>10, <1>18, StoredCases
  <2>2. /\ sortBy.t = "arr" /\ DOMAIN sortBy.items = DOMAIN ss
        /\ \A i \in DOMAIN ss : sortBy.items[i] = Normal(ss[i])
    BY <1>10, <1>18, NormalOfStored
  <2>3. ASSUME NEW i \in DOMAIN q.sortBy
        PROVE  GoodSort(sortBy.items[i]) /\ ParseSort(sortBy.items[i]) = q.sortBy[i]
    <3>1. ss[i] \in Storable BY <1>2, <1>10, <2>1, SeqParts
    <3>2. sortBy.items[i] = Normal(SortWire(q.sortBy[i])) /\ SortWire(q.sortBy[i]) \in Storable
          /\ q.sortBy[i] \in SortsOf
      BY <1>2, <2>2, <3>1
    <3> QED BY <1>0, <3>2, SortTravels
  <2> QED BY <1>2, <2>2, <2>3
<1>21. [i \in DOMAIN sortBy.items |-> ParseSort(sortBy.items[i])] = q.sortBy
  <2>1. q.sortBy = [i \in DOMAIN q.sortBy |-> q.sortBy[i]] BY LenProperties DEF Buildable
  <2> HIDE DEF sortBy
  <2>2. [i \in DOMAIN sortBy.items |-> ParseSort(sortBy.items[i])]
          = [i \in DOMAIN q.sortBy |-> q.sortBy[i]]
    BY <1>20
  <2> QED BY <2>1, <2>2
<1>22. ~BadNumber(w, "limit") /\ NumberOr(w, "limit", NoLimit) = q.limit /\ Field(w, "limit") # Int_(0)
  <2>1. CASE q.limit = NoLimit
    <3>1. Field(w, "limit") = Nil BY <1>18, <2>1 DEF c
    <3> QED BY <2>1, <3>1, SizeIsRead, SizesDiffer
  <2>2. CASE q.limit # NoLimit
    <3>1. Field(w, "limit") = Int_(q.limit) /\ q.limit \in Sizes /\ q.limit > 0
      BY <1>18, <2>2 DEF c, Buildable
    <3>2. ~BadNumber(w, "limit") /\ NumberOr(w, "limit", NoLimit) = q.limit BY <3>1, SizeIsRead
    <3>3. q.limit \in DOMAIN Numerals /\ 0 \in DOMAIN Numerals /\ q.limit # 0
      <4> DEFINE l == q.limit
      <4>1. l \in Nat /\ l > 0 /\ l \in DOMAIN Numerals /\ 0 \in DOMAIN Numerals
        BY <3>1, SizesDiffer
      <4> HIDE DEF l
      <4>2. l # 0 BY <4>1
      <4> QED BY <4>1, <4>2 DEF l
    <3>4. Int_(q.limit) # Int_(0) BY <3>3, SizesDiffer
    <3> QED BY <3>1, <3>2, <3>4
  <2> QED BY <2>1, <2>2
<1>23. ~BadNumber(w, "offset") /\ NumberOr(w, "offset", 0) = q.offset
  <2>1. Field(w, "offset") = Int_(q.offset) /\ q.offset \in Sizes BY <1>18 DEF d, Buildable
  <2> QED BY <2>1, SizeIsRead
<1>24. DecodeQuery(w) = Spec_(Carried(q.where), q.sortBy, q.limit, q.offset)
  <2>1. ~(\E i \in DOMAIN sortBy.items : ~GoodSort(sortBy.items[i])) BY <1>20
  <2> QED BY <1>19, <1>20, <1>21, <1>22, <1>23, <2>1 DEF DecodeQuery
<1>25. [q EXCEPT !.where = Carried(@)] = Spec_(Carried(q.where), q.sortBy, q.limit, q.offset)
  <2>1. q = [where |-> q.where, sortBy |-> q.sortBy, limit |-> q.limit, offset |-> q.offset]
    BY DEF Buildable, Spec_
  <2> QED BY <2>1 DEF Spec_
<1> QED BY <1>16, <1>24, <1>25, <1>26 DEF r

-----------------------------------------------------------------------------
(* What the parser makes of any payload.                                   *)

LEMMA MissingIsWire == Missing \in WireTrees
<1> DEFINE k == Height[Missing]
<1>1. Missing \in AllTrees /\ k = 0 BY MissingHeight
<1> HIDE DEF k
<1>2. k <= 2 * Nesting + 1 BY <1>1, NestingAssumption
<1> QED BY <1>1, <1>2, HeightInWire DEF k

LEMMA TextOfMap ==
  ASSUME NEW w \in WireTrees, NEW key, Text(w, key) # "?"
  PROVE  Height[Missing] < Height[w] /\ Field(w, key).t = "str" /\ Text(w, key) = Field(w, key).s
<1>1. Field(w, key).t = "str" /\ Text(w, key) = Field(w, key).s BY DEF Text
<1>2. Field(w, key) # Missing BY <1>1, InvalidHasType
<1>3. Field(w, key) \in Below(WireTrees, w) BY <1>2, FieldBelow, TreesAreClosed
<1> DEFINE h == Height[w]
           k == Height[Field(w, key)]
           m == Height[Missing]
<1>4. k < h BY <1>3 DEF Below
<1>5. Field(w, key) \in WireTrees BY <1>3 DEF Below
<1>6. h \in Nat /\ k \in Nat BY <1>5, TreesAreClosed, HeightMeans DEF WithParts
<1>7. m = 0 BY MissingHeight
<1> HIDE DEF h, k, m
<1>8. m < h BY <1>4, <1>6, <1>7
<1> QED BY <1>1, <1>8 DEF h, m

\* What is read of a filter is none, or a filter no larger that can be run.
Readable(w) ==
  ParseFilter(w) # NoFilter =>
    ParseFilter(w) \in WireTrees /\ Height[ParseFilter(w)] <= Height[w] /\ Wellformed(ParseFilter(w))

LEMMA ComparisonIsReadable ==
  ASSUME NEW w \in WireTrees, Text(w, "type") = "comparison"
  PROVE  Readable(w)
<1> DEFINE c == [field |-> Text(w, "field"), op |-> Text(w, "operator"), value |-> Field(w, "value"),
                 upper |-> Field(w, "upperValue")]
           f == Comparison(c)
           h == Height[w]
<1>1. ParseFilter(w) = ComparisonOf(w) BY ParseFilterUnfolds DEF ParseFilterBy
<1>2. CASE ComparisonOf(w) = NoFilter BY <1>1, <1>2 DEF Readable
<1>3. CASE ComparisonOf(w) # NoFilter
  <2>1. /\ ComparisonOf(w) = f /\ c.field \in Fields /\ c.op \in CompareOps
        /\ (c.op = "between" => c.upper # Missing)
    BY <1>3 DEF ComparisonOf
  <2>2. c.field \in Texts /\ c.op \in Texts BY <2>1, QueryTextsAreTexts DEF QueryTexts
  <2>3. h \in Nat /\ w \in AllTrees /\ h <= 2 * Nesting + 1
    BY TreesAreClosed, HeightMeans, HeightInWire DEF WithParts
  <2>4. Height[Missing] < h /\ Missing \in AllTrees /\ Height[Missing] = 0
    BY TextOfMap, MissingHeight
  <2>5. ASSUME NEW key PROVE Field(w, key) \in AllTrees /\ Height[Field(w, key)] < h
    <3>1. CASE Field(w, key) = Missing BY <2>4, <3>1
    <3>2. CASE Field(w, key) \in Below(WireTrees, w)
      BY <3>2, TreesAreClosed DEF Below, WithParts
    <3> QED BY <3>1, <3>2, FieldBelow, TreesAreClosed
  <2>6. c.value = Field(w, "value") /\ c.upper = Field(w, "upperValue") OBVIOUS
  <2>7. c.value \in AllTrees /\ c.upper \in AllTrees /\ Height[c.value] < h /\ Height[c.upper] < h
    BY <2>5, <2>6
  <2>8. h > 0
    <3> HIDE DEF h
    <3> QED BY <2>3, <2>4
  <2> HIDE DEF c, h
  <2>9. f \in AllTrees /\ Height[f] \in Nat /\ Height[f] <= h BY <2>2, <2>3, <2>7, <2>8, ComparisonIsTree
  <2>10. f \in WireTrees
    <3> DEFINE k == Height[f]
    <3>1. k \in Nat /\ k <= h BY <2>9
    <3> HIDE DEF k, f
    <3>2. k <= 2 * Nesting + 1 BY <2>3, <3>1, NestingAssumption
    <3> QED BY <2>9, <3>2, HeightInWire DEF k
  <2>11. Wellformed(f)
    <3>1. Wellformed(f) = WellformedBy(WellformedOf, f) BY <2>10, WellformedUnfolds
    <3>2. f.t = "comparison" /\ f.s = c.op BY GroupMeans
    <3>3. Operand(f, 1) = Str(c.field) /\ Operand(f, 3) = c.upper BY ComparisonParts
    <3>4. Operand(f, 1).s = c.field BY <3>3, StrMeans
    <3> HIDE DEF f
    <3> QED BY <2>1, <3>1, <3>2, <3>3, <3>4 DEF WellformedBy
  <2> QED BY <1>1, <2>1, <2>9, <2>10, <2>11 DEF Readable, h
<1> QED BY <1>2, <1>3

LEMMA GroupIsReadable ==
  ASSUME NEW w \in WireTrees, Text(w, "type") = "group", \A y \in Below(WireTrees, w) : Readable(y)
  PROVE  Readable(w)
<1> DEFINE ws == Field(w, "filters").items
           fs == Each(ParseOf, ws)
           op == Text(w, "operator")
           g == Group(op, fs)
           h == Height[w]
<1>1. ParseFilter(w) = GroupOf(w, fs) BY ParseFilterUnfolds DEF ParseFilterBy
<1>2. CASE GroupOf(w, fs) = NoFilter BY <1>1, <1>2 DEF Readable
<1>3. CASE GroupOf(w, fs) # NoFilter
  <2>1. /\ GroupOf(w, fs) = g /\ op \in {"and", "or"} /\ fs # <<>>
        /\ \A i \in DOMAIN fs : fs[i] # NoFilter
    BY <1>3 DEF GroupOf
  <2>2. op \in Texts BY <2>1, QueryTextsAreTexts DEF QueryTexts
  <2>3. h \in Nat /\ h <= 2 * Nesting + 1
    BY TreesAreClosed, HeightMeans, HeightInWire DEF WithParts
  <2>4. ws \in Seq(Below(WireTrees, w)) BY FieldParts, TreesAreClosed
  <2>5. \A y \in Below(WireTrees, w) : y \in WireTrees /\ Height[y] < h /\ y \in AllTrees
    BY TreesAreClosed DEF Below, WithParts
  <2> HIDE DEF ws
  <2>6. /\ fs \in Seq(AllTrees) /\ DOMAIN fs = DOMAIN ws
        /\ \A i \in DOMAIN ws : fs[i] = ParseFilter(ws[i])
    <3>1. \A y \in Below(WireTrees, w) : ParseOf[y] \in AllTrees /\ ParseOf[y] = ParseFilter(y)
      BY <2>5, ParseFilterUnfolds
    <3>2. fs \in Seq(AllTrees) /\ DOMAIN fs = DOMAIN ws /\ \A i \in DOMAIN ws : fs[i] = ParseOf[ws[i]]
      <4> DEFINE B == Below(WireTrees, w)
      <4>1. ws \in Seq(B) /\ \A y \in B : ParseOf[y] \in AllTrees BY <2>4, <3>1
      <4> HIDE DEF B
      <4>2. Each(ParseOf, ws) \in Seq(AllTrees) /\ DOMAIN Each(ParseOf, ws) = DOMAIN ws
        BY <4>1, EachIs
      <4>3. \A i \in DOMAIN ws : Each(ParseOf, ws)[i] = ParseOf[ws[i]] BY DEF Each
      <4> QED BY <4>2, <4>3
    <3> QED BY <2>4, <3>1, <3>2, SeqParts
  <2> HIDE DEF fs
  <2>7. \A i \in DOMAIN fs : fs[i] \in WireTrees /\ Height[fs[i]] < h /\ Wellformed(fs[i])
    <3> TAKE i \in DOMAIN fs
    <3> DEFINE y == ws[i]
               k == Height[y]
               l == Height[fs[i]]
    <3>1. y \in Below(WireTrees, w) /\ fs[i] = ParseFilter(y) BY <2>4, <2>6, SeqParts
    <3>2. fs[i] \in WireTrees /\ l <= k /\ Wellformed(fs[i]) BY <2>1, <3>1 DEF Readable
    <3>3. k \in Nat /\ l \in Nat /\ k < h BY <2>5, <3>1, <3>2, HeightMeans, TreesAreClosed DEF WithParts
    <3> HIDE DEF k, l, h
    <3>4. l < h BY <2>3, <3>2, <3>3
    <3> QED BY <3>2, <3>4 DEF l
  <2>8. g \in AllTrees /\ Height[g] \in Nat /\ Height[g] <= h
    <3> HIDE DEF h
    <3> QED BY <2>2, <2>3, <2>6, <2>7, GroupIsTree
  <2>9. g \in WireTrees
    <3> DEFINE k == Height[g]
    <3>1. k \in Nat /\ k <= h BY <2>8
    <3> HIDE DEF k, g, h
    <3>2. k <= 2 * Nesting + 1 BY <2>3, <3>1, NestingAssumption
    <3> QED BY <2>8, <3>2, HeightInWire DEF k
  <2>10. Wellformed(g)
    <3>1. Wellformed(g) = WellformedBy(WellformedOf, g) BY <2>9, WellformedUnfolds
    <3>2. g.t = "group" /\ g.s = op /\ g.items = fs BY GroupMeans
    <3>3. \A i \in DOMAIN fs : WellformedOf[fs[i]] = TRUE BY <2>7, WellformedUnfolds
    <3> HIDE DEF g
    <3> QED BY <2>1, <3>1, <3>2, <3>3 DEF WellformedBy
  <2> QED BY <1>1, <2>1, <2>8, <2>9, <2>10 DEF Readable
<1> QED BY <1>2, <1>3

LEMMA AllIsReadable == \A w \in WireTrees : Readable(w)
<1> DEFINE P == {w \in WireTrees : Readable(w)}
<1>1. ASSUME NEW w \in WireTrees, Below(WireTrees, w) \subseteq P PROVE w \in P
  <2>1. CASE Text(w, "type") = "comparison" BY <2>1, ComparisonIsReadable
  <2>2. CASE Text(w, "type") = "group" BY <1>1, <2>2, GroupIsReadable
  <2>3. CASE Text(w, "type") \notin {"comparison", "group"}
    <3>1. ParseFilter(w) = NoFilter BY <2>3, ParseFilterUnfolds DEF ParseFilterBy
    <3> QED BY <3>1 DEF Readable
  <2> QED BY <2>1, <2>2, <2>3
<1>2. WireTrees \subseteq P
  <2> HIDE DEF P
  <2> QED BY <1>1, TreesAreClosed, HeightInduction
<1> QED BY <1>2

\* A query the engine can run.
Runnable(q) ==
  /\ Wellformed(q.where) /\ \A i \in DOMAIN q.sortBy : q.sortBy[i].field \in Fields
  /\ q.limit \in (Nat \ {0}) \cup {NoLimit} /\ q.offset \in Nat

LEMMA NumberIsSize ==
  ASSUME NEW w, NEW key, NEW none, ~BadNumber(w, key)
  PROVE  \/ Field(w, key) \in {Missing, Nil} /\ NumberOr(w, key, none) = none
         \/ NumberOr(w, key, none) \in Sizes /\ Field(w, key) = Int_(NumberOr(w, key, none))
<1>1. CASE Field(w, key) \in {Missing, Nil} BY <1>1 DEF NumberOr
<1>2. CASE Field(w, key) \notin {Missing, Nil}
  <2>1. \E n \in Sizes : Field(w, key) = Int_(n) BY <1>2 DEF BadNumber
  <2>2. NumberOr(w, key, none) = CHOOSE n \in Sizes : Field(w, key) = Int_(n) BY <1>2 DEF NumberOr
  <2> QED BY <2>1, <2>2
<1> QED BY <1>1, <1>2

LEMMA DecodedIsRunnable ==
  ASSUME NEW w \in WireTrees, DecodeQuery(w) # Rejected
  PROVE  Runnable(DecodeQuery(w))
<1> DEFINE where == ParseFilter(Field(w, "where"))
           sortBy == Field(w, "sortBy")
           sorts == [i \in DOMAIN sortBy.items |-> ParseSort(sortBy.items[i])]
           limit == NumberOr(w, "limit", NoLimit)
           offset == NumberOr(w, "offset", 0)
<1>1. /\ where # NoFilter /\ \A i \in DOMAIN sortBy.items : GoodSort(sortBy.items[i])
      /\ ~BadNumber(w, "limit") /\ ~BadNumber(w, "offset") /\ Field(w, "limit") # Int_(0)
      /\ DecodeQuery(w) = Spec_(where, sorts, limit, offset)
  BY DEF DecodeQuery
<1>2. Wellformed(where)
  <2>1. Field(w, "where") \in WireTrees BY FieldParts, TreesAreClosed, MissingIsWire
  <2> QED BY <1>1, <2>1, AllIsReadable DEF Readable
<1>3. \A i \in DOMAIN sorts : sorts[i].field \in Fields
  <2> TAKE i \in DOMAIN sorts
  <2>1. GoodSort(sortBy.items[i]) /\ sorts[i] = ParseSort(sortBy.items[i]) BY <1>1
  <2> QED BY <2>1 DEF GoodSort, ParseSort
<1>4. limit \in (Nat \ {0}) \cup {NoLimit}
  <2>1. CASE limit = NoLimit BY <2>1
  <2>2. CASE limit \in Sizes /\ Field(w, "limit") = Int_(limit)
    <3>1. limit \in Nat BY <2>2, SizesDiffer
    <3>2. limit # 0 BY <1>1, <2>2
    <3> QED BY <3>1, <3>2
  <2> QED BY <1>1, <2>1, <2>2, NumberIsSize
<1>5. offset \in Nat
  <2>1. offset = 0 \/ offset \in Sizes BY <1>1, NumberIsSize
  <2> QED BY <2>1, SizesDiffer
<1> HIDE DEF where, sorts, limit, offset
<1>6. /\ DecodeQuery(w).where = where /\ DecodeQuery(w).sortBy = sorts
      /\ DecodeQuery(w).limit = limit /\ DecodeQuery(w).offset = offset
  BY <1>1 DEF Spec_
<1> QED BY <1>2, <1>3, <1>4, <1>5, <1>6 DEF Runnable

-----------------------------------------------------------------------------
(* A chain of calls and the filter it has built.                           *)

\* How many levels the values of a client have.
Levels ==
  CHOOSE levels \in 0..Nesting :
    /\ 3 * (MaxCalls + levels) + 5 <= Nesting
    /\ \A c \in Comparisons \cup Grouped :
         /\ c.op \in CompareOps
         /\ {c.value, c.upper} \subseteq Tree[levels] /\ IsDart(c.value) /\ IsDart(c.upper)

LEMMA LevelsMeans ==
  /\ Levels \in Nat /\ MaxCalls \in Nat /\ 3 * (MaxCalls + Levels) + 5 <= Nesting
  /\ \A c \in Comparisons \cup Grouped : DartAccepts(c) => Accepted(c, Levels)
<1>1. /\ Levels \in 0..Nesting /\ 3 * (MaxCalls + Levels) + 5 <= Nesting
      /\ \A c \in Comparisons \cup Grouped :
           /\ c.op \in CompareOps
           /\ {c.value, c.upper} \subseteq Tree[Levels] /\ IsDart(c.value) /\ IsDart(c.upper)
  BY ComparisonsAssumption DEF Levels
<1>2. Levels \in Nat /\ MaxCalls \in Nat BY <1>1, NestingAssumption, PayloadsAssumption
<1>3. \A c \in Comparisons \cup Grouped : DartAccepts(c) => Accepted(c, Levels)
  BY <1>1 DEF Accepted
<1> QED BY <1>1, <1>2, <1>3

LEMMA TravelsMonotonic ==
  ASSUME NEW m \in Nat, NEW n \in Nat, m <= n, NEW f, Travels(f, m)
  PROVE  Travels(f, n)
<1> DEFINE h == Height[f]
           k == Height[FilterWire(f)]
<1>1. /\ f \in DartTrees /\ h <= m /\ FilterWire(f) \in DartTrees /\ k <= 3 * m
      /\ IsDart(FilterWire(f)) /\ Carried(f) # NoFilter
      /\ FilterWire(f) \in Storable => ParseFilter(Normal(FilterWire(f))) = Carried(f)
  BY DEF Travels
<1>2. h \in Nat /\ k \in Nat BY <1>1, HeightInDart
<1> HIDE DEF h, k
<1>3. h <= n /\ k <= 3 * n BY <1>1, <1>2
<1> QED BY <1>1, <1>3 DEF Travels, h, k

LEMMA NoFilterStays == ~ \E n : Travels(NoFilter, n)
<1> SUFFICES ASSUME NEW n, Travels(NoFilter, n) PROVE FALSE OBVIOUS
<1>1. NoFilter \in DartTrees /\ Carried(NoFilter) # NoFilter BY DEF Travels
<1>2. Carried(NoFilter) = CarriedBy(CarriedOf, NoFilter) BY <1>1, CarriedUnfolds
<1>3. NoFilter.t = "group" /\ NoFilter.s = "none" /\ NoFilter.items = <<>> BY GroupMeans DEF NoFilter
<1>4. Each(CarriedOf, <<>>) = <<>> BY DEF Each
<1>5. CarriedBy(CarriedOf, NoFilter) = Group("none", <<>>) BY <1>3, <1>4 DEF CarriedBy
<1> QED BY <1>1, <1>2, <1>5 DEF NoFilter

\* The filter of a call, and the calls.
CallFilters == {f \in DartTrees : Travels(f, Levels + 2)}
CallsOf == [op : {"and", "or"}, filter : CallFilters]

\* The calls cs with their filters as the engine gets them.
CarriedIn(cs) == [n \in DOMAIN cs |-> [op |-> cs[n].op, filter |-> Carried(cs[n].filter)]]

\* The filter w is what the calls cs have built and says what they say.
Chain(cs, w) ==
  /\ cs \in Seq(CallsOf) /\ Len(cs) <= MaxCalls
  /\ cs = <<>> => w = NoFilter
  /\ cs # <<>> =>
       /\ Travels(w, Levels + 1 + Len(cs))
       /\ \A verdict : Holds(Carried(w), verdict) = Said(CarriedIn(cs), verdict)

LEMMA CallTravels ==
  ASSUME MaxCalls > 0
  PROVE  /\ \A c \in Comparisons \cup Grouped : DartAccepts(c) => Comparison(c) \in CallFilters
         /\ \A op \in {"and", "or"}, c, d \in Comparisons \cup Grouped :
              DartAccepts(c) /\ DartAccepts(d) =>
                Group(op, <<Comparison(c), Comparison(d)>>) \in CallFilters
<1>0. /\ Levels \in Nat /\ Levels + 1 \in Nat /\ Levels + 2 \in Nat /\ Levels + 2 <= Nesting
      /\ 3 * (Levels + 1) + 3 <= Nesting /\ (Levels + 1) + 1 = Levels + 2 /\ Levels + 1 <= Levels + 2
  BY LevelsMeans, NestingAssumption
<1>1. \A c \in Comparisons \cup Grouped : DartAccepts(c) => Travels(Comparison(c), Levels + 1)
  BY <1>0, LevelsMeans, ComparisonTravels
<1>2. ASSUME NEW c \in Comparisons \cup Grouped, DartAccepts(c) PROVE Comparison(c) \in CallFilters
  <2>1. Travels(Comparison(c), Levels + 1) BY <1>1, <1>2
  <2>2. Travels(Comparison(c), Levels + 2) BY <1>0, <2>1, TravelsMonotonic
  <2> QED BY <2>1, <2>2 DEF CallFilters, Travels
<1>3. ASSUME NEW op \in {"and", "or"}, NEW c \in Comparisons \cup Grouped,
             NEW d \in Comparisons \cup Grouped, DartAccepts(c), DartAccepts(d)
      PROVE  Group(op, <<Comparison(c), Comparison(d)>>) \in CallFilters
  <2> DEFINE a == Comparison(c)
             b == Comparison(d)
             fs == <<a, b>>
  <2>1. Travels(a, Levels + 1) /\ Travels(b, Levels + 1) BY <1>1, <1>3
  <2>2. a \in DartTrees /\ b \in DartTrees BY <2>1 DEF Travels
  <2> HIDE DEF a, b
  <2>3. fs \in Seq(DartTrees) /\ Len(fs) = 2 /\ DOMAIN fs = {1, 2} /\ fs[1] = a /\ fs[2] = b
    BY <2>2, TwoIsSeq
  <2>4. fs # <<>> BY <2>3
  <2> HIDE DEF fs
  <2>5. \A i \in DOMAIN fs : Travels(fs[i], Levels + 1) BY <2>1, <2>3
  <2>6. Travels(Group(op, fs), (Levels + 1) + 1) BY <1>0, <2>3, <2>4, <2>5, GroupTravels
  <2>7. Travels(Group(op, fs), Levels + 2) BY <1>0, <2>6
  <2> QED BY <2>7 DEF CallFilters, Travels, fs, a, b
<1> QED BY <1>2, <1>3

LEMMA CarriedInMore ==
  ASSUME NEW cs \in Seq(CallsOf), NEW c \in CallsOf
  PROVE  /\ CarriedIn(Append(cs, c)) =
              Append(CarriedIn(cs), [op |-> c.op, filter |-> Carried(c.filter)])
         /\ CarriedIn(cs) \in Seq([op : {"and", "or"}, filter : AllTrees])
         /\ Len(CarriedIn(cs)) = Len(cs)
         /\ [op |-> c.op, filter |-> Carried(c.filter)] \in [op : {"and", "or"}, filter : AllTrees]
<1> DEFINE T == [op : {"and", "or"}, filter : AllTrees]
           g(x) == [op |-> x.op, filter |-> Carried(x.filter)]
           ds == CarriedIn(cs)
<1>1. \A x \in CallsOf : g(x) \in T
  <2>1. \A f \in CallFilters : Carried(f) \in AllTrees BY CarriedUnfolds DEF CallFilters
  <2> QED BY <2>1 DEF CallsOf
<1>2. DOMAIN ds = DOMAIN cs /\ ds = [i \in DOMAIN ds |-> ds[i]] /\ \A i \in DOMAIN cs : ds[i] = g(cs[i])
  BY DEF CarriedIn
<1>3. \A i \in DOMAIN cs : cs[i] \in CallsOf BY SeqParts
<1> HIDE DEF ds
<1>4. \A i \in DOMAIN cs : ds[i] \in T
  <2> HIDE DEF T, g
  <2> QED BY <1>1, <1>2, <1>3
<1> HIDE DEF T
<1>5. ds \in Seq(T) /\ Len(ds) = Len(cs) BY <1>2, <1>4, SeqOnPlaces
<1>6. CarriedIn(Append(cs, c)) = Append(ds, g(c))
  <2> DEFINE es == Append(cs, c)
  <2>1. Len(cs) \in Nat /\ DOMAIN cs = 1..Len(cs) BY SeqParts
  <2>2. /\ es \in Seq(CallsOf) /\ Len(es) = Len(cs) + 1 /\ es[Len(cs) + 1] = c
        /\ \A i \in 1..Len(cs) : es[i] = cs[i] /\ DOMAIN es = 1..(Len(cs) + 1)
    BY AppendProperties
  <2>3. DOMAIN es = 1..(Len(cs) + 1) BY <2>2, SeqParts
  <2>4. /\ Append(ds, g(c)) \in Seq(T) /\ Len(Append(ds, g(c))) = Len(cs) + 1
        /\ Append(ds, g(c))[Len(cs) + 1] = g(c)
        /\ \A i \in 1..Len(cs) : Append(ds, g(c))[i] = ds[i]
    <3> HIDE DEF g
    <3>1. g(c) \in T BY <1>1
    <3> QED BY <1>5, <3>1, AppendProperties
  <2> DEFINE fs == Append(ds, g(c))
  <2> HIDE DEF es, fs
  <2>5. CarriedIn(es) = [i \in 1..(Len(cs) + 1) |-> g(es[i])] BY <2>3 DEF CarriedIn
  <2> HIDE DEF g
  <2>6. fs = [i \in 1..(Len(cs) + 1) |-> fs[i]]
    <3>1. fs = [i \in DOMAIN fs |-> fs[i]] /\ DOMAIN fs = 1..(Len(cs) + 1)
      BY <2>4, LenProperties, SeqParts DEF fs
    <3> QED BY <3>1
  <2>7. \A i \in 1..(Len(cs) + 1) : g(es[i]) = fs[i]
    <3> TAKE i \in 1..(Len(cs) + 1)
    <3>1. CASE i \in 1..Len(cs) BY <1>2, <2>1, <2>2, <2>4, <3>1 DEF es, fs
    <3>2. CASE i = Len(cs) + 1 BY <2>2, <2>4, <3>2 DEF es, fs
    <3> QED BY <2>1, <3>1, <3>2
  <2>8. [i \in 1..(Len(cs) + 1) |-> g(es[i])] = [i \in 1..(Len(cs) + 1) |-> fs[i]] BY <2>7
  <2> QED BY <2>5, <2>6, <2>8 DEF es, fs
<1>7. g(c) \in T
  <2> HIDE DEF g
  <2> QED BY <1>1
<1> QED BY <1>5, <1>6, <1>7 DEF ds, T

LEMMA ChainGrows ==
  ASSUME NEW cs, NEW w, Chain(cs, w), Len(cs) < MaxCalls,
         NEW op \in {"and", "or"}, NEW f \in CallFilters
  PROVE  Chain(Append(cs, [op |-> op, filter |-> f]), IF w = NoFilter THEN f ELSE Group(op, <<w, f>>))
<1> DEFINE c == [op |-> op, filter |-> f]
           es == Append(cs, c)
           d == [op |-> op, filter |-> Carried(f)]
           T == [op : {"and", "or"}, filter : AllTrees]
<1>0. cs \in Seq(CallsOf) /\ Len(cs) \in Nat /\ Levels \in Nat /\ MaxCalls \in Nat
      /\ 3 * (MaxCalls + Levels) + 5 <= Nesting
  BY LevelsMeans, SeqParts DEF Chain
<1>1. c \in CallsOf /\ c.op = op /\ c.filter = f BY DEF CallsOf
<1>2. /\ f \in DartTrees /\ Travels(f, Levels + 2) /\ f # NoFilter
  BY NoFilterStays DEF CallFilters
<1> HIDE DEF c
<1>3. es \in Seq(CallsOf) /\ Len(es) = Len(cs) + 1 BY <1>0, <1>1, AppendProperties
<1>4. Len(es) <= MaxCalls /\ es # <<>>
  <2> HIDE DEF es
  <2>1. Len(es) <= MaxCalls /\ Len(es) # 0 BY <1>0, <1>3
  <2> QED BY <2>1
<1>5. /\ CarriedIn(es) = Append(CarriedIn(cs), d) /\ CarriedIn(cs) \in Seq(T)
      /\ Len(CarriedIn(cs)) = Len(cs) /\ d \in T
  BY <1>0, <1>1, CarriedInMore
<1>6. d.op = op /\ d.filter = Carried(f) OBVIOUS
<1> HIDE DEF d, T
<1>7. CASE cs = <<>>
  <2>1. w = NoFilter /\ Len(cs) = 0 BY <1>7 DEF Chain
  <2>2. Travels(f, Levels + 1 + Len(es))
    <3>1. Levels + 1 + Len(es) = Levels + 2 BY <1>0, <1>3, <2>1
    <3> QED BY <1>2, <3>1
  <2>3. CarriedIn(cs) = <<>> BY <1>7 DEF CarriedIn
  <2>4. CarriedIn(es) = <<d>> BY <1>5, <2>3, AppendToNone
  <2>5. \A verdict : Holds(Carried(f), verdict) = Said(CarriedIn(es), verdict) BY <1>6, <2>4, SaidOfOne
  <2> QED BY <1>3, <1>4, <2>1, <2>2, <2>5 DEF Chain, c
<1>8. CASE cs # <<>>
  <2> DEFINE n == Levels + 1 + Len(cs)
             fs == <<w, f>>
             g == Group(op, fs)
             gs == <<Carried(w), Carried(f)>>
  <2>1. Travels(w, n) /\ w # NoFilter /\ \A verdict : Holds(Carried(w), verdict) = Said(CarriedIn(cs), verdict)
    BY <1>8, NoFilterStays DEF Chain
  <2>2. Len(cs) > 0 BY <1>0, <1>8, EmptySeq
  <2>3. n \in Nat /\ 3 * n + 3 <= Nesting /\ Levels + 2 \in Nat /\ Levels + 2 <= n
        /\ n + 1 = Levels + 1 + Len(es)
    BY <1>0, <1>3, <2>2, NestingAssumption
  <2> HIDE DEF n
  <2>4. Travels(f, n) BY <1>2, <2>3, TravelsMonotonic
  <2>5. w \in DartTrees BY <2>1 DEF Travels
  <2>6. fs \in Seq(DartTrees) /\ Len(fs) = 2 /\ DOMAIN fs = {1, 2} /\ fs[1] = w /\ fs[2] = f
    BY <1>2, <2>5, TwoIsSeq
  <2> HIDE DEF fs
  <2>7. fs # <<>> /\ \A i \in DOMAIN fs : Travels(fs[i], n) BY <2>1, <2>4, <2>6, EmptySeq
  <2>8. Travels(g, n + 1) BY <2>3, <2>6, <2>7, GroupTravels
  <2>9. g \in DartTrees BY <2>8 DEF Travels
  <2>10. Carried(g) = Group(op, Each(CarriedOf, fs)) BY <2>6, <2>9, GroupCarried
  <2>11. Each(CarriedOf, fs) = gs
    <3>1. CarriedOf[w] = Carried(w) /\ CarriedOf[f] = Carried(f) BY <1>2, <2>5, CarriedUnfolds
    <3>2. Each(CarriedOf, fs) = [i \in {1, 2} |-> CarriedOf[fs[i]]] BY <2>6 DEF Each
    <3>3. Each(CarriedOf, fs) = <<CarriedOf[fs[1]], CarriedOf[fs[2]]>>
      BY <2>6, CarriedUnfolds, EachTwo
    <3> QED BY <2>6, <3>1, <3>3
  <2>12. Carried(w) \in WireTrees /\ Carried(f) \in WireTrees /\ Carried(g) \in WireTrees
    BY <1>2, <2>5, <2>9, CarriedHeight
  <2>13. gs \in Seq(WireTrees) BY <2>12, TwoIsSeq
  <2> HIDE DEF g, gs
  <2>14. Carried(g) = Group(op, gs) BY <2>10, <2>11
  <2>15. ASSUME NEW verdict PROVE Holds(Carried(g), verdict) = Said(CarriedIn(es), verdict)
    <3>1. Holds(Carried(g), verdict) = FirstVerdict(op, gs, verdict) BY <2>12, <2>13, <2>14, GroupHolds
    <3>2. FirstVerdict(op, gs, verdict) =
            IF Holds(Carried(w), verdict) = Neutral(op) THEN Holds(Carried(f), verdict)
            ELSE Holds(Carried(w), verdict)
      BY VerdictOfFew DEF gs
    <3>3. Said(CarriedIn(es), verdict) = Heard(Said(CarriedIn(cs), verdict), d, verdict)
      <4>1. Len(CarriedIn(cs)) > 0 BY <1>5, <2>2
      <4> QED BY <1>5, <4>1, SaidOfMore
    <3>4. Heard(Said(CarriedIn(cs), verdict), d, verdict) =
            IF Said(CarriedIn(cs), verdict) = Neutral(op) THEN Holds(Carried(f), verdict)
            ELSE Said(CarriedIn(cs), verdict)
      BY <1>6 DEF Heard
    <3> QED BY <2>1, <3>1, <3>2, <3>3, <3>4
  <2>16. Travels(g, Levels + 1 + Len(es)) BY <2>3, <2>8
  <2> QED BY <1>3, <1>4, <2>1, <2>15, <2>16 DEF Chain, c, g, fs
<1> QED BY <1>7, <1>8

-----------------------------------------------------------------------------
(* The flat conjunction of the Rust builder.                               *)

RustFilters == {f \in AllTrees : Height[f] <= Levels + 1 /\ f # NoFilter}

\* The flat conjunction of fs is the filter w the calls cs have nested.
Flat(cs, w, fs) ==
  /\ fs \in Seq(RustFilters) /\ Len(fs) = Len(cs)
  /\ cs # <<>> => \A verdict : Holds(w, verdict) = FirstVerdict("and", fs, verdict)

LEMMA RustFiltersAreWires ==
  /\ RustFilters \subseteq WireTrees
  /\ \A fs \in Seq(RustFilters) : fs \in Seq(WireTrees) /\ Group("and", fs) \in WireTrees
<1>0. /\ Levels \in Nat /\ Levels + 2 \in Nat /\ Levels + 1 <= 2 * Nesting + 1
      /\ Levels + 2 <= 2 * Nesting + 1 /\ Levels + 1 < Levels + 2 /\ Nesting \in Nat
  BY LevelsMeans, NestingAssumption
<1>1. ASSUME NEW f \in RustFilters PROVE f \in WireTrees /\ f \in AllTrees /\ Height[f] < Levels + 2
  <2> DEFINE h == Height[f]
  <2>1. f \in AllTrees /\ h <= Levels + 1 BY DEF RustFilters
  <2>2. h \in Nat BY <2>1, HeightMeans
  <2> HIDE DEF h
  <2>3. h < Levels + 2 /\ h <= 2 * Nesting + 1 BY <1>0, <2>1, <2>2
  <2> QED BY <2>1, <2>3, HeightInWire DEF h
<1>2. ASSUME NEW fs \in Seq(RustFilters) PROVE fs \in Seq(WireTrees) /\ Group("and", fs) \in WireTrees
  <2>1. fs = [i \in DOMAIN fs |-> fs[i]] /\ \A i \in DOMAIN fs : fs[i] \in RustFilters
    BY LenProperties, SeqParts
  <2>2. fs \in Seq(WireTrees) /\ fs \in Seq(AllTrees) BY <1>1, <2>1, SeqOnPlaces
  <2>3. "and" \in Texts BY QueryTextsAreTexts DEF QueryTexts
  <2> DEFINE g == Group("and", fs)
             h == Height[g]
  <2>4. \A i \in DOMAIN fs : Height[fs[i]] < Levels + 2 BY <1>1, <2>1
  <2>5. g \in AllTrees /\ h \in Nat /\ h <= Levels + 2 BY <1>0, <2>2, <2>3, <2>4, GroupIsTree
  <2> HIDE DEF h
  <2>6. h <= 2 * Nesting + 1 BY <1>0, <2>5
  <2> QED BY <2>2, <2>5, <2>6, HeightInWire DEF h
<1> QED BY <1>1, <1>2

\* The Rust builder drops the operands a comparison does not read.
LEMMA RustComparisonMeans ==
  ASSUME NEW c, Accepted(c, Levels)
  PROVE  /\ RustComparison(c) \in RustFilters
         /\ \A verdict : Holds(RustComparison(c), verdict) = Holds(Comparison(c), verdict)
<1> DEFINE d == [field |-> c.field, op |-> c.op,
                 value |-> IF c.op \in {"isNull", "isNotNull"} THEN Missing ELSE c.value,
                 upper |-> IF c.op = "between" THEN c.upper ELSE Missing]
           f == Comparison(d)
           g == Comparison(c)
<1>0. Levels \in Nat /\ Levels + 1 \in Nat /\ Levels + 1 > 0 /\ Levels <= Nesting /\ Levels + 2 <= Nesting
  BY LevelsMeans, NestingAssumption
<1>1. /\ c.field \in Texts /\ c.op \in Texts
      /\ c.value \in AllTrees /\ Height[c.value] <= Levels
      /\ c.upper \in AllTrees /\ Height[c.upper] <= Levels
  BY <1>0, AcceptedParts
<1>2. RustComparison(c) = f BY DEF RustComparison
<1>3. d.field = c.field /\ d.op = c.op /\ d.value \in {Missing, c.value} /\ d.upper \in {Missing, c.upper}
      /\ (c.op \notin {"isNull", "isNotNull"} => d.value = c.value)
      /\ (c.op = "between" => d.upper = c.upper)
  OBVIOUS
<1> HIDE DEF d
<1>4. ASSUME NEW v \in {Missing, c.value, c.upper} PROVE v \in AllTrees /\ Height[v] < Levels + 1
  <2> DEFINE h == Height[v]
  <2>1. v \in AllTrees BY <1>1, MissingHeight
  <2>2. h \in Nat BY <2>1, HeightMeans
  <2>3. h = 0 \/ h <= Levels BY <1>1, MissingHeight
  <2> HIDE DEF h
  <2>4. h < Levels + 1 BY <1>0, <2>2, <2>3
  <2> QED BY <2>1, <2>4 DEF h
<1>5. f \in AllTrees /\ Height[f] <= Levels + 1
  <2>1. d.value \in AllTrees /\ d.upper \in AllTrees /\ Height[d.value] < Levels + 1
        /\ Height[d.upper] < Levels + 1
    BY <1>3, <1>4
  <2>2. d.field \in Texts /\ d.op \in Texts BY <1>1, <1>3
  <2> QED BY <1>0, <2>1, <2>2, ComparisonIsTree
<1>6. f \in RustFilters BY <1>5, GroupMeans DEF RustFilters, NoFilter
<1>7. g \in WireTrees
  <2>1. Travels(g, Levels + 1) BY <1>0, ComparisonTravels
  <2> QED BY <2>1, DartIsWire DEF Travels
<1>8. f \in WireTrees BY <1>6, RustFiltersAreWires
<1>9. f.t = "comparison" /\ g.t = "comparison" /\ f.s = c.op /\ g.s = c.op BY <1>3, GroupMeans
<1>10. /\ Operand(f, 1) = Str(c.field) /\ Operand(f, 2) = d.value /\ Operand(f, 3) = d.upper
       /\ Operand(g, 1) = Str(c.field) /\ Operand(g, 2) = c.value /\ Operand(g, 3) = c.upper
  BY <1>3, ComparisonParts
<1> HIDE DEF f, g
<1>11. Operands(f) = Operands(g) BY <1>3, <1>9, <1>10 DEF Operands
<1>12. \A verdict : Holds(f, verdict) = Holds(g, verdict) BY <1>7, <1>8, <1>9, <1>11, ComparisonHolds
<1> QED BY <1>2, <1>6, <1>12 DEF g

LEMMA FlatGrows ==
  ASSUME NEW cs, NEW w, Chain(cs, w), Len(cs) < MaxCalls, NEW fs, Flat(cs, w, fs),
         NEW f \in CallFilters, NEW r \in RustFilters,
         \A verdict : Holds(r, verdict) = Holds(f, verdict)
  PROVE  Flat(Append(cs, [op |-> "and", filter |-> f]),
              IF w = NoFilter THEN f ELSE Group("and", <<w, f>>), Append(fs, r))
<1> DEFINE c == [op |-> "and", filter |-> f]
           es == Append(cs, c)
           gs == Append(fs, r)
           x == IF w = NoFilter THEN f ELSE Group("and", <<w, f>>)
<1>0. /\ cs \in Seq(CallsOf) /\ Len(cs) \in Nat /\ fs \in Seq(RustFilters) /\ Len(fs) = Len(cs)
  BY SeqParts DEF Chain, Flat
<1>1. c \in CallsOf BY DEF CallsOf
<1>2. Len(es) = Len(cs) + 1 /\ gs \in Seq(RustFilters) /\ Len(gs) = Len(fs) + 1
  <2> HIDE DEF c
  <2> QED BY <1>0, <1>1, AppendProperties
<1>3. ASSUME NEW verdict PROVE Holds(x, verdict) = FirstVerdict("and", gs, verdict)
  <2>1. CASE cs = <<>>
    <3>1. x = f BY <2>1 DEF Chain
    <3>2. fs = <<>> BY <1>0, <2>1, EmptySeq
    <3>3. gs = <<r>> BY <3>2, AppendToNone
    <3>4. FirstVerdict("and", <<r>>, verdict) = Holds(r, verdict) BY VerdictOfFew
    <3> QED BY <3>1, <3>3, <3>4
  <2>2. CASE cs # <<>>
    <3> DEFINE g == Group("and", <<w, f>>)
               ws == <<w, f>>
    <3>1. Travels(w, Levels + 1 + Len(cs)) /\ w # NoFilter BY <2>2, NoFilterStays DEF Chain
    <3>2. x = g BY <3>1
    <3>3. Chain(es, g)
      <4>1. Chain(es, x) BY ChainGrows
      <4> QED BY <3>2, <4>1
    <3>4. es # <<>> BY <1>0, <1>2, EmptySeq
    <3>5. g \in WireTrees BY <3>3, <3>4, DartIsWire DEF Chain, Travels
    <3>6. w \in WireTrees /\ f \in WireTrees BY <3>1, DartIsWire DEF Travels, CallFilters
    <3>7. ws \in Seq(WireTrees) BY <3>6, TwoIsSeq
    <3> HIDE DEF ws
    <3>8. Holds(Group("and", ws), verdict) = FirstVerdict("and", ws, verdict)
      BY <3>5, <3>7, GroupHolds DEF ws
    <3>9. FirstVerdict("and", ws, verdict) =
            IF Holds(w, verdict) = Neutral("and") THEN Holds(f, verdict) ELSE Holds(w, verdict)
      BY VerdictOfFew DEF ws
    <3>10. FirstVerdict("and", gs, verdict) =
             IF FirstVerdict("and", fs, verdict) = Neutral("and") THEN Holds(r, verdict)
             ELSE FirstVerdict("and", fs, verdict)
      BY <1>0, VerdictOfMore
    <3>11. Holds(w, verdict) = FirstVerdict("and", fs, verdict) BY <2>2 DEF Flat
    <3> QED BY <3>2, <3>8, <3>9, <3>10, <3>11 DEF ws
  <2> QED BY <2>1, <2>2
<1> QED BY <1>0, <1>2, <1>3 DEF Flat

-----------------------------------------------------------------------------
(* The inductive invariant of the builders.                                *)

Refusals == {"field", "group", "limit", "offset"}
FirstOf(refused) == IF refused = <<>> THEN "none" ELSE refused[1]

PageBuilt(q) ==
  /\ q = Spec_(q.where, q.sortBy, q.limit, q.offset)
  /\ q.sortBy \in Seq(SortsOf)
  /\ q.limit = NoLimit \/ (q.limit \in Sizes /\ q.limit > 0)
  /\ q.offset \in Sizes

\* The engine has a query it decoded from some payload; it is that of the
\* builder if the builder has one.
Delivered ==
  received # NotSent =>
    /\ \E w \in WireTrees : received = DecodeQuery(w)
    /\ calls # <<>> => received = [dart EXCEPT !.where = Carried(@)]

IsRust(r) ==
  r = [filters |-> r.filters, sorts |-> r.sorts, limit |-> r.limit, offset |-> r.offset,
       error |-> r.error]

\* While the Rust builder has every call it has built what the other has.
SamePage(q, r) == r.sorts = q.sortBy /\ r.limit = q.limit /\ r.offset = q.offset
InStep ==
  common =>
    /\ IsRust(rust) /\ rust.error = FirstOf(rejected)
    /\ rejected = <<>> => Flat(calls, dart.where, rust.filters) /\ SamePage(dart, rust)

BuildersInv ==
  /\ Chain(calls, dart.where) /\ PageBuilt(dart)
  /\ rejected \in Seq(Refusals)
  /\ Delivered /\ InStep

LEMMA RefusedOnce ==
  ASSUME NEW refused \in Seq(Refusals), NEW what \in Refusals
  PROVE  /\ Append(refused, what) \in Seq(Refusals) /\ Append(refused, what) # <<>>
         /\ FirstOf(Append(refused, what)) =
              IF FirstOf(refused) = "none" THEN what ELSE FirstOf(refused)
<1> DEFINE more == Append(refused, what)
<1>1. /\ more \in Seq(Refusals) /\ Len(more) = Len(refused) + 1 /\ more[Len(refused) + 1] = what
      /\ \A i \in 1..Len(refused) : more[i] = refused[i]
  BY AppendProperties
<1>2. Len(refused) \in Nat /\ DOMAIN refused = 1..Len(refused) BY SeqParts
<1> HIDE DEF more
<1>3. Len(more) # 0 BY <1>1, <1>2
<1>4. more # <<>> BY <1>3
<1>5. CASE refused = <<>>
  <2>1. Len(refused) = 0 BY <1>5
  <2>2. more[1] = what BY <1>1, <2>1
  <2> QED BY <1>1, <1>4, <1>5, <2>2 DEF FirstOf, more
<1>6. CASE refused # <<>>
  <2>1. 1 \in 1..Len(refused) BY <1>2, <1>6, EmptySeq
  <2>2. more[1] = refused[1] /\ refused[1] \in Refusals BY <1>1, <1>2, <2>1, SeqParts
  <2>3. "none" \notin Refusals BY DEF Refusals
  <2> QED BY <1>1, <1>4, <1>6, <2>2, <2>3 DEF FirstOf, more
<1> QED BY <1>5, <1>6

LEMMA BuildersInvInitially == BuildersInit => BuildersInv
<1> SUFFICES ASSUME BuildersInit PROVE BuildersInv OBVIOUS
<1>1. /\ calls = <<>> /\ rejected = <<>> /\ received = NotSent
      /\ dart = Spec_(NoFilter, <<>>, NoLimit, 0)
      /\ rust = [filters |-> <<>>, sorts |-> <<>>, limit |-> NoLimit, offset |-> 0, error |-> "none"]
  BY DEF BuildersInit
<1>2. dart.where = NoFilter /\ dart.sortBy = <<>> /\ dart.limit = NoLimit /\ dart.offset = 0
  BY <1>1 DEF Spec_
<1>3. Chain(calls, dart.where)
  <2>1. <<>> \in Seq(CallsOf) /\ Len(<<>>) = 0 BY EmptySeq
  <2>2. 0 <= MaxCalls BY LevelsMeans
  <2> QED BY <1>1, <1>2, <2>1, <2>2 DEF Chain
<1>4. PageBuilt(dart) BY <1>1, <1>2, SizesDiffer, EmptySeq DEF PageBuilt
<1>5. rust.filters = <<>> /\ rust.sorts = <<>> /\ rust.limit = NoLimit /\ rust.offset = 0
      /\ rust.error = "none" /\ IsRust(rust)
  BY <1>1 DEF IsRust
<1>6. InStep
  <2>1. Flat(calls, dart.where, rust.filters) BY <1>1, <1>5, EmptySeq DEF Flat
  <2> QED BY <1>1, <1>2, <1>5, <2>1 DEF InStep, FirstOf, SamePage
<1>7. rejected \in Seq(Refusals) BY <1>1, EmptySeq
<1> QED BY <1>1, <1>3, <1>4, <1>6, <1>7 DEF BuildersInv, Delivered

LEMMA RoomForOne ==
  ASSUME BuildersInv, Building
  PROVE  Len(calls) < MaxCalls /\ MaxCalls > 0
<1> DEFINE a == Len(calls)
           b == Len(rejected)
           c == Len(dart.sortBy)
<1>1. a \in Nat /\ b \in Nat /\ c \in Nat BY SeqParts DEF BuildersInv, Chain, PageBuilt
<1>2. a + b + c < MaxCalls BY DEF Building
<1>3. MaxCalls \in Nat BY LevelsMeans
<1> HIDE DEF a, b, c
<1>4. a < MaxCalls /\ MaxCalls > 0 BY <1>1, <1>2, <1>3
<1> QED BY <1>4 DEF a

\* A refused call: Dart throws, the Rust builder keeps the first error.
LEMMA RefusedKeepsInv ==
  ASSUME BuildersInv, NEW what \in Refusals, DartThrows(what), received = NotSent, UNCHANGED received,
         common' => common /\ rust' = SetError(rust, what)
  PROVE  BuildersInv'
<1>1. rejected' = Append(rejected, what) /\ UNCHANGED <<dart, calls>> BY DEF DartThrows
<1>2. /\ rejected' \in Seq(Refusals) /\ rejected' # <<>>
      /\ FirstOf(rejected') = IF FirstOf(rejected) = "none" THEN what ELSE FirstOf(rejected)
  BY <1>1, RefusedOnce DEF BuildersInv
<1>3. InStep'
  <2> SUFFICES ASSUME common'
               PROVE  IsRust(rust') /\ rust'.error = FirstOf(rejected')
    BY <1>2 DEF InStep
  <2>1. common /\ rust' = [rust EXCEPT !.error = IF @ = "none" THEN what ELSE @] BY DEF SetError
  <2>2. IsRust(rust) /\ rust.error = FirstOf(rejected) BY <2>1 DEF BuildersInv, InStep
  <2>3. rust'.error = IF rust.error = "none" THEN what ELSE rust.error BY <2>1, <2>2 DEF IsRust
  <2>4. IsRust(rust') BY <2>1, <2>2 DEF IsRust
  <2> QED BY <1>2, <2>2, <2>3, <2>4
<1>4. Delivered' BY DEF Delivered
<1>5. Chain(calls', dart'.where) /\ PageBuilt(dart') BY <1>1 DEF BuildersInv
<1> QED BY <1>2, <1>3, <1>4, <1>5 DEF BuildersInv

\* A predicate: one more call of the chain, one more filter of the conjunction.
LEMMA AppendedKeepsInv ==
  ASSUME BuildersInv, Building, NEW op \in {"and", "or"}, NEW f \in CallFilters, Append_(op, f),
         UNCHANGED received,
         common' => /\ common /\ op = "and"
                    /\ \E r \in RustFilters :
                         /\ rust' = [rust EXCEPT !.filters = Append(@, r)]
                         /\ \A verdict : Holds(r, verdict) = Holds(f, verdict)
  PROVE  BuildersInv'
<1> DEFINE w == IF dart.where = NoFilter THEN f ELSE Group(op, <<dart.where, f>>)
<1>1. /\ dart' = [dart EXCEPT !.where = IF @ = NoFilter THEN f ELSE Group(op, <<@, f>>)]
      /\ calls' = Append(calls, [op |-> op, filter |-> f])
      /\ rejected' = rejected
  BY DEF Append_
<1>2. PageBuilt(dart) /\ Chain(calls, dart.where) BY DEF BuildersInv
<1>3. dart' = [dart EXCEPT !.where = w] BY <1>1
<1> HIDE DEF w
<1>4. /\ dart'.where = w /\ PageBuilt(dart')
      /\ dart'.sortBy = dart.sortBy /\ dart'.limit = dart.limit /\ dart'.offset = dart.offset
  BY <1>2, <1>3 DEF PageBuilt, Spec_
<1>5. Len(calls) < MaxCalls BY RoomForOne
<1>6. Chain(calls', dart'.where) BY <1>1, <1>2, <1>4, <1>5, ChainGrows DEF w
<1>7. InStep'
  <2> SUFFICES ASSUME common' PROVE InStep' BY DEF InStep
  <2>1. common /\ op = "and" OBVIOUS
  <2>2. PICK r \in RustFilters : /\ rust' = [rust EXCEPT !.filters = Append(@, r)]
                                 /\ \A verdict : Holds(r, verdict) = Holds(f, verdict)
    OBVIOUS
  <2>3. IsRust(rust) /\ rust.error = FirstOf(rejected) BY <2>1 DEF BuildersInv, InStep
  <2>4. /\ IsRust(rust') /\ rust'.error = rust.error /\ rust'.filters = Append(rust.filters, r)
        /\ rust'.sorts = rust.sorts /\ rust'.limit = rust.limit /\ rust'.offset = rust.offset
    BY <2>2, <2>3 DEF IsRust
  <2>5. ASSUME rejected = <<>>
        PROVE  Flat(calls', dart'.where, rust'.filters) /\ SamePage(dart', rust')
    <3>1. Flat(calls, dart.where, rust.filters) /\ SamePage(dart, rust)
      BY <2>1, <2>5 DEF BuildersInv, InStep
    <3>2. SamePage(dart', rust') BY <1>4, <2>4, <3>1 DEF SamePage
    <3>3. Flat(calls', dart'.where, rust'.filters)
      BY <1>1, <1>2, <1>4, <1>5, <2>1, <2>2, <2>4, <3>1, FlatGrows DEF w
    <3> QED BY <3>2, <3>3
  <2> QED BY <1>1, <2>3, <2>4, <2>5 DEF InStep
<1>8. Delivered' BY DEF Delivered, Building
<1>9. rejected' \in Seq(Refusals) BY <1>1 DEF BuildersInv
<1> QED BY <1>4, <1>6, <1>7, <1>8, <1>9 DEF BuildersInv

\* A sort, a limit or an offset.
LEMMA PageKeepsInv ==
  ASSUME BuildersInv, UNCHANGED <<calls, rejected, received>>, received = NotSent,
         dart'.where = dart.where, PageBuilt(dart'),
         common' => /\ common
                    /\ IsRust(rust) => IsRust(rust') /\ rust'.error = rust.error
                                       /\ rust'.filters = rust.filters
                                       /\ (SamePage(dart, rust) => SamePage(dart', rust'))
  PROVE  BuildersInv'
<1>1. InStep'
  <2> SUFFICES ASSUME common' PROVE InStep' BY DEF InStep
  <2>1. /\ common /\ IsRust(rust) /\ rust.error = FirstOf(rejected)
        /\ rejected = <<>> => Flat(calls, dart.where, rust.filters) /\ SamePage(dart, rust)
    BY DEF BuildersInv, InStep
  <2> QED BY <2>1 DEF InStep
<1>2. Delivered' BY DEF Delivered
<1>3. Chain(calls', dart'.where) /\ rejected' \in Seq(Refusals) BY DEF BuildersInv
<1> QED BY <1>1, <1>2, <1>3 DEF BuildersInv

LEMMA CompareKeepsInv ==
  ASSUME BuildersInv, NEW op \in {"and", "or"}, NEW c \in Comparisons, Compare(op, c)
  PROVE  BuildersInv'
<1>0. /\ Building /\ received = NotSent /\ UNCHANGED received
      /\ common' = (common /\ op = "and" /\ c.value.t \in Scalars /\ (c.op = "between" => c.upper # Nil))
  BY DEF Compare, Building
<1>1. CASE DartAccepts(c)
  <2> DEFINE f == Comparison(c)
  <2>1. Append_(op, f) BY <1>1 DEF Compare
  <2>2. Accepted(c, Levels) /\ c.field \in Fields BY <1>1, LevelsMeans DEF DartAccepts
  <2>3. MaxCalls > 0 BY <1>0, RoomForOne
  <2>4. f \in CallFilters BY <1>1, <2>3, CallTravels
  <2>5. ASSUME common'
        PROVE  /\ common /\ op = "and"
               /\ \E r \in RustFilters :
                    /\ rust' = [rust EXCEPT !.filters = Append(@, r)]
                    /\ \A verdict : Holds(r, verdict) = Holds(f, verdict)
    <3>1. rust' = [rust EXCEPT !.filters = Append(@, RustComparison(c))] BY <2>2, <2>5 DEF Compare
    <3> HIDE DEF f
    <3>2. RustComparison(c) \in RustFilters
          /\ \A verdict : Holds(RustComparison(c), verdict) = Holds(f, verdict)
      BY <2>2, RustComparisonMeans DEF f
    <3> QED BY <1>0, <2>5, <3>1, <3>2
  <2> HIDE DEF f
  <2> QED BY <1>0, <2>1, <2>4, <2>5, AppendedKeepsInv
<1>2. CASE ~DartAccepts(c)
  <2>1. DartThrows("field") BY <1>2 DEF Compare
  <2>2. ASSUME common' PROVE common /\ rust' = SetError(rust, "field")
    <3>1. c.field \notin Fields BY <1>0, <1>2, <2>2 DEF DartAccepts
    <3> QED BY <1>0, <2>2, <3>1 DEF Compare
  <2>3. "field" \in Refusals BY DEF Refusals
  <2> QED BY <1>0, <2>1, <2>2, <2>3, RefusedKeepsInv
<1> QED BY <1>1, <1>2

LEMMA CompareGroupKeepsInv ==
  ASSUME BuildersInv, NEW op \in {"and", "or"}, NEW inner \in {"and", "or"},
         NEW c \in Grouped, NEW d \in Grouped, NEW modified, CompareGroup(op, inner, c, d, modified)
  PROVE  BuildersInv'
<1>0. Building /\ received = NotSent /\ UNCHANGED received /\ common' = FALSE
      /\ DartAccepts(c) /\ DartAccepts(d)
  BY DEF CompareGroup, Building
<1>1. CASE modified
  <2>1. DartThrows("group") BY <1>1 DEF CompareGroup
  <2>2. "group" \in Refusals BY DEF Refusals
  <2> QED BY <1>0, <2>1, <2>2, RefusedKeepsInv
<1>2. CASE ~modified
  <2> DEFINE f == Group(inner, <<Comparison(c), Comparison(d)>>)
  <2>1. Append_(op, f) BY <1>2 DEF CompareGroup
  <2>2. MaxCalls > 0 BY <1>0, RoomForOne
  <2>3. f \in CallFilters BY <1>0, <2>2, CallTravels
  <2> HIDE DEF f
  <2> QED BY <1>0, <2>1, <2>3, AppendedKeepsInv
<1> QED BY <1>1, <1>2

LEMMA OrderByKeepsInv ==
  ASSUME BuildersInv, NEW f \in Fields \cup BadFields, NEW direction \in {"ascending", "descending"},
         NEW nulls \in {"first", "last"}, OrderBy(f, direction, nulls)
  PROVE  BuildersInv'
<1> DEFINE sort == [field |-> f, direction |-> direction, nulls |-> nulls]
<1>0. Building /\ received = NotSent /\ UNCHANGED received /\ common' = (common /\ nulls = "last")
  BY DEF OrderBy, Building
<1>1. CASE f \in Fields
  <2>1. /\ dart' = [dart EXCEPT !.sortBy = Append(@, sort)]
        /\ rust' = IF common THEN [rust EXCEPT !.sorts = Append(@, sort)] ELSE rust
        /\ UNCHANGED <<calls, rejected>>
    BY <1>1 DEF OrderBy
  <2>2. sort \in SortsOf BY <1>1 DEF SortsOf
  <2> HIDE DEF sort
  <2>3. PageBuilt(dart) BY DEF BuildersInv
  <2>4. Append(dart.sortBy, sort) \in Seq(SortsOf) BY <2>2, <2>3 DEF PageBuilt
  <2>5. /\ dart'.where = dart.where /\ dart'.sortBy = Append(dart.sortBy, sort)
        /\ dart'.limit = dart.limit /\ dart'.offset = dart.offset /\ PageBuilt(dart')
    BY <2>1, <2>3, <2>4 DEF PageBuilt, Spec_
  <2>6. ASSUME common', IsRust(rust)
        PROVE  /\ IsRust(rust') /\ rust'.error = rust.error /\ rust'.filters = rust.filters
               /\ (SamePage(dart, rust) => SamePage(dart', rust'))
    <3>1. rust' = [rust EXCEPT !.sorts = Append(@, sort)] BY <1>0, <2>1, <2>6
    <3>2. /\ IsRust(rust') /\ rust'.error = rust.error /\ rust'.filters = rust.filters
          /\ rust'.sorts = Append(rust.sorts, sort) /\ rust'.limit = rust.limit
          /\ rust'.offset = rust.offset
      BY <2>6, <3>1 DEF IsRust
    <3> QED BY <2>5, <3>2 DEF SamePage
  <2> QED BY <1>0, <2>1, <2>5, <2>6, PageKeepsInv
<1>2. CASE f \notin Fields
  <2>1. DartThrows("field") /\ rust' = IF common THEN SetError(rust, "field") ELSE rust
    BY <1>2 DEF OrderBy
  <2>2. "field" \in Refusals BY DEF Refusals
  <2>3. common' => common /\ rust' = SetError(rust, "field") BY <1>0, <2>1
  <2> QED BY <1>0, <2>1, <2>2, <2>3, RefusedKeepsInv
<1> QED BY <1>1, <1>2

LEMMA LimitKeepsInv ==
  ASSUME BuildersInv, NEW n \in Pages, Limit(n)
  PROVE  BuildersInv'
<1>0. Building /\ received = NotSent /\ UNCHANGED received /\ common' = (common /\ n >= 0)
      /\ n \in Int /\ n \in DOMAIN Numerals
  BY NumeralsAssumption DEF Limit, Building
<1>1. CASE n > 0
  <2>1. dart' = [dart EXCEPT !.limit = n] /\ UNCHANGED <<calls, rejected>> BY <1>1 DEF Limit
  <2>2. n \in Sizes BY <1>0, <1>1 DEF Sizes
  <2>3. PageBuilt(dart) BY DEF BuildersInv
  <2>4. /\ dart'.where = dart.where /\ dart'.sortBy = dart.sortBy
        /\ dart'.limit = n /\ dart'.offset = dart.offset /\ PageBuilt(dart')
    BY <1>1, <2>1, <2>2, <2>3 DEF PageBuilt, Spec_
  <2>5. ASSUME common', IsRust(rust)
        PROVE  /\ IsRust(rust') /\ rust'.error = rust.error /\ rust'.filters = rust.filters
               /\ (SamePage(dart, rust) => SamePage(dart', rust'))
    <3>1. rust' = [rust EXCEPT !.limit = n] BY <1>1, <2>5 DEF Limit
    <3>2. /\ IsRust(rust') /\ rust'.error = rust.error /\ rust'.filters = rust.filters
          /\ rust'.sorts = rust.sorts /\ rust'.limit = n /\ rust'.offset = rust.offset
      BY <2>5, <3>1 DEF IsRust
    <3> QED BY <2>4, <3>2 DEF SamePage
  <2>6. common' => common BY <1>0
  <2> QED BY <1>0, <2>1, <2>4, <2>5, <2>6, PageKeepsInv
<1>2. CASE ~(n > 0)
  <2>1. DartThrows("limit") BY <1>2 DEF Limit
  <2>2. "limit" \in Refusals BY DEF Refusals
  <2>3. common' => common /\ rust' = SetError(rust, "limit") BY <1>0, <1>2 DEF Limit
  <2> QED BY <1>0, <2>1, <2>2, <2>3, RefusedKeepsInv
<1> QED BY <1>1, <1>2

LEMMA OffsetKeepsInv ==
  ASSUME BuildersInv, NEW n \in Pages, Offset(n)
  PROVE  BuildersInv'
<1>0. Building /\ received = NotSent /\ UNCHANGED received /\ common' = (common /\ n >= 0)
      /\ n \in Int /\ n \in DOMAIN Numerals
  BY NumeralsAssumption DEF Offset, Building
<1>1. CASE n >= 0
  <2>1. dart' = [dart EXCEPT !.offset = n] /\ UNCHANGED <<calls, rejected>> BY <1>1 DEF Offset
  <2>2. n \in Sizes BY <1>0, <1>1 DEF Sizes
  <2>3. PageBuilt(dart) BY DEF BuildersInv
  <2>4. /\ dart'.where = dart.where /\ dart'.sortBy = dart.sortBy
        /\ dart'.limit = dart.limit /\ dart'.offset = n /\ PageBuilt(dart')
    BY <2>1, <2>2, <2>3 DEF PageBuilt, Spec_
  <2>5. ASSUME common', IsRust(rust)
        PROVE  /\ IsRust(rust') /\ rust'.error = rust.error /\ rust'.filters = rust.filters
               /\ (SamePage(dart, rust) => SamePage(dart', rust'))
    <3>1. rust' = [rust EXCEPT !.offset = n] BY <1>0, <1>1, <2>5 DEF Offset
    <3>2. /\ IsRust(rust') /\ rust'.error = rust.error /\ rust'.filters = rust.filters
          /\ rust'.sorts = rust.sorts /\ rust'.limit = rust.limit /\ rust'.offset = n
      BY <2>5, <3>1 DEF IsRust
    <3> QED BY <2>4, <3>2 DEF SamePage
  <2>6. common' => common BY <1>0
  <2> QED BY <1>0, <2>1, <2>4, <2>5, <2>6, PageKeepsInv
<1>2. CASE ~(n >= 0)
  <2>1. DartThrows("offset") BY <1>2 DEF Offset
  <2>2. "offset" \in Refusals BY DEF Refusals
  <2>3. ~common' BY <1>0, <1>2
  <2> QED BY <1>0, <2>1, <2>2, <2>3, RefusedKeepsInv
<1> QED BY <1>1, <1>2

LEMMA SendKeepsInv ==
  ASSUME BuildersInv, Send \/ SendForeign
  PROVE  BuildersInv'
<1>0. UNCHANGED <<calls, rejected, dart, rust, common>> BY DEF Send, SendForeign
<1>1. ASSUME Send PROVE Delivered'
  <2>1. /\ dart.where # NoFilter /\ ToWire(QueryWire(dart)) # Invalid
        /\ received' = DecodeQuery(Normalize(ToWire(QueryWire(dart))))
    BY <1>1 DEF Send
  <2> DEFINE n == Levels + 1 + Len(calls)
  <2>2. calls # <<>> /\ Travels(dart.where, n) /\ Len(calls) <= MaxCalls /\ Len(calls) \in Nat
    BY <2>1, SeqParts DEF BuildersInv, Chain
  <2>3. n \in Nat /\ n > 0 /\ 3 * n + 2 <= Nesting BY <2>2, LevelsMeans, NestingAssumption
  <2> HIDE DEF n
  <2>4. Buildable(dart, n) BY <2>2 DEF BuildersInv, PageBuilt, Buildable
  <2>5. /\ Normalize(ToWire(QueryWire(dart))) \in WireTrees
        /\ received' = [dart EXCEPT !.where = Carried(@)]
    BY <2>1, <2>3, <2>4, QueryTravels
  <2> QED BY <1>0, <2>1, <2>5 DEF Delivered
<1>2. ASSUME SendForeign PROVE Delivered'
  <2>1. calls = <<>> /\ \E w \in Payloads : received' = DecodeQuery(w) BY <1>2 DEF SendForeign
  <2>2. \E w \in WireTrees : received' = DecodeQuery(w) BY <2>1, PayloadsAssumption
  <2> QED BY <1>0, <2>1, <2>2 DEF Delivered
<1>3. Delivered' BY <1>1, <1>2
<1>4. InStep' BY <1>0 DEF InStep, BuildersInv
<1> QED BY <1>0, <1>3, <1>4 DEF BuildersInv

LEMMA BuildersInvNext == BuildersInv /\ [BuildersNext]_builderVars => BuildersInv'
<1> SUFFICES ASSUME BuildersInv, [BuildersNext]_builderVars PROVE BuildersInv' OBVIOUS
<1>1. CASE \E op \in {"and", "or"}, c \in Comparisons : Compare(op, c) BY <1>1, CompareKeepsInv
<1>2. CASE \E op, inner \in {"and", "or"}, c, d \in Grouped, modified \in BOOLEAN :
             CompareGroup(op, inner, c, d, modified)
  BY <1>2, CompareGroupKeepsInv
<1>3. CASE \E f \in Fields \cup BadFields, direction \in {"ascending", "descending"},
              nulls \in {"first", "last"} : OrderBy(f, direction, nulls)
  BY <1>3, OrderByKeepsInv
<1>4. CASE \E n \in Pages : Limit(n) \/ Offset(n) BY <1>4, LimitKeepsInv, OffsetKeepsInv
<1>5. CASE Send \/ SendForeign BY <1>5, SendKeepsInv
<1>6. CASE UNCHANGED builderVars
  BY <1>6 DEF builderVars, BuildersInv, Delivered, InStep
<1> QED BY <1>1, <1>2, <1>3, <1>4, <1>5, <1>6 DEF BuildersNext

LEMMA BuildersInvHolds == BuildersSpec => []BuildersInv
<1>1. BuildersInit => BuildersInv BY BuildersInvInitially
<1>2. BuildersInv /\ [BuildersNext]_builderVars => BuildersInv' BY BuildersInvNext
<1> QED BY <1>1, <1>2, PTL DEF BuildersSpec

\* The query the engine runs is the one the Dart client built: the codec, the
\* tags and decode_query bring it unchanged, its values spelled as in a record.
THEOREM BuildersQueryArrives == BuildersSpec => []QueryArrives
<1>1. BuildersInv => QueryArrives BY DEF BuildersInv, Delivered, QueryArrives
<1> QED BY <1>1, BuildersInvHolds, PTL

\* A mixed chain of and and or means what its calls say from left to right,
\* whatever each of them says of a record (BoxQueryBuilder._append).
THEOREM BuildersLeftAssociative == BuildersSpec => []LeftAssociative
<1>1. BuildersInv => LeftAssociative
  <2> SUFFICES ASSUME BuildersInv, Sent, calls # <<>>
               PROVE  \A verdict : Holds(received.where, verdict) = Said(CarriedCalls, verdict)
    BY DEF LeftAssociative
  <2>1. received = [dart EXCEPT !.where = Carried(@)] BY DEF BuildersInv, Delivered, Sent
  <2>2. received.where = Carried(dart.where) BY <2>1 DEF BuildersInv, PageBuilt, Spec_
  <2>3. CarriedIn(calls) = CarriedCalls BY DEF CarriedIn, CarriedCalls
  <2> QED BY <2>2, <2>3 DEF BuildersInv, Chain
<1> QED BY <1>1, BuildersInvHolds, PTL

\* As long as both builders have the same calls, the flat conjunction of Rust
\* holds and fails where the nested one of Dart does, with the same page, and
\* one reports an error when the other threw, the first (QueryBuilder::find).
THEOREM BuildersFrontendsAgree == BuildersSpec => []FrontendsAgree
<1>1. BuildersInv => FrontendsAgree
  <2> SUFFICES ASSUME BuildersInv, common
               PROVE  /\ rust.error = FirstOf(rejected)
                      /\ Find # Rejected <=> calls # <<>> /\ rejected = <<>>
                      /\ Find # Rejected =>
                           /\ [Find EXCEPT !.where = dart.where] = dart
                           /\ \A verdict : Holds(dart.where, verdict) = Holds(Find.where, verdict)
    BY DEF FrontendsAgree, FirstOf
  <2>1. /\ IsRust(rust) /\ rust.error = FirstOf(rejected) /\ PageBuilt(dart)
        /\ rejected \in Seq(Refusals) /\ calls \in Seq(CallsOf)
        /\ rejected = <<>> => Flat(calls, dart.where, rust.filters) /\ SamePage(dart, rust)
    BY DEF BuildersInv, InStep, Chain
  <2>2. rejected = <<>> <=> rust.error = "none"
    <3>1. CASE rejected = <<>> BY <2>1, <3>1 DEF FirstOf
    <3>2. CASE rejected # <<>>
      <4>1. 1 \in DOMAIN rejected BY <2>1, <3>2, EmptySeq, SeqParts
      <4>2. rejected[1] \in Refusals BY <2>1, <4>1, SeqParts
      <4>3. "none" \notin Refusals BY DEF Refusals
      <4> QED BY <2>1, <3>2, <4>2, <4>3 DEF FirstOf
    <3> QED BY <3>1, <3>2
  <2>3. CASE rejected # <<>> \/ calls = <<>>
    <3>1. Find = Rejected
      <4>1. CASE rejected # <<>> BY <2>2, <4>1 DEF Find
      <4>2. CASE rejected = <<>> /\ calls = <<>>
        <5>1. Len(rust.filters) = 0 /\ rust.filters \in Seq(RustFilters) BY <2>1, <4>2 DEF Flat
        <5>2. rust.filters = <<>> BY <5>1, EmptySeq
        <5> QED BY <5>2 DEF Find
      <4> QED BY <2>3, <4>1, <4>2
    <3> QED BY <2>1, <2>3, <3>1
  <2>4. CASE rejected = <<>> /\ calls # <<>>
    <3> DEFINE fs == rust.filters
               where == IF Len(fs) = 1 THEN fs[1] ELSE Group("and", fs)
    <3>1. /\ fs \in Seq(RustFilters) /\ Len(fs) = Len(calls) /\ SamePage(dart, rust)
          /\ \A verdict : Holds(dart.where, verdict) = FirstVerdict("and", fs, verdict)
      BY <2>1, <2>4 DEF Flat
    <3>2. Len(calls) \in Nat /\ Len(calls) # 0 BY <2>1, <2>4, EmptySeq, SeqParts
    <3>3. fs # <<>> BY <3>1, <3>2
    <3>4. Find = Spec_(where, rust.sorts, rust.limit, rust.offset) BY <2>2, <2>4, <3>3 DEF Find
    <3> HIDE DEF fs
    <3>5. where # NoFilter /\ \A verdict : Holds(where, verdict) = FirstVerdict("and", fs, verdict)
      <4>1. CASE Len(fs) = 1
        <5>1. where = fs[1] /\ fs[1] \in RustFilters BY <3>1, <4>1, SeqParts
        <5>2. fs = <<fs[1]>>
          <6>1. fs = [i \in 1..Len(fs) |-> fs[i]] BY <3>1, LenProperties
          <6> QED BY <4>1, <6>1
        <5>3. \A verdict : FirstVerdict("and", <<fs[1]>>, verdict) = Holds(fs[1], verdict)
          BY VerdictOfFew
        <5> HIDE DEF where
        <5>4. \A verdict : FirstVerdict("and", fs, verdict) = Holds(where, verdict)
          BY <5>1, <5>2, <5>3
        <5>5. where # NoFilter BY <5>1 DEF RustFilters
        <5> QED BY <5>4, <5>5
      <4>2. CASE Len(fs) # 1
        <5>1. where = Group("and", fs) BY <4>2
        <5>2. where # NoFilter BY <5>1, GroupMeans DEF NoFilter
        <5>3. fs \in Seq(WireTrees) /\ Group("and", fs) \in WireTrees BY <3>1, RustFiltersAreWires
        <5> HIDE DEF where
        <5>4. \A verdict : Holds(where, verdict) = FirstVerdict("and", fs, verdict)
          BY <5>1, <5>3, GroupHolds
        <5> QED BY <5>2, <5>4
      <4> QED BY <4>1, <4>2
    <3> HIDE DEF where
    <3>6. Find.where = where BY <3>4 DEF Spec_
    <3>7. Find # Rejected
      <4>1. Rejected.where = NoFilter BY DEF Rejected, Spec_
      <4> QED BY <3>5, <3>6, <4>1
    <3>8. [Find EXCEPT !.where = dart.where] = dart
      <4>1. dart = Spec_(dart.where, dart.sortBy, dart.limit, dart.offset) BY <2>1 DEF PageBuilt
      <4>2. rust.sorts = dart.sortBy /\ rust.limit = dart.limit /\ rust.offset = dart.offset
        BY <3>1 DEF SamePage
      <4>3. [Find EXCEPT !.where = dart.where] = Spec_(dart.where, rust.sorts, rust.limit, rust.offset)
        BY <3>4 DEF Spec_
      <4> QED BY <4>1, <4>2, <4>3
    <3> QED BY <2>1, <2>4, <3>1, <3>5, <3>6, <3>7, <3>8
  <2> QED BY <2>3, <2>4
<1> QED BY <1>1, BuildersInvHolds, PTL

\* Whatever payload a frontend sends, what decode_query lets through can be
\* run: no empty group, no malformed field, no open range, no empty page.
THEOREM BuildersEngineGetsWellformed == BuildersSpec => []EngineGetsWellformed
<1>1. BuildersInv => EngineGetsWellformed
  <2> SUFFICES ASSUME BuildersInv, Sent PROVE EngineGetsWellformed BY DEF EngineGetsWellformed
  <2>1. received # NotSent /\ received # Rejected BY DEF Sent
  <2>2. PICK w \in WireTrees : received = DecodeQuery(w) BY <2>1 DEF BuildersInv, Delivered
  <2>3. Runnable(received) BY <2>1, <2>2, DecodedIsRunnable
  <2> QED BY <2>3 DEF Runnable, EngineGetsWellformed
<1> QED BY <1>1, BuildersInvHolds, PTL
=============================================================================
