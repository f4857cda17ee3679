---------------------------- MODULE NumericOrder ----------------------------
(***************************************************************************)
(* The order of numbers (compare_numeric of query.rs) and the canonical    *)
(* token of a number in an encrypted index (index_token.rs).  BoxQuery     *)
(* gives a number one rank whatever its encoding; this module is why it    *)
(* may.  MessagePack has signed and unsigned 64-bit integers and doubles,  *)
(* which meet at 2^63 and 2^64 and nowhere convert without loss.           *)
(*                                                                         *)
(* A number is its type, its integral part and its fraction, in Parts of   *)
(* one and with the sign of the number, as f64::trunc splits it.           *)
(***************************************************************************)
EXTENDS Integers

CONSTANTS
  Half,      \* 2^63: signed integers are -Half..Half-1, unsigned 0..2*Half-1
  Parts,     \* fractions of one a double tells apart
  Numbers,   \* the numbers of this instance
  RecordIds,
  NoNumber

Special(t) == [t |-> t, whole |-> 0, part |-> 0]
NaN     == Special("nan")
PosInf  == Special("+inf")
NegInf  == Special("-inf")
NegZero == Special("-0.0")

Integers64 == [t : {"int"}, whole : -Half..(2 * Half - 1), part : {0}]
Doubles ==
  {x \in [t : {"float"}, whole : Int, part : (1 - Parts)..(Parts - 1)] :
     (x.whole > 0 => x.part >= 0) /\ (x.whole < 0 => x.part <= 0)}
AllNumbers == Integers64 \cup Doubles \cup {NaN, PosInf, NegInf, NegZero}

ASSUME HalfAssumption     == Half \in Nat \ {0}
ASSUME PartsAssumption    == Parts \in Nat \ {0}
ASSUME NumbersAssumption  == Numbers \subseteq AllNumbers
ASSUME NoNumberAssumption == NoNumber \notin AllNumbers

-----------------------------------------------------------------------------
Cmp(m, n) == IF m < n THEN "less" ELSE IF m = n THEN "equal" ELSE "greater"
ReverseOrdering(ordering) ==
  CASE ordering = "less" -> "greater" [] ordering = "greater" -> "less" [] OTHER -> ordering

\* The cast of a double to an integer saturates.
Saturate(n, low, high) == IF n < low THEN low ELSE IF n > high THEN high ELSE n

\* The integer against the truncated double; the fraction decides a tie.
AgainstTruncated(n, truncated, x) ==
  IF n # truncated THEN Cmp(n, truncated)
  ELSE IF x.part = 0 THEN "equal" ELSE IF x.part > 0 THEN "less" ELSE "greater"

\* Seeded fault: a double of exactly 2^63 is left to the cast.
CompareI64F64OffByOne(n, x) ==
  CASE x.t = "nan"  -> "none"
    [] x.t = "-inf" -> "greater"
    [] x.t = "+inf" -> "less"
    [] OTHER ->
         IF x.whole > Half \/ (x.whole = Half /\ x.part > 0) THEN "less"
         ELSE IF x.whole < -Half \/ (x.whole = -Half /\ x.part < 0) THEN "greater"
         ELSE AgainstTruncated(n, Saturate(x.whole, -Half, Half - 1), x)

CompareI64F64(n, x) ==
  CASE x.t = "nan"  -> "none"
    [] x.t = "-inf" -> "greater"
    [] x.t = "+inf" -> "less"
    [] OTHER ->
         IF x.whole >= Half THEN "less"
         ELSE IF x.whole < -Half \/ (x.whole = -Half /\ x.part < 0) THEN "greater"
         ELSE AgainstTruncated(n, Saturate(x.whole, -Half, Half - 1), x)

CompareU64F64(n, x) ==
  CASE x.t = "nan"  -> "none"
    [] x.t = "-inf" -> "greater"
    [] x.t = "+inf" -> "less"
    [] OTHER ->
         IF x.whole < 0 \/ x.part < 0 THEN "greater"
         ELSE IF x.whole >= 2 * Half THEN "less"
         ELSE AgainstTruncated(n, Saturate(x.whole, 0, 2 * Half - 1), x)

\* partial_cmp of two doubles.
CompareF64(x, y) ==
  IF "nan" \in {x.t, y.t} THEN "none"
  ELSE IF x.t = y.t /\ x.t \in {"-inf", "+inf"} THEN "equal"
  ELSE IF x.t = "-inf" \/ y.t = "+inf" THEN "less"
  ELSE IF x.t = "+inf" \/ y.t = "-inf" THEN "greater"
  ELSE IF x.whole # y.whole THEN Cmp(x.whole, y.whole) ELSE Cmp(x.part, y.part)

\* as_numeric tries the signed integer first.
AsNumeric(x) ==
  IF x.t # "int" THEN "float" ELSE IF x.whole < Half THEN "signed" ELSE "unsigned"

CompareNumeric(x, y) ==
  LET a == AsNumeric(x) b == AsNumeric(y) IN
  CASE a = "signed" /\ b = "unsigned" -> IF x.whole < 0 THEN "less" ELSE Cmp(x.whole, y.whole)
    [] a = "unsigned" /\ b = "signed" -> IF y.whole < 0 THEN "greater" ELSE ReverseOrdering(Cmp(y.whole, x.whole))
    [] a = b /\ a # "float"           -> Cmp(x.whole, y.whole)
    [] a = "float" /\ b = "float"     -> CompareF64(x, y)
    [] a = "signed" /\ b = "float"    -> CompareI64F64(x.whole, y)
    [] a = "float" /\ b = "signed"    -> ReverseOrdering(CompareI64F64(y.whole, x))
    [] a = "unsigned" /\ b = "float"  -> CompareU64F64(x.whole, y)
    [] a = "float" /\ b = "unsigned"  -> ReverseOrdering(CompareU64F64(y.whole, x))

ValuesEqual(x, y) == CompareNumeric(x, y) = "equal"

-----------------------------------------------------------------------------
PushInteger(n) ==
  [tag |-> IF n < 0 THEN "0x10" ELSE "0x11", n |-> n, bits |-> NaN]
PushBits(x) == [tag |-> "0x12", n |-> 0, bits |-> x]

\* Seeded fault: a double keeps its bits in the token.
TokenOfBits(x) == IF x.t = "int" THEN PushInteger(x.whole) ELSE PushBits(x)

\* canonical_equality_scalar: a double that is an integer of 64 bits is written
\* as that integer, zero and minus zero alike.
Token(x) ==
  IF \/ x.t = "int"
     \/ x.t \in {"float", "-0.0"} /\ x.part = 0 /\ -Half <= x.whole /\ x.whole < 2 * Half
  THEN PushInteger(x.whole)
  ELSE PushBits(x)

-----------------------------------------------------------------------------
VARIABLES
  data,      \* the number each record has in the indexed field, or NoNumber
  entries    \* the entries of the encrypted index: [token, key]

numberVars == <<data, entries>>

NumbersInit == data = [k \in RecordIds |-> NoNumber] /\ entries = {}

EntriesOf(k, x) == IF x = NoNumber THEN {} ELSE {[token |-> Token(x), key |-> k]}

\* maintain_put: the entry of the old value goes, the one of the new comes.
PutNumber(k, x) ==
  /\ data' = [data EXCEPT ![k] = x]
  /\ entries' = (entries \ EntriesOf(k, data[k])) \cup EntriesOf(k, x)

\* maintain_delete
DeleteNumber(k) ==
  /\ data[k] # NoNumber
  /\ data' = [data EXCEPT ![k] = NoNumber]
  /\ entries' = entries \ EntriesOf(k, data[k])

NumbersNext == \E k \in RecordIds : DeleteNumber(k) \/ \E x \in Numbers : PutNumber(k, x)

NumbersSpec == NumbersInit /\ [][NumbersNext]_numberVars

-----------------------------------------------------------------------------
\* The order of the real numbers, in which NaN has no place.
Finite(x) == x.t \in {"int", "float", "-0.0"}
Value(x)  == Parts * x.whole + x.part
Exact(x, y) ==
  IF "nan" \in {x.t, y.t} THEN "none"
  ELSE IF Finite(x) /\ Finite(y) THEN Cmp(Value(x), Value(y))
  ELSE IF x.t = y.t THEN "equal"
  ELSE IF x.t = "-inf" \/ y.t = "+inf" THEN "less"
  ELSE "greater"

Scan(y)   == {k \in RecordIds : data[k] # NoNumber /\ ValuesEqual(data[k], y)}
Lookup(y) == {k \in RecordIds : [token |-> Token(y), key |-> k] \in entries}

\* Records hold numbers of the wire, and the index has the entry of each record
\* and no other, however often a record changed its encoding.
IndexInStep ==
  /\ data \in [RecordIds -> Numbers \cup {NoNumber}]
  /\ entries = UNION {EntriesOf(k, data[k]) : k \in RecordIds}

\* Sorting and range filters follow the real numbers for every pair of stored
\* encodings, also where a double is one step beyond an integer type.
SortFollowsReals ==
  \A j, k \in RecordIds : data[j] # NoNumber /\ data[k] # NoNumber =>
    CompareNumeric(data[j], data[k]) = Exact(data[j], data[k])

\* An equality over an encrypted index finds every record a scan of the box
\* finds, whatever the encodings; the filter then drops a NaN, which has a
\* token and equals nothing.
LookupFindsAll ==
  \A y \in Numbers : LET found == Lookup(y) hits == Scan(y)
                     IN  hits \subseteq found /\ (y # NaN => found = hits)
=============================================================================
