-------------------------- MODULE BoxStorageProofs --------------------------
(***************************************************************************)
(* The storage invariants of BoxStorage for every value of its constants.  *)
(***************************************************************************)
EXTENDS BoxStorageRefinement, SequenceTheorems, TLAPS

USE ConstantsAssumption

-----------------------------------------------------------------------------
(* Contents and the operators on them.                                     *)

\* An entry is well typed when its scalar is one.
LEMMA EntryType ==
  ASSUME NEW by \in Ciphers, NEW i \in IndexNames, NEW f \in Fields,
         NEW k \in Keys, NEW v \in Values, HasScalar(v, f)
  PROVE  EntryOf(by, i, f, k, v) \in Entries
  <1> DEFINE s == ScalarOf(v, f)
  <1>1. s \in Scalars /\ Canon[s] \in Scalars
    BY DEF HasScalar
  <1>2. PersistedScalar(by, i, f, s) \in Tokens
    <2>1. CASE by = Plain
      BY <1>1, <2>1 DEF PersistedScalar, Tokens
    <2>2. CASE by # Plain
      BY <1>1, <2>2 DEF PersistedScalar, Tokens, Ciphers
    <2>3. QED BY <2>1, <2>2
  <1>3. QED BY <1>2 DEF EntryOf, Entries

\* Which entries a record contributes.
LEMMA EntriesForMember ==
  ASSUME NEW c, NEW by, NEW k, NEW v, NEW e
  PROVE  e \in EntriesFor(c, by, k, v) <=>
           \E i \in Defined(c) : /\ HasScalar(v, c.defs[i])
                                 /\ e = EntryOf(by, i, c.defs[i], k, v)
  BY DEF EntriesFor

\* Which entries a content must have.
LEMMA DerivedMember ==
  ASSUME NEW c, NEW e
  PROVE  e \in Derived(c) <=>
           \E k \in Present(c) : \E i \in Defined(c) :
              /\ HasScalar(c.val[k], c.defs[i])
              /\ e = EntryOf(c.by[k], i, c.defs[i], k, c.val[k])
  <1>1. e \in Derived(c) <=> \E k \in Present(c) : e \in EntriesFor(c, c.by[k], k, c.val[k])
    BY DEF Derived
  <1>2. QED BY <1>1, EntriesForMember

LEMMA EntriesForType ==
  ASSUME NEW c \in Content, NEW by \in Ciphers, NEW k \in Keys, NEW v \in Values
  PROVE  EntriesFor(c, by, k, v) \subseteq Entries
  <1> SUFFICES ASSUME NEW e \in EntriesFor(c, by, k, v) PROVE e \in Entries
    OBVIOUS
  <1>1. PICK i \in Defined(c) : /\ HasScalar(v, c.defs[i])
                                /\ e = EntryOf(by, i, c.defs[i], k, v)
    BY EntriesForMember
  <1>2. i \in IndexNames /\ c.defs[i] \in Fields
    BY DEF Defined, Content
  <1>3. QED BY <1>1, <1>2, EntryType

\* Entries carry the record and the index they belong to.
LEMMA EntryOwner ==
  ASSUME NEW by, NEW i, NEW f, NEW k, NEW v
  PROVE  EntryOf(by, i, f, k, v).record = k /\ EntryOf(by, i, f, k, v).index = i
  BY DEF EntryOf

LEMMA NoFileType == NoFile \in Content /\ EmptyFile \in Content
  <1>1. NoFile \in Content
    BY DEF NoFile, Content, Ciphers, Modes
  <1>2. QED BY <1>1 DEF EmptyFile, NoFile, Content

LEMMA WrittenType ==
  ASSUME NEW c \in Content, NEW by \in Ciphers, NEW k \in Keys, NEW v \in Values
  PROVE  /\ Written(c, by, k, v) \in Content
         /\ Removed(c, by, k) \in Content
  <1>1. EntriesFor(c, by, k, v) \subseteq Entries
    BY EntriesForType
  <1>2. Plain \in Ciphers
    BY DEF Ciphers
  <1>3. Written(c, by, k, v) \in Content
    BY <1>1 DEF Written, Content
  <1>4. Removed(c, by, k) \in Content
    BY <1>2 DEF Removed, Content
  <1>5. QED BY <1>3, <1>4

-----------------------------------------------------------------------------
(* Consistency of the entries with the records.                            *)

LEMMA DerivedWithoutDefinitions ==
  ASSUME NEW c, Defined(c) = {}
  PROVE  Derived(c) = {}
  BY DerivedMember

\* maintain_put keeps the entries exact when every record is stored under by.
LEMMA WrittenConsistent ==
  ASSUME NEW c \in Content, NEW by \in Ciphers, NEW k \in Keys, NEW v \in Values,
         Consistent(c), AllUnder(c, by),
         profile = "full" \/ Defined(c) = {}
  PROVE  Consistent(Written(c, by, k, v))
  <1> DEFINE d == Written(c, by, k, v)
  <1>1. /\ d.defs = c.defs
        /\ d.val = [c.val EXCEPT ![k] = v]
        /\ d.by = [c.by EXCEPT ![k] = by]
        /\ profile = "full" =>
             d.entries = (c.entries \ OldEntries(c, by, k)) \cup EntriesFor(c, by, k, v)
        /\ profile # "full" => d.entries = c.entries
    BY DEF Written, Content
  <1>2. Defined(d) = Defined(c)
    BY <1>1 DEF Defined
  <1>3. v # Absent /\ Present(d) = Present(c) \cup {k}
    BY <1>1 DEF Present, Content
  <1>4. \A j \in Present(d) : /\ j # k => d.val[j] = c.val[j] /\ d.by[j] = c.by[j]
                              /\ j = k => d.val[j] = v /\ d.by[j] = by
    BY <1>1, <1>3 DEF Present, Content
  <1>5. CASE profile = "full"
    <2>1. ASSUME NEW e \in d.entries PROVE e \in Derived(d)
      <3>1. CASE e \in EntriesFor(c, by, k, v)
        <4>1. PICK i \in Defined(c) : /\ HasScalar(v, c.defs[i])
                                      /\ e = EntryOf(by, i, c.defs[i], k, v)
          BY <3>1, EntriesForMember
        <4>2. k \in Present(d) /\ d.val[k] = v /\ d.by[k] = by
          BY <1>3, <1>4
        <4>3. QED BY <4>1, <4>2, <1>1, <1>2, DerivedMember
      <3>2. CASE e \in c.entries /\ e \notin OldEntries(c, by, k)
        <4>1. PICK j \in Present(c), i \in Defined(c) :
                 /\ HasScalar(c.val[j], c.defs[i])
                 /\ e = EntryOf(c.by[j], i, c.defs[i], j, c.val[j])
          BY <3>2, DerivedMember DEF Consistent
        <4>2. j # k
          <5>1. SUFFICES ASSUME j = k PROVE FALSE
            OBVIOUS
          <5>2. c.by[j] = by
            BY DEF AllUnder
          <5>3. e \in EntriesFor(c, by, k, c.val[k])
            BY <5>1, <5>2, <4>1, EntriesForMember
          <5>4. QED BY <5>1, <5>3, <3>2 DEF OldEntries
        <4>3. j \in Present(d) /\ d.val[j] = c.val[j] /\ d.by[j] = c.by[j]
          BY <4>2, <1>3, <1>4
        <4>4. QED BY <4>1, <4>3, <1>1, <1>2, DerivedMember
      <3>3. QED BY <3>1, <3>2, <1>1, <1>5
    <2>2. ASSUME NEW e \in Derived(d) PROVE e \in d.entries
      <3>1. PICK j \in Present(d), i \in Defined(d) :
               /\ HasScalar(d.val[j], d.defs[i])
               /\ e = EntryOf(d.by[j], i, d.defs[i], j, d.val[j])
        BY DerivedMember
      <3>2. CASE j = k
        <4>1. e \in EntriesFor(c, by, k, v)
          BY <3>1, <3>2, <1>1, <1>2, <1>4, EntriesForMember
        <4>2. QED BY <4>1, <1>1, <1>5
      <3>3. CASE j # k
        <4>1. j \in Present(c) /\ d.val[j] = c.val[j] /\ d.by[j] = c.by[j]
          BY <3>3, <1>3, <1>4
        <4>2. e \in c.entries
          BY <3>1, <4>1, <1>1, <1>2, DerivedMember DEF Consistent
        <4>3. e \notin OldEntries(c, by, k)
          <5>1. SUFFICES ASSUME e \in OldEntries(c, by, k) PROVE FALSE
            OBVIOUS
          <5>2. e \in EntriesFor(c, by, k, c.val[k])
            BY <5>1 DEF OldEntries
          <5>3. e.record = k
            BY <5>2, EntriesForMember, EntryOwner
          <5>4. e.record = j
            BY <3>1, EntryOwner
          <5>5. QED BY <5>3, <5>4, <3>3
        <4>4. QED BY <4>2, <4>3, <1>1, <1>5
      <3>4. QED BY <3>2, <3>3
    <2>3. QED BY <2>1, <2>2 DEF Consistent
  <1>6. CASE profile # "full"
    <2>1. Defined(c) = {} /\ Defined(d) = {}
      BY <1>2, <1>6
    <2>2. c.entries = {} /\ Derived(d) = {}
      BY <2>1, DerivedWithoutDefinitions DEF Consistent
    <2>3. QED BY <2>2, <1>1, <1>6 DEF Consistent
  <1>7. QED BY <1>5, <1>6

\* maintain_delete keeps them exact.
LEMMA RemovedConsistent ==
  ASSUME NEW c \in Content, NEW by \in Ciphers, NEW k \in Present(c),
         Consistent(c), AllUnder(c, by),
         profile = "full" \/ Defined(c) = {}
  PROVE  Consistent(Removed(c, by, k))
  <1> DEFINE d == Removed(c, by, k)
  <1>1. /\ d.defs = c.defs
        /\ d.val = [c.val EXCEPT ![k] = Absent]
        /\ d.by = [c.by EXCEPT ![k] = Plain]
        /\ profile = "full" => d.entries = c.entries \ OldEntries(c, by, k)
        /\ profile # "full" => d.entries = c.entries
    BY DEF Removed, Content
  <1>2. Defined(d) = Defined(c)
    BY <1>1 DEF Defined
  <1>3. /\ Present(d) = Present(c) \ {k}
        /\ \A j \in Present(d) : d.val[j] = c.val[j] /\ d.by[j] = c.by[j]
    BY <1>1 DEF Present, Content
  <1>4. OldEntries(c, by, k) = EntriesFor(c, c.by[k], k, c.val[k])
    BY DEF OldEntries, AllUnder
  <1>5. CASE profile = "full"
    <2>1. ASSUME NEW e \in d.entries PROVE e \in Derived(d)
      <3>1. e \in c.entries /\ e \notin EntriesFor(c, c.by[k], k, c.val[k])
        BY <1>1, <1>4, <1>5
      <3>2. PICK j \in Present(c), i \in Defined(c) :
               /\ HasScalar(c.val[j], c.defs[i])
               /\ e = EntryOf(c.by[j], i, c.defs[i], j, c.val[j])
        BY <3>1, DerivedMember DEF Consistent
      <3>3. j # k
        BY <3>1, <3>2, EntriesForMember
      <3>4. j \in Present(d) /\ d.val[j] = c.val[j] /\ d.by[j] = c.by[j]
        BY <3>3, <1>3
      <3>5. QED BY <3>2, <3>4, <1>1, <1>2, DerivedMember
    <2>2. ASSUME NEW e \in Derived(d) PROVE e \in d.entries
      <3>1. PICK j \in Present(d), i \in Defined(d) :
               /\ HasScalar(d.val[j], d.defs[i])
               /\ e = EntryOf(d.by[j], i, d.defs[i], j, d.val[j])
        BY DerivedMember
      <3>2. j # k /\ j \in Present(c)
        BY <1>3
      <3>3. e \in c.entries
        BY <3>1, <3>2, <1>1, <1>2, <1>3, DerivedMember DEF Consistent
      <3>4. e.record = j
        BY <3>1, EntryOwner
      <3>5. e \notin EntriesFor(c, c.by[k], k, c.val[k])
        BY <3>2, <3>4, EntriesForMember, EntryOwner
      <3>6. QED BY <3>3, <3>5, <1>1, <1>4, <1>5
    <2>3. QED BY <2>1, <2>2 DEF Consistent
  <1>6. CASE profile # "full"
    <2>1. Defined(c) = {} /\ Defined(d) = {}
      BY <1>2, <1>6
    <2>2. c.entries = {} /\ Derived(d) = {}
      BY <2>1, DerivedWithoutDefinitions DEF Consistent
    <2>3. QED BY <2>2, <1>1, <1>6 DEF Consistent
  <1>7. QED BY <1>5, <1>6

\* create's backfill: every record under by, the name not yet defined.
LEMMA BackfilledConsistent ==
  ASSUME NEW c \in Content, NEW by \in Ciphers, NEW i \in IndexNames, NEW f \in Fields,
         Consistent(c), AllUnder(c, by), c.defs[i] = NoField
  PROVE  /\ Backfilled(c, by, i, f) \in Content
         /\ Consistent(Backfilled(c, by, i, f))
  <1> DEFINE d == Backfilled(c, by, i, f)
             derived == { EntryOf(by, i, f, k, c.val[k])
                          : k \in {j \in Present(c) : HasScalar(c.val[j], f)} }
  <1>1. /\ d.val = c.val /\ d.by = c.by
        /\ d.defs = [c.defs EXCEPT ![i] = f]
        /\ d.entries = c.entries \cup derived
    BY DEF Backfilled, Content
  <1>2. /\ Present(d) = Present(c)
        /\ Defined(d) = Defined(c) \cup {i} /\ i \notin Defined(c)
        /\ d.defs[i] = f
        /\ \A j \in Defined(c) : d.defs[j] = c.defs[j]
    BY <1>1 DEF Present, Defined, Content
  <1>3. derived \subseteq Entries
    BY EntryType DEF Present, Content
  <1>4. d \in Content
    BY <1>3 DEF Backfilled, Content
  <1>5. ASSUME NEW e \in d.entries PROVE e \in Derived(d)
    <2>1. CASE e \in c.entries
      <3>1. PICK k \in Present(c), j \in Defined(c) :
               /\ HasScalar(c.val[k], c.defs[j])
               /\ e = EntryOf(c.by[k], j, c.defs[j], k, c.val[k])
        BY <2>1, DerivedMember DEF Consistent
      <3>2. QED BY <3>1, <1>1, <1>2, DerivedMember
    <2>2. CASE e \in derived
      <3>1. PICK k \in Present(c) : /\ HasScalar(c.val[k], f)
                                    /\ e = EntryOf(by, i, f, k, c.val[k])
        BY <2>2
      <3>2. c.by[k] = by
        BY DEF AllUnder
      <3>3. QED BY <3>1, <3>2, <1>1, <1>2, DerivedMember
    <2>3. QED BY <2>1, <2>2, <1>1
  <1>6. ASSUME NEW e \in Derived(d) PROVE e \in d.entries
    <2>1. PICK k \in Present(d), j \in Defined(d) :
             /\ HasScalar(d.val[k], d.defs[j])
             /\ e = EntryOf(d.by[k], j, d.defs[j], k, d.val[k])
      BY DerivedMember
    <2>2. CASE j = i
      <3>1. c.by[k] = by
        BY <1>2 DEF AllUnder
      <3>2. e \in derived
        BY <2>1, <2>2, <3>1, <1>1, <1>2
      <3>3. QED BY <3>2, <1>1
    <2>3. CASE j # i
      <3>1. j \in Defined(c) /\ d.defs[j] = c.defs[j]
        BY <2>3, <1>2
      <3>2. e \in c.entries
        BY <2>1, <3>1, <1>1, <1>2, DerivedMember DEF Consistent
      <3>3. QED BY <3>2, <1>1
    <2>4. QED BY <2>2, <2>3
  <1>7. QED BY <1>4, <1>5, <1>6 DEF Consistent

\* drop_index removes exactly the entries of its index.
LEMMA DroppedConsistent ==
  ASSUME NEW c \in Content, NEW i \in IndexNames, Consistent(c)
  PROVE  /\ Dropped(c, i) \in Content
         /\ Consistent(Dropped(c, i))
  <1> DEFINE d == Dropped(c, i)
  <1>1. /\ d.val = c.val /\ d.by = c.by
        /\ d.defs = [c.defs EXCEPT ![i] = NoField]
        /\ d.entries = {e \in c.entries : e.index # i}
    BY DEF Dropped, Content
  <1>2. /\ Present(d) = Present(c)
        /\ Defined(d) = Defined(c) \ {i}
        /\ \A j \in Defined(d) : d.defs[j] = c.defs[j]
    BY <1>1 DEF Present, Defined, Content
  <1>3. d \in Content
    BY <1>1 DEF Dropped, Content
  <1>4. ASSUME NEW e \in d.entries PROVE e \in Derived(d)
    <2>1. PICK k \in Present(c), j \in Defined(c) :
             /\ HasScalar(c.val[k], c.defs[j])
             /\ e = EntryOf(c.by[k], j, c.defs[j], k, c.val[k])
      BY <1>1, DerivedMember DEF Consistent
    <2>2. j # i
      BY <2>1, <1>1, EntryOwner
    <2>3. QED BY <2>1, <2>2, <1>1, <1>2, DerivedMember
  <1>5. ASSUME NEW e \in Derived(d) PROVE e \in d.entries
    <2>1. PICK k \in Present(d), j \in Defined(d) :
             /\ HasScalar(d.val[k], d.defs[j])
             /\ e = EntryOf(d.by[k], j, d.defs[j], k, d.val[k])
      BY DerivedMember
    <2>2. e \in c.entries
      BY <2>1, <1>1, <1>2, DerivedMember DEF Consistent
    <2>3. e.index # i
      BY <2>1, <1>2, EntryOwner
    <2>4. QED BY <2>2, <2>3, <1>1
  <1>6. QED BY <1>3, <1>4, <1>5 DEF Consistent

\* clear empties records and entries together.
LEMMA EmptiedConsistent ==
  ASSUME NEW c \in Content, Consistent(c), profile = "full" \/ Defined(c) = {}
  PROVE  /\ Emptied(c) \in Content
         /\ Consistent(Emptied(c))
         /\ Present(Emptied(c)) = {}
         /\ SameFrame(Emptied(c), c)
  <1> DEFINE d == Emptied(c)
  <1>1. /\ d \in Content
        /\ SameFrame(d, c)
        /\ d.entries = IF profile = "full" THEN {} ELSE c.entries
        /\ d.val = [k \in Keys |-> Absent]
    BY DEF Emptied, Content, Ciphers, SameFrame
  <1>2. Present(d) = {}
    BY <1>1 DEF Present
  <1>3. Derived(d) = {}
    BY <1>2, DerivedMember
  <1>4. d.entries = {}
    BY <1>1, DerivedWithoutDefinitions DEF Consistent
  <1>5. QED BY <1>1, <1>2, <1>3, <1>4 DEF Consistent

\* Only records, definitions and entries matter to consistency.
LEMMA ConsistentDepends ==
  ASSUME NEW c, NEW d, d.val = c.val, d.by = c.by, d.defs = c.defs,
         d.entries = c.entries
  PROVE  /\ Present(d) = Present(c) /\ Defined(d) = Defined(c)
         /\ Consistent(d) <=> Consistent(c)
         /\ AllIndexable(d) <=> AllIndexable(c)
  <1>1. Present(d) = Present(c) /\ Defined(d) = Defined(c)
    BY DEF Present, Defined
  <1>2. ASSUME NEW e PROVE e \in Derived(d) <=> e \in Derived(c)
    BY <1>1, DerivedMember
  <1>3. Derived(d) = Derived(c)
    BY <1>2
  <1>4. QED BY <1>1, <1>3 DEF Consistent, AllIndexable, Indexable

\* A content without definitions, or without records, and without entries.
LEMMA ConsistentEmpty ==
  ASSUME NEW c, c.entries = {}, Defined(c) = {} \/ Present(c) = {}
  PROVE  Consistent(c) /\ AllIndexable(c)
  <1>1. Derived(c) = {}
    BY DerivedMember
  <1>2. QED BY <1>1 DEF Consistent, AllIndexable, Indexable

-----------------------------------------------------------------------------
(* The invariant holds initially.                                          *)

LEMMA InitialFile ==
  ASSUME NEW c \in {NoFile} \cup LegacyFiles
  PROVE  /\ c \in Content
         /\ Consistent(c) /\ AllIndexable(c)
         /\ Defined(c) = {} /\ c.mode = "absent" /\ c.key = Plain
         /\ \A k \in Keys : c.by[k] = Plain
         /\ c.dataTable => c.exists
         /\ ~c.dataTable => Present(c) = {}
  <1>1. CASE c = NoFile
    <2>1. Defined(c) = {} /\ Present(c) = {} /\ c.entries = {}
      BY <1>1 DEF NoFile, Defined, Present
    <2>2. QED BY <1>1, <2>1, NoFileType, ConsistentEmpty DEF NoFile
  <1>2. CASE c \in LegacyFiles
    <2>1. PICK data \in [Keys -> (Values \ Malformed) \cup {Absent}] :
             c = [EmptyFile EXCEPT !.dataTable = TRUE, !.val = data]
      BY <1>2 DEF LegacyFiles
    <2>2. data \in [Keys -> Values \cup {Absent}]
      BY <2>1
    <2>3. /\ c \in Content
          /\ c.exists /\ c.mode = "absent" /\ c.key = Plain /\ c.entries = {}
          /\ c.defs = [i \in IndexNames |-> NoField]
          /\ c.by = [k \in Keys |-> Plain] /\ c.dataTable
      BY <2>1, <2>2 DEF EmptyFile, NoFile, Content, Ciphers, Modes
    <2>4. Defined(c) = {}
      BY <2>3 DEF Defined
    <2>5. QED BY <2>3, <2>4, ConsistentEmpty
  <1>3. QED BY <1>1, <1>2

LEMMA InitIndInv == Init => IndInv
  <1> SUFFICES ASSUME Init PROVE IndInv
    OBVIOUS
  <1>1. TypeOK
    <2>1. <<>> \in Seq(Items) /\ <<>> \in Seq(Keys)
      OBVIOUS
    <2>2. NoCall \in Calls /\ NoReply \in Replies
      BY <2>1 DEF NoCall, Calls, Ops, Ciphers, NoReply, Replies
    <2>3. QED BY <2>1, <2>2, NoFileType, InitialFile
           DEF Init, TypeOK, Steps, Ciphers
  <1>2. FileInv
    BY InitialFile DEF Init, FileInv, EncryptionUniform, Present
  <1>3. QED
    BY <1>1, <1>2 DEF Init, IndInv, HandleInv, WriteInv, OpenInv, EncryptInv,
       HandleMatchesFile, OpenSteps, EncryptSteps

-----------------------------------------------------------------------------
(* Facts every step uses.                                                  *)

LEMMA FinishTypes ==
  ASSUME Finish
  PROVE  /\ pc' \in Steps /\ call' \in Calls /\ work' \in Content
         /\ todo' \in Seq(Items) /\ deleted' \in Seq(Keys) /\ fresh' \in BOOLEAN
  <1>1. <<>> \in Seq(Items) /\ <<>> \in Seq(Keys)
    OBVIOUS
  <1>2. NoCall \in Calls
    BY <1>1 DEF NoCall, Calls, Ops, Ciphers
  <1>3. QED BY <1>1, <1>2, NoFileType DEF Finish, Steps

\* An idle process owes nothing to the transaction or to an open in progress.
LEMMA IdleInv ==
  ASSUME pc' = "idle"
  PROVE  WriteInv' /\ OpenInv' /\ EncryptInv'
  BY DEF WriteInv, OpenInv, EncryptInv, OpenSteps, EncryptSteps

LEMMA FileUnchanged == FileInv /\ UNCHANGED file => FileInv'
  BY DEF FileInv, EncryptionUniform

LEMMA BatchIsSequence ==
  ASSUME NEW S, NEW n \in Nat, NEW b \in [1..n -> S]
  PROVE  b \in Seq(S)
  BY SeqDef

LEMMA NoReplyType == NoReply \in Replies /\ Error \in Replies
  <1>1. <<>> \in Seq(Keys)
    OBVIOUS
  <1>2. QED BY <1>1 DEF NoReply, Error, Replies

LEMMA ClosedHandleType == [open |-> FALSE, by |-> Plain] \in [open : BOOLEAN, by : Ciphers]
  BY DEF Ciphers

-----------------------------------------------------------------------------
(* Process and open steps.                                                 *)

LEMMA ProcessPreserves == IndInv /\ ProcessStep => IndInv'
  <1> SUFFICES ASSUME IndInv, ProcessStep PROVE IndInv'
    OBVIOUS
  <1>0. TypeOK /\ FileInv /\ HandleInv /\ WriteInv /\ OpenInv /\ EncryptInv
    BY DEF IndInv
  <1>1. CASE Crash
    <2>1. TypeOK'
      BY <1>0, <1>1, FinishTypes, NoReplyType, ClosedHandleType DEF Crash, TypeOK
    <2>2. FileInv'
      BY <1>0, <1>1, FileUnchanged DEF Crash
    <2>3. HandleInv'
      BY <1>1 DEF Crash, HandleInv, HandleMatchesFile
    <2>4. WriteInv' /\ OpenInv' /\ EncryptInv'
      BY <1>1, IdleInv DEF Crash, Finish
    <2>5. QED BY <2>1, <2>2, <2>3, <2>4 DEF IndInv
  <1>2. ASSUME NEW p \in Profiles, Start(p) PROVE IndInv'
    <2>1. TypeOK'
      BY <1>0, <1>2 DEF Start, TypeOK, txnVars
    <2>2. FileInv'
      BY <1>0, <1>2, FileUnchanged DEF Start
    <2>3. ~handle.open /\ pc \notin OpenSteps
      BY <1>0, <1>2 DEF Start, HandleInv, OpenInv, Running
    <2>4. HandleInv'
      BY <2>3, <1>2 DEF Start, HandleInv, HandleMatchesFile
    <2>5. pc = "idle"
      BY <2>3, <1>0, <1>2 DEF Start, WriteInv, EncryptInv, TypeOK, Steps, EncryptSteps
    <2>6. WriteInv' /\ OpenInv' /\ EncryptInv'
      BY <2>5, <1>2, IdleInv DEF Start
    <2>7. QED BY <2>1, <2>2, <2>4, <2>6 DEF IndInv
  <1>3. QED BY <1>1, <1>2 DEF ProcessStep

\* A commit of open or encrypt_box that only touches tables and metadata.
LEMMA FrameCommit ==
  ASSUME TypeOK, FileInv,
         NEW d \in Content, file' = d,
         d.val = file.val, d.by = file.by, d.defs = file.defs,
         d.entries = file.entries, d.exists, d.dataTable,
         d.mode = "chacha20poly1305" <=> d.key # Plain,
         d.key = file.key \/ Present(file) = {}
  PROVE  FileInv'
  <1>1. /\ Present(d) = Present(file)
        /\ Consistent(d) /\ AllIndexable(d)
    BY ConsistentDepends DEF FileInv
  <1>2. EncryptionUniform'
    BY <1>1 DEF FileInv, EncryptionUniform
  <1>3. QED BY <1>1, <1>2 DEF FileInv

\* What a file without records can become.
LEMMA NoFileInv ==
  ASSUME file' \in {NoFile, EmptyFile}
  PROVE  FileInv'
  <1>1. /\ file'.entries = {} /\ ~file'.dataTable /\ file'.mode = "absent"
        /\ file'.key = Plain
        /\ Defined(file') = {} /\ Present(file') = {}
    BY DEF NoFile, EmptyFile, Defined, Present
  <1>2. Consistent(file') /\ AllIndexable(file')
    BY <1>1, ConsistentEmpty
  <1>3. QED BY <1>1, <1>2 DEF FileInv, EncryptionUniform

LEMMA OpenPreserves == IndInv /\ OpenStep => IndInv'
  <1> SUFFICES ASSUME IndInv, OpenStep PROVE IndInv'
    OBVIOUS
  <1>0. TypeOK /\ FileInv /\ HandleInv /\ WriteInv /\ OpenInv /\ EncryptInv
    BY DEF IndInv
  <1>1. ASSUME NEW p \in Ciphers, OpenCreate(p) PROVE IndInv'
    <2>1. Call("open", p, <<>>) \in Calls
      BY DEF Call, Calls, Ops
    <2>2. TypeOK'
      BY <1>0, <1>1, <2>1, NoFileType
         DEF OpenCreate, TypeOK, txnVars, Content, Steps, OpenSteps
    <2>3. ~file.exists => file' = EmptyFile
      BY <1>1 DEF OpenCreate
    <2>4. FileInv'
      <3>1. CASE file.exists
        BY <3>1, <1>0, <1>1, FileUnchanged DEF OpenCreate
      <3>2. CASE ~file.exists
        BY <3>2, <2>3, NoFileInv
      <3>3. QED BY <3>1, <3>2
    <2>5. HandleInv'
      BY <1>1 DEF OpenCreate, Closed, HandleInv, HandleMatchesFile
    <2>6. file'.exists /\ fresh' = ~file'.dataTable
      BY <1>0, <1>1 DEF OpenCreate, EmptyFile, NoFile, FileInv
    <2>7. WriteInv' /\ OpenInv' /\ EncryptInv'
      BY <2>6, <1>1 DEF OpenCreate, Closed, Running, WriteInv, OpenInv, EncryptInv,
         OpenSteps, EncryptSteps
    <2>8. QED BY <2>2, <2>4, <2>5, <2>7 DEF IndInv
  <1>2. CASE OpenInitialize
    <2> DEFINE d == [file EXCEPT !.dataTable = TRUE,
                                 !.mode = IF call.password = Plain
                                          THEN "none" ELSE "chacha20poly1305",
                                 !.key = call.password]
    <2>1. /\ ~file.dataTable /\ file.exists /\ Running /\ ~handle.open
          /\ file' = d /\ pc' = "openIndex" /\ handle' = handle
      BY <1>0, <1>2 DEF OpenInitialize, OpenInv, OpenSteps, HandleInv
    <2>2. /\ d \in Content
          /\ d.val = file.val /\ d.by = file.by /\ d.defs = file.defs
          /\ d.entries = file.entries /\ d.exists /\ d.dataTable
          /\ d.key = call.password /\ d.mode # "absent"
          /\ d.mode = "chacha20poly1305" <=> d.key # Plain
      BY <1>0, <2>1 DEF TypeOK, Content, Calls, Modes
    <2>3. FileInv'
      BY <1>0, <2>1, <2>2, FrameCommit DEF FileInv
    <2>4. TypeOK'
      BY <1>0, <1>2, <2>1, <2>2 DEF OpenInitialize, TypeOK, txnVars, Steps, OpenSteps
    <2>5. HandleInv'
      BY <2>1 DEF HandleInv, HandleMatchesFile
    <2>6. WriteInv' /\ OpenInv' /\ EncryptInv'
      BY <1>2, <2>1, <2>2 DEF OpenInitialize, WriteInv, OpenInv, EncryptInv,
         OpenSteps, EncryptSteps, Running
    <2>7. QED BY <2>3, <2>4, <2>5, <2>6 DEF IndInv
  <1>3. CASE OpenResolve
    <2> DEFINE d == IF file.mode = "absent" THEN [file EXCEPT !.mode = "none"] ELSE file
    <2>1. /\ file.dataTable /\ file.exists /\ Running /\ ~handle.open
          /\ file' = d /\ pc' = "openIndex" /\ handle' = handle
      BY <1>0, <1>3 DEF OpenResolve, OpenInv, OpenSteps, HandleInv, FileInv, TypeOK, Content
    <2>2. /\ d \in Content
          /\ d.val = file.val /\ d.by = file.by /\ d.defs = file.defs
          /\ d.entries = file.entries /\ d.exists /\ d.dataTable
          /\ d.key = file.key /\ d.mode # "absent"
          /\ d.mode = "chacha20poly1305" <=> d.key # Plain
      BY <1>0, <2>1 DEF TypeOK, Content, Modes, FileInv, EncryptionUniform
    <2>3. FileInv'
      BY <1>0, <2>1, <2>2, FrameCommit
    <2>4. call.password = d.key
      <3>1. CASE file.mode = "chacha20poly1305"
        BY <3>1, <1>3, <2>2 DEF OpenResolve, CanResolve
      <3>2. CASE file.mode \in {"absent", "none"}
        <4>1. file.key = Plain
          BY <3>2, <1>0 DEF FileInv, EncryptionUniform
        <4>2. QED BY <3>2, <4>1, <1>3, <2>2 DEF OpenResolve, CanResolve
      <3>3. QED BY <3>1, <3>2, <1>0 DEF TypeOK, Content, Modes
    <2>5. TypeOK'
      BY <1>0, <1>3, <2>1, <2>2 DEF OpenResolve, TypeOK, txnVars, Steps, OpenSteps
    <2>6. HandleInv'
      BY <2>1 DEF HandleInv, HandleMatchesFile
    <2>7. WriteInv' /\ OpenInv' /\ EncryptInv'
      BY <1>3, <2>1, <2>2, <2>4 DEF OpenResolve, WriteInv, OpenInv, EncryptInv,
         OpenSteps, EncryptSteps, Running
    <2>8. QED BY <2>3, <2>5, <2>6, <2>7 DEF IndInv
  <1>4. ASSUME OpenRefused \/ OpenFails PROVE IndInv'
    <2>1. /\ file' = file \/ file' = NoFile
          /\ Finish /\ UNCHANGED <<profile, handle, reply>>
          /\ pc \in OpenSteps /\ ~handle.open
      BY <1>0, <1>4 DEF OpenRefused, OpenFails, OpenSteps, HandleInv
    <2>2. TypeOK'
      BY <1>0, <2>1, FinishTypes, NoFileType DEF TypeOK
    <2>3. FileInv'
      BY <1>0, <2>1, FileUnchanged, NoFileInv
    <2>4. HandleInv'
      BY <2>1 DEF HandleInv, HandleMatchesFile
    <2>5. WriteInv' /\ OpenInv' /\ EncryptInv'
      BY <2>1, IdleInv DEF Finish
    <2>6. QED BY <2>2, <2>3, <2>4, <2>5 DEF IndInv
  <1>5. CASE OpenRegister
    <2> DEFINE d == IF profile = "full" THEN [file EXCEPT !.indexTables = TRUE] ELSE file
    <2>1. /\ file.dataTable /\ file.exists /\ file.mode # "absent" /\ Running
          /\ call.password = file.key /\ call.password \in Ciphers
          /\ file' = d /\ Finish /\ profile' = profile /\ reply' = reply
          /\ handle' = [open |-> TRUE, by |-> call.password]
          /\ profile # "full" => Defined(file) = {}
      BY <1>0, <1>5 DEF OpenRegister, OpenInv, OpenSteps, TypeOK, Calls
    <2>2. /\ d \in Content
          /\ d.val = file.val /\ d.by = file.by /\ d.defs = file.defs
          /\ d.entries = file.entries /\ d.exists /\ d.dataTable
          /\ d.key = file.key /\ d.mode = file.mode
          /\ profile = "full" => d.indexTables
          /\ d.mode = "chacha20poly1305" <=> d.key # Plain
      BY <1>0, <2>1 DEF TypeOK, Content, FileInv, EncryptionUniform
    <2>3. FileInv'
      BY <1>0, <2>1, <2>2, FrameCommit
    <2>4. TypeOK'
      BY <1>0, <2>1, <2>2, FinishTypes DEF TypeOK
    <2>5. Defined(d) = Defined(file)
      BY <2>2 DEF Defined
    <2>6. HandleInv'
      BY <2>1, <2>2, <2>5 DEF HandleInv, HandleMatchesFile,
         Finish, Running
    <2>7. WriteInv' /\ OpenInv' /\ EncryptInv'
      BY <2>1, IdleInv DEF Finish
    <2>8. QED BY <2>3, <2>4, <2>6, <2>7 DEF IndInv
  <1>6. CASE OpenRejectIndexes
    <2>1. ~handle.open /\ Finish /\ UNCHANGED <<profile, file, handle, reply>>
      BY <1>0, <1>6 DEF OpenRejectIndexes, HandleInv
    <2>2. TypeOK'
      BY <1>0, <2>1, FinishTypes DEF TypeOK
    <2>3. FileInv'
      BY <1>0, <2>1, FileUnchanged
    <2>4. HandleInv'
      BY <2>1 DEF HandleInv, HandleMatchesFile
    <2>5. WriteInv' /\ OpenInv' /\ EncryptInv'
      BY <2>1, IdleInv DEF Finish
    <2>6. QED BY <2>2, <2>3, <2>4, <2>5 DEF IndInv
  <1>7. CASE Close
    <2>1. TypeOK'
      BY <1>0, <1>7, NoReplyType, ClosedHandleType DEF Close, TypeOK, txnVars
    <2>2. FileInv'
      BY <1>0, <1>7, FileUnchanged DEF Close
    <2>3. HandleInv'
      BY <1>7 DEF Close, HandleInv, HandleMatchesFile
    <2>4. WriteInv' /\ OpenInv' /\ EncryptInv'
      BY <1>7, IdleInv DEF Close, Ready
    <2>5. QED BY <2>1, <2>2, <2>3, <2>4 DEF IndInv
  <1>8. CASE DeleteBox
    <2>1. TypeOK'
      BY <1>0, <1>8, NoReplyType, NoFileType DEF DeleteBox, TypeOK, txnVars
    <2>2. FileInv'
      BY <1>8, NoFileInv DEF DeleteBox
    <2>3. HandleInv'
      BY <1>8 DEF DeleteBox, Closed, HandleInv, HandleMatchesFile
    <2>4. WriteInv' /\ OpenInv' /\ EncryptInv'
      BY <1>8, IdleInv DEF DeleteBox, Closed
    <2>5. QED BY <2>1, <2>2, <2>3, <2>4 DEF IndInv
  <1>9. QED BY <1>1, <1>2, <1>3, <1>4, <1>5, <1>6, <1>7, <1>8 DEF OpenStep

-----------------------------------------------------------------------------
(* Record mutations.                                                       *)

\* The contents a write transaction builds stay good.
GoodWork(c) ==
  /\ c \in Content /\ SameFrame(c, file)
  /\ Consistent(c) /\ AllIndexable(c) /\ AllUnder(c, file.key)

\* An open handle writes under the key of the file, to a file that exists.
LEMMA OpenFacts ==
  ASSUME IndInv, handle.open
  PROVE  /\ handle.by = file.key /\ handle.by \in Ciphers /\ Running
         /\ file.exists /\ file.dataTable /\ file.mode # "absent"
         /\ profile = "full" \/ Defined(file) = {}
         /\ GoodWork(file)
  BY DEF IndInv, HandleInv, HandleMatchesFile, FileInv,
     EncryptionUniform, TypeOK, GoodWork, SameFrame, AllUnder

LEMMA BeginPreserves ==
  ASSUME IndInv, NEW op \in {"put", "delete"}, NEW batch \in Seq(Items),
         Begin(op, batch), op = "put" => batch \in Seq(Keys \X Values)
  PROVE  IndInv'
  <1>0. TypeOK /\ FileInv /\ HandleInv
    BY DEF IndInv
  <1>1. /\ handle.open /\ pc' = op /\ work' = file /\ todo' = batch
        /\ call' = Call(op, Plain, batch) /\ deleted' = <<>> /\ reply' = NoReply
        /\ UNCHANGED <<profile, file, handle, fresh>>
    BY DEF Begin, Ready
  <1>2. Call(op, Plain, batch) \in Calls
    BY DEF Call, Calls, Ops, Ciphers
  <1>3. <<>> \in Seq(Keys)
    OBVIOUS
  <1>4. TypeOK'
    BY <1>0, <1>1, <1>2, <1>3, NoReplyType DEF TypeOK, Steps
  <1>5. FileInv'
    BY <1>0, <1>1, FileUnchanged
  <1>6. HandleInv'
    BY <1>0, <1>1 DEF HandleInv, HandleMatchesFile, Running
  <1>7. WriteInv'
    BY <1>1, OpenFacts DEF WriteInv, GoodWork
  <1>8. OpenInv' /\ EncryptInv'
    BY <1>1 DEF OpenInv, EncryptInv, OpenSteps, EncryptSteps
  <1>9. QED BY <1>4, <1>5, <1>6, <1>7, <1>8 DEF IndInv

\* A step inside a write transaction: the working copy moves from good to good.
LEMMA WorkStep ==
  ASSUME IndInv, pc \in {"put", "delete"}, GoodWork(work'),
         todo' \in Seq(Items), deleted' \in Seq(Keys),
         pc = "put" => todo' \in Seq(Keys \X Values),
         UNCHANGED <<profile, file, handle, pc, call, fresh, reply>>
  PROVE  IndInv'
  <1>0. TypeOK /\ FileInv /\ HandleInv /\ WriteInv
    BY DEF IndInv
  <1>1. TypeOK'
    BY <1>0 DEF TypeOK, GoodWork
  <1>2. FileInv'
    BY <1>0, FileUnchanged
  <1>3. HandleInv'
    BY <1>0 DEF HandleInv, HandleMatchesFile, Running
  <1>4. WriteInv'
    BY <1>0 DEF WriteInv, GoodWork
  <1>5. OpenInv' /\ EncryptInv'
    BY DEF OpenInv, EncryptInv, OpenSteps, EncryptSteps
  <1>6. QED BY <1>1, <1>2, <1>3, <1>4, <1>5 DEF IndInv

\* What a transaction in progress knows.
LEMMA WriteFacts ==
  ASSUME IndInv, pc \in {"put", "delete"}
  PROVE  /\ handle.open /\ handle.by = file.key /\ handle.by \in Ciphers
         /\ profile = "full" \/ Defined(work) = {}
         /\ GoodWork(work)
  <1>1. handle.open
    BY DEF IndInv, WriteInv
  <1>2. Defined(work) = Defined(file)
    BY DEF IndInv, WriteInv, SameFrame, Defined
  <1>3. QED BY <1>1, <1>2, OpenFacts DEF IndInv, WriteInv, TypeOK, GoodWork

\* A transaction that ends without a commit leaves the file as it was.
LEMMA AbortPreserves ==
  ASSUME IndInv, Finish, UNCHANGED <<profile, file, handle>>, reply' \in Replies
  PROVE  IndInv'
  <1>0. TypeOK /\ FileInv /\ HandleInv
    BY DEF IndInv
  <1>1. TypeOK'
    BY <1>0, FinishTypes DEF TypeOK
  <1>2. FileInv'
    BY <1>0, FileUnchanged
  <1>3. HandleInv'
    BY <1>0 DEF HandleInv, HandleMatchesFile, Running, Finish
  <1>4. WriteInv' /\ OpenInv' /\ EncryptInv'
    BY IdleInv DEF Finish
  <1>5. QED BY <1>1, <1>2, <1>3, <1>4 DEF IndInv

\* An idle, open process replaces the file by a good content.
LEMMA CommitPreserves ==
  ASSUME IndInv, handle.open, GoodWork(file') \/
           ( /\ file' \in Content /\ Consistent(file') /\ AllIndexable(file')
             /\ AllUnder(file', file.key)
             /\ file'.exists = file.exists /\ file'.dataTable = file.dataTable
             /\ file'.indexTables = file.indexTables
             /\ file'.mode = file.mode /\ file'.key = file.key
             /\ profile = "full" ),
         UNCHANGED <<profile, handle>>, pc' = "idle",
         TypeOK'
  PROVE  IndInv'
  <1>1. /\ file.exists /\ file.dataTable /\ file.mode # "absent"
        /\ handle.by = file.key /\ Running
        /\ profile = "full" => file.indexTables
        /\ file.mode = "chacha20poly1305" <=> file.key # Plain
    BY OpenFacts DEF IndInv, HandleInv, HandleMatchesFile, FileInv, EncryptionUniform
  <1>2. /\ Consistent(file') /\ AllIndexable(file') /\ AllUnder(file', file'.key)
        /\ file'.exists /\ file'.dataTable /\ file'.indexTables = file.indexTables
        /\ file'.mode = file.mode /\ file'.key = file.key
        /\ profile = "full" \/ file'.defs = file.defs
    BY <1>1 DEF GoodWork, SameFrame
  <1>3. FileInv'
    BY <1>1, <1>2 DEF FileInv, EncryptionUniform, AllUnder
  <1>4. profile # "full" => Defined(file') = {}
    BY <1>2, OpenFacts DEF Defined
  <1>5. HandleInv'
    BY <1>1, <1>2, <1>4 DEF HandleInv, HandleMatchesFile, Running
  <1>6. QED BY <1>3, <1>5, IdleInv DEF IndInv

LEMMA PutEntryPreserves ==
  ASSUME IndInv, PutEntry
  PROVE  IndInv'
  <1> DEFINE k == Head(todo)[1]
             v == Head(todo)[2]
             d == Written(work, handle.by, k, v)
  <1>1. pc = "put" /\ todo # <<>> /\ todo \in Seq(Keys \X Values)
    BY DEF PutEntry, IndInv, WriteInv
  <1>2. Head(todo) \in Keys \X Values /\ Tail(todo) \in Seq(Keys \X Values)
    BY <1>1
  <1>3. k \in Keys /\ v \in Values /\ v # Absent
    BY <1>2
  <1>4. /\ GoodWork(work) /\ handle.by = file.key /\ handle.by \in Ciphers
        /\ profile = "full" \/ Defined(work) = {}
    BY <1>1, WriteFacts
  <1>5. d \in Content /\ Consistent(d)
    BY <1>3, <1>4, WrittenType, WrittenConsistent DEF GoodWork
  <1>6. /\ SameFrame(d, file) /\ d.defs = work.defs
        /\ d.val = [work.val EXCEPT ![k] = v] /\ d.by = [work.by EXCEPT ![k] = handle.by]
    BY <1>4 DEF Written, GoodWork, SameFrame, Content
  <1>7. /\ Present(d) = Present(work) \cup {k}
        /\ \A j \in Present(d) : j # k => d.val[j] = work.val[j] /\ d.by[j] = work.by[j]
        /\ d.val[k] = v /\ d.by[k] = handle.by
        /\ Defined(d) = Defined(work)
    BY <1>3, <1>4, <1>6 DEF Present, Defined, GoodWork, Content
  <1>8. Indexable(work, v)
    <2>1. CASE profile = "full"
      BY <2>1, <1>3 DEF PutEntry, Maintainable
    <2>2. CASE Defined(work) = {}
      BY <2>2 DEF Indexable
    <2>3. QED BY <2>1, <2>2, <1>4
  <1>9. AllIndexable(d)
    <2> SUFFICES ASSUME NEW j \in Present(d) PROVE Indexable(d, d.val[j])
      BY DEF AllIndexable
    <2>1. Indexable(work, d.val[j])
      BY <1>4, <1>7, <1>8 DEF GoodWork, AllIndexable
    <2>2. QED BY <2>1, <1>6, <1>7 DEF Indexable
  <1>10. AllUnder(d, file.key)
    BY <1>4, <1>7 DEF GoodWork, AllUnder
  <1>11. GoodWork(d)
    BY <1>5, <1>6, <1>9, <1>10 DEF GoodWork
  <1>12. Seq(Keys \X Values) \subseteq Seq(Items)
    BY DEF Items
  <1>13. /\ work' = d /\ todo' = Tail(todo) /\ deleted' = deleted
         /\ UNCHANGED <<profile, file, handle, pc, call, fresh, reply>>
    BY DEF PutEntry
  <1>14. deleted \in Seq(Keys)
    BY DEF IndInv, TypeOK
  <1>15. GoodWork(work')
    BY <1>11, <1>13
  <1>16. QED BY <1>1, <1>2, <1>12, <1>13, <1>14, <1>15, WorkStep

LEMMA DeleteEntryPreserves ==
  ASSUME IndInv, DeleteEntry
  PROVE  IndInv'
  <1> DEFINE k == Head(todo)[1]
             d == Removed(work, handle.by, k)
  <1>1. pc = "delete" /\ todo # <<>> /\ todo \in Seq(Items) /\ deleted \in Seq(Keys)
    BY DEF DeleteEntry, IndInv, TypeOK
  <1>2. Head(todo) \in Items /\ Tail(todo) \in Seq(Items)
    BY <1>1
  <1>3. k \in Keys
    BY <1>2 DEF Items
  <1>4. /\ GoodWork(work) /\ handle.by = file.key /\ handle.by \in Ciphers
        /\ profile = "full" \/ Defined(work) = {}
    BY <1>1, WriteFacts
  <1>5. UNCHANGED <<profile, file, handle, pc, call, fresh, reply>> /\ todo' = Tail(todo)
    BY DEF DeleteEntry
  <1>6. CASE k \in Present(work)
    <2>1. work' = d /\ deleted' = Append(deleted, k)
      BY <1>6 DEF DeleteEntry
    <2>2. d \in Content
      BY <1>3, <1>4, Plain \in Ciphers DEF Removed, GoodWork, Content, Ciphers
    <2>3. Consistent(d)
      BY <1>4, <1>6, RemovedConsistent DEF GoodWork
    <2>4. /\ SameFrame(d, file) /\ d.defs = work.defs
          /\ d.val = [work.val EXCEPT ![k] = Absent] /\ d.by = [work.by EXCEPT ![k] = Plain]
      BY <1>4 DEF Removed, GoodWork, SameFrame, Content
    <2>5. /\ Present(d) = Present(work) \ {k}
          /\ \A j \in Present(d) : d.val[j] = work.val[j] /\ d.by[j] = work.by[j]
          /\ Defined(d) = Defined(work)
      BY <1>3, <1>4, <2>4 DEF Present, Defined, GoodWork, Content
    <2>6. AllIndexable(d) /\ AllUnder(d, file.key)
      BY <1>4, <2>4, <2>5 DEF GoodWork, AllIndexable, Indexable, AllUnder
    <2>7. GoodWork(work')
      BY <2>1, <2>2, <2>3, <2>4, <2>6 DEF GoodWork
    <2>8. deleted' \in Seq(Keys)
      BY <1>1, <1>3, <2>1
    <2>9. QED BY <1>1, <1>2, <1>5, <2>7, <2>8, WorkStep
  <1>7. CASE k \notin Present(work)
    <2>1. work' = work /\ deleted' = deleted
      BY <1>7 DEF DeleteEntry
    <2>2. QED BY <1>1, <1>2, <1>4, <1>5, <2>1, WorkStep
  <1>8. QED BY <1>6, <1>7

LEMMA WritePreserves == IndInv /\ WriteStep => IndInv'
  <1> SUFFICES ASSUME IndInv, WriteStep PROVE IndInv'
    OBVIOUS
  <1>0. TypeOK
    BY DEF IndInv
  <1>1. ASSUME NEW k \in Keys, NEW v \in Values, BeginPut(k, v) PROVE IndInv'
    <2>1. <<<<k, v>>>> \in Seq(Keys \X Values) /\ <<<<k, v>>>> \in Seq(Items)
      BY DEF Items
    <2>2. QED BY <1>1, <2>1, BeginPreserves DEF BeginPut
  <1>2. ASSUME NEW batch \in PutBatches, BeginPutAll(batch) PROVE IndInv'
    <2>1. PICK n \in 1..MaxBatch : batch \in [1..n -> Keys \X Values]
      BY DEF PutBatches
    <2>2. batch \in Seq(Keys \X Values)
      BY <2>1, BatchIsSequence
    <2>3. Seq(Keys \X Values) \subseteq Seq(Items)
      BY DEF Items
    <2>4. QED BY <1>2, <2>2, <2>3, BeginPreserves DEF BeginPutAll
  <1>3. ASSUME NEW k \in Keys, BeginDelete(k) PROVE IndInv'
    <2>1. <<<<k, Absent>>>> \in Seq(Items)
      BY DEF Items
    <2>2. QED BY <1>3, <2>1, BeginPreserves DEF BeginDelete
  <1>4. ASSUME NEW ks \in KeyLists, BeginDeleteAll(ks) PROVE IndInv'
    <2> DEFINE batch == [n \in DOMAIN ks |-> <<ks[n], Absent>>]
    <2>1. PICK n \in 1..MaxBatch : ks \in [1..n -> Keys]
      BY DEF KeyLists
    <2>2. batch \in [1..n -> Items]
      BY <2>1 DEF Items
    <2>3. batch \in Seq(Items)
      BY <2>1, <2>2, BatchIsSequence
    <2>4. QED BY <1>4, <2>3, BeginPreserves DEF BeginDeleteAll
  <1>5. CASE PutEntry
    BY <1>5, PutEntryPreserves
  <1>6. CASE DeleteEntry
    BY <1>6, DeleteEntryPreserves
  <1>7. CASE Commit
    <2>1. pc \in {"put", "delete"} /\ file' = work /\ UNCHANGED <<profile, handle>>
          /\ Finish /\ reply' = Ok(deleted)
      BY <1>7 DEF Commit
    <2>2. GoodWork(file') /\ handle.open
      BY <2>1, WriteFacts
    <2>3. Ok(deleted) \in Replies
      BY <1>0 DEF Ok, Replies, TypeOK
    <2>4. TypeOK'
      BY <1>0, <2>1, <2>2, <2>3, FinishTypes DEF TypeOK, GoodWork
    <2>5. QED BY <2>1, <2>2, <2>4, CommitPreserves DEF Finish
  <1>8. CASE RefuseEntry \/ WriteFails
    BY <1>8, AbortPreserves, NoReplyType DEF RefuseEntry, WriteFails
  <1>9. CASE Clear
    <2>1. /\ handle.open /\ pc = "idle" /\ file' = Emptied(file) /\ reply' = NoReply
          /\ UNCHANGED <<profile, handle, pc, call, txnVars, fresh>>
      BY <1>9 DEF Clear, Ready
    <2>2. GoodWork(file) /\ (profile = "full" \/ Defined(file) = {})
      BY <2>1, OpenFacts
    <2>3. /\ file' \in Content /\ Consistent(file') /\ Present(file') = {}
          /\ SameFrame(file', file)
      BY <2>1, <2>2, EmptiedConsistent DEF GoodWork
    <2>4. GoodWork(file')
      BY <2>3 DEF GoodWork, AllIndexable, AllUnder
    <2>5. TypeOK'
      BY <1>0, <2>1, <2>3, NoReplyType DEF TypeOK, txnVars
    <2>6. QED BY <2>1, <2>4, <2>5, CommitPreserves
  <1>10. QED BY <1>1, <1>2, <1>3, <1>4, <1>5, <1>6, <1>7, <1>8, <1>9 DEF WriteStep

-----------------------------------------------------------------------------
(* Index definitions.                                                      *)

LEMMA IndexPreserves == IndInv /\ IndexStep => IndInv'
  <1> SUFFICES ASSUME IndInv, IndexStep PROVE IndInv'
    OBVIOUS
  <1>0. TypeOK
    BY DEF IndInv
  <1>1. ASSUME NEW i \in IndexNames, NEW f \in Fields, CreateIndex(i, f) PROVE IndInv'
    <2> DEFINE d == Backfilled(file, handle.by, i, f)
    <2>1. /\ handle.open /\ pc = "idle" /\ profile = "full" /\ file' = d
          /\ file.defs[i] = NoField
          /\ \A k \in Present(file) : ScalarOf(file.val[k], f) # Unsupported
          /\ UNCHANGED <<profile, handle, pc, call, txnVars, fresh, reply>>
      BY <1>1 DEF CreateIndex, Ready
    <2>2. GoodWork(file) /\ handle.by = file.key /\ handle.by \in Ciphers
      BY <2>1, OpenFacts
    <2>3. d \in Content /\ Consistent(d)
      BY <2>1, <2>2, BackfilledConsistent DEF GoodWork
    <2>4. /\ d.val = file.val /\ d.by = file.by
          /\ d.defs = [file.defs EXCEPT ![i] = f]
          /\ d.exists = file.exists /\ d.dataTable = file.dataTable
          /\ d.indexTables = file.indexTables
          /\ d.mode = file.mode /\ d.key = file.key
      BY <1>0 DEF Backfilled, TypeOK, Content
    <2>5. Present(d) = Present(file)
      BY <2>4 DEF Present
    <2>6. AllUnder(d, file.key)
      BY <2>2, <2>4, <2>5 DEF GoodWork, AllUnder
    <2>7. AllIndexable(d)
      <3> SUFFICES ASSUME NEW k \in Present(d), NEW j \in Defined(d)
                   PROVE  ScalarOf(d.val[k], d.defs[j]) # Unsupported
        BY DEF AllIndexable, Indexable
      <3>1. CASE j = i
        BY <3>1, <1>0, <2>1, <2>4, <2>5 DEF TypeOK, Content
      <3>2. CASE j # i
        <4>1. j \in Defined(file) /\ d.defs[j] = file.defs[j]
          BY <3>2, <1>0, <2>4 DEF Defined, TypeOK, Content
        <4>2. QED BY <4>1, <2>2, <2>4, <2>5 DEF GoodWork, AllIndexable, Indexable
      <3>3. QED BY <3>1, <3>2
    <2>8. TypeOK'
      BY <1>0, <2>1, <2>3 DEF TypeOK, txnVars
    <2>9. QED BY <2>1, <2>3, <2>4, <2>6, <2>7, <2>8, CommitPreserves
  <1>2. ASSUME NEW i \in IndexNames, DropIndex(i) PROVE IndInv'
    <2> DEFINE d == Dropped(file, i)
    <2>1. /\ handle.open /\ pc = "idle" /\ profile = "full" /\ file' = d
          /\ UNCHANGED <<profile, handle, pc, call, txnVars, fresh, reply>>
      BY <1>2 DEF DropIndex, Ready
    <2>2. GoodWork(file)
      BY <2>1, OpenFacts
    <2>3. d \in Content /\ Consistent(d)
      BY <2>2, DroppedConsistent DEF GoodWork
    <2>4. /\ d.val = file.val /\ d.by = file.by
          /\ d.defs = [file.defs EXCEPT ![i] = NoField]
          /\ d.exists = file.exists /\ d.dataTable = file.dataTable
          /\ d.indexTables = file.indexTables
          /\ d.mode = file.mode /\ d.key = file.key
      BY <1>0 DEF Dropped, TypeOK, Content
    <2>5. /\ Present(d) = Present(file)
          /\ \A j \in Defined(d) : j \in Defined(file) /\ d.defs[j] = file.defs[j]
      BY <1>0, <2>4 DEF Present, Defined, TypeOK, Content
    <2>6. AllUnder(d, file.key) /\ AllIndexable(d)
      BY <2>2, <2>4, <2>5 DEF GoodWork, AllUnder, AllIndexable, Indexable
    <2>7. TypeOK'
      BY <1>0, <2>1, <2>3 DEF TypeOK, txnVars
    <2>8. QED BY <2>1, <2>3, <2>4, <2>6, <2>7, CommitPreserves
  <1>3. QED BY <1>1, <1>2 DEF IndexStep

-----------------------------------------------------------------------------
(* encrypt_box.                                                            *)

LEMMA EncryptPreserves == IndInv /\ EncryptStep => IndInv'
  <1> SUFFICES ASSUME IndInv, EncryptStep PROVE IndInv'
    OBVIOUS
  <1>0. TypeOK /\ FileInv /\ HandleInv /\ EncryptInv
    BY DEF IndInv
  <1>1. ASSUME NEW p \in Passwords, EncryptTables(p) PROVE IndInv'
    <2> DEFINE d == [file EXCEPT !.dataTable = TRUE]
    <2>1. /\ file' = d /\ pc' = "encMeta" /\ call' = Call("encrypt", p, <<>>)
          /\ profile = "full" /\ ~handle.open /\ file.exists
          /\ UNCHANGED <<profile, handle, txnVars, fresh, reply>>
      BY <1>1 DEF EncryptTables, Closed
    <2>2. /\ d \in Content
          /\ d.val = file.val /\ d.by = file.by /\ d.defs = file.defs
          /\ d.entries = file.entries /\ d.exists /\ d.dataTable
          /\ d.key = file.key /\ d.mode = file.mode
          /\ d.mode = "chacha20poly1305" <=> d.key # Plain
      BY <1>0, <2>1 DEF TypeOK, Content, FileInv, EncryptionUniform
    <2>3. FileInv'
      BY <1>0, <2>1, <2>2, FrameCommit
    <2>4. Call("encrypt", p, <<>>) \in Calls /\ Call("encrypt", p, <<>>).password = p
      BY DEF Call, Calls, Ops, Ciphers
    <2>5. TypeOK'
      BY <1>0, <2>1, <2>2, <2>4 DEF TypeOK, txnVars, Steps, EncryptSteps
    <2>6. HandleInv'
      BY <2>1 DEF HandleInv, HandleMatchesFile
    <2>7. WriteInv' /\ OpenInv' /\ EncryptInv'
      BY <2>1, <2>2, <2>4 DEF WriteInv, OpenInv, EncryptInv, OpenSteps, EncryptSteps
    <2>8. QED BY <2>3, <2>5, <2>6, <2>7 DEF IndInv
  <1>2. CASE EncryptMeta
    <2> DEFINE d == [file EXCEPT !.mode = "none"]
    <2>1. /\ file' = d /\ pc' = "encCheck" /\ file.mode # "chacha20poly1305"
          /\ profile = "full" /\ ~handle.open /\ file.dataTable
          /\ call.password \in Passwords
          /\ UNCHANGED <<profile, handle, call, txnVars, fresh, reply>>
      BY <1>0, <1>2 DEF EncryptMeta, EncryptInv, EncryptSteps, HandleInv
    <2>2. /\ d \in Content
          /\ d.val = file.val /\ d.by = file.by /\ d.defs = file.defs
          /\ d.entries = file.entries /\ d.exists /\ d.dataTable
          /\ d.key = file.key /\ d.mode = "none" /\ d.key = Plain
      BY <1>0, <2>1 DEF TypeOK, Content, Modes, FileInv, EncryptionUniform
    <2>3. FileInv'
      BY <1>0, <2>1, <2>2, FrameCommit
    <2>4. TypeOK'
      BY <1>0, <2>1, <2>2 DEF TypeOK, txnVars, Steps, EncryptSteps
    <2>5. HandleInv'
      BY <2>1 DEF HandleInv, HandleMatchesFile
    <2>6. WriteInv' /\ OpenInv' /\ EncryptInv'
      BY <2>1, <2>2 DEF WriteInv, OpenInv, EncryptInv, OpenSteps, EncryptSteps
    <2>7. QED BY <2>3, <2>4, <2>5, <2>6 DEF IndInv
  <1>3. CASE EncryptCheck
    <2> DEFINE d == [file EXCEPT !.indexTables = TRUE]
    <2>1. /\ file' = d /\ file.mode = "none" /\ profile = "full"
          /\ ~handle.open /\ file.dataTable /\ call.password \in Passwords
          /\ UNCHANGED <<profile, handle, reply>>
      BY <1>0, <1>3 DEF EncryptCheck, EncryptInv, EncryptSteps, HandleInv
    <2>2. /\ d \in Content
          /\ d.val = file.val /\ d.by = file.by /\ d.defs = file.defs
          /\ d.entries = file.entries /\ d.exists /\ d.dataTable
          /\ d.key = file.key /\ d.mode = "none" /\ d.key = Plain
      BY <1>0, <2>1 DEF TypeOK, Content, Modes, FileInv, EncryptionUniform
    <2>3. FileInv'
      BY <1>0, <2>1, <2>2, FrameCommit
    <2>4. HandleInv'
      BY <2>1 DEF HandleInv, HandleMatchesFile
    <2>5. CASE Defined(file) = {}
      <3>1. work' = d /\ pc' = "encRewrite" /\ UNCHANGED <<call, todo, deleted, fresh>>
        BY <1>3, <2>5 DEF EncryptCheck
      <3>2. TypeOK'
        BY <1>0, <2>1, <2>2, <3>1 DEF TypeOK, Steps, EncryptSteps
      <3>3. /\ Defined(d) = {} /\ Consistent(d)
            /\ \A k \in Present(d) : d.by[k] = Plain
        <4>1. Defined(d) = {}
          BY <2>2, <2>5 DEF Defined
        <4>2. Consistent(d) /\ Present(d) = Present(file)
          BY <1>0, <2>2, ConsistentDepends DEF FileInv
        <4>3. QED BY <1>0, <2>2, <4>1, <4>2 DEF FileInv, EncryptionUniform
      <3>4. d.entries = {}
        BY <3>3, DerivedWithoutDefinitions DEF Consistent
      <3>5. WriteInv' /\ OpenInv' /\ EncryptInv'
        BY <2>1, <2>2, <3>1, <3>3, <3>4
           DEF WriteInv, OpenInv, EncryptInv, OpenSteps, EncryptSteps, SameFrame
      <3>6. QED BY <2>3, <2>4, <3>2, <3>5 DEF IndInv
    <2>6. CASE Defined(file) # {}
      <3>1. Finish
        BY <1>3, <2>6 DEF EncryptCheck
      <3>2. TypeOK'
        BY <1>0, <2>1, <2>2, <3>1, FinishTypes DEF TypeOK
      <3>3. QED BY <2>3, <2>4, <3>1, <3>2, IdleInv DEF IndInv, Finish
    <2>7. QED BY <2>5, <2>6
  <1>4. ASSUME NEW j \in Keys, EncryptRewrite(j) PROVE IndInv'
    <2> DEFINE d == [work EXCEPT !.by[j] = call.password]
    <2>1. /\ work' = d /\ pc = "encRewrite" /\ j \in Present(work)
          /\ ~handle.open /\ call.password \in Passwords
          /\ UNCHANGED <<profile, file, handle, pc, call, todo, deleted, fresh, reply>>
      BY <1>0, <1>4 DEF EncryptRewrite, EncryptInv, EncryptSteps, HandleInv
    <2>2. /\ d \in Content
          /\ d.val = work.val /\ d.defs = work.defs /\ d.entries = work.entries
          /\ d.by = [work.by EXCEPT ![j] = call.password]
          /\ d.exists = work.exists /\ d.dataTable = work.dataTable
          /\ d.indexTables = work.indexTables
          /\ d.mode = work.mode /\ d.key = work.key
      BY <1>0, <2>1 DEF TypeOK, Content, Ciphers
    <2>3. Present(d) = Present(work) /\ Defined(d) = Defined(work)
      BY <2>2 DEF Present, Defined
    <2>4. TypeOK'
      BY <1>0, <2>1, <2>2 DEF TypeOK
    <2>5. FileInv' /\ HandleInv'
      BY <1>0, <2>1, FileUnchanged
         DEF HandleInv, HandleMatchesFile
    <2>6. \A k \in Present(d) : d.by[k] \in {Plain, call.password}
      BY <1>0, <2>1, <2>2, <2>3 DEF EncryptInv, Present, TypeOK, Content
    <2>7. EncryptInv'
      BY <1>0, <2>1, <2>2, <2>3, <2>6 DEF EncryptInv, SameFrame, EncryptSteps
    <2>8. WriteInv' /\ OpenInv'
      BY <2>1 DEF WriteInv, OpenInv, OpenSteps
    <2>9. QED BY <2>4, <2>5, <2>7, <2>8 DEF IndInv
  <1>5. CASE EncryptCommit
    <2> DEFINE p == call.password
               d == [work EXCEPT !.mode = "chacha20poly1305", !.key = p]
    <2>1. /\ file' = d /\ pc = "encRewrite" /\ Finish /\ UNCHANGED <<profile, handle, reply>>
          /\ ~handle.open /\ p \in Passwords /\ file.dataTable /\ file.exists
          /\ SameFrame(work, file) /\ Defined(work) = {} /\ work.entries = {}
          /\ \A k \in Present(work) : work.by[k] = p
      BY <1>0, <1>5 DEF EncryptCommit, EncryptInv, EncryptSteps, HandleInv, FileInv
    <2>2. /\ d \in Content
          /\ d.val = work.val /\ d.defs = work.defs /\ d.entries = {} /\ d.by = work.by
          /\ d.mode = "chacha20poly1305" /\ d.key = p
          /\ d.exists /\ d.dataTable
      BY <1>0, <2>1 DEF TypeOK, Content, Ciphers, Modes, SameFrame
    <2>3. Present(d) = Present(work) /\ Defined(d) = {}
      BY <2>1, <2>2 DEF Present, Defined
    <2>4. Consistent(d) /\ AllIndexable(d)
      BY <2>2, <2>3, ConsistentEmpty
    <2>5. FileInv'
      BY <2>1, <2>2, <2>3, <2>4 DEF FileInv, EncryptionUniform
    <2>6. TypeOK'
      BY <1>0, <2>1, <2>2, FinishTypes DEF TypeOK
    <2>7. HandleInv'
      BY <2>1 DEF HandleInv, HandleMatchesFile
    <2>8. QED BY <2>1, <2>5, <2>6, <2>7, IdleInv DEF IndInv, Finish
  <1>6. CASE EncryptFails
    <2>1. reply' \in Replies
      BY <1>0, <1>6 DEF EncryptFails, TypeOK
    <2>2. QED BY <1>6, <2>1, AbortPreserves DEF EncryptFails
  <1>7. QED BY <1>1, <1>2, <1>3, <1>4, <1>5, <1>6 DEF EncryptStep

-----------------------------------------------------------------------------
(* Theorems.                                                               *)

LEMMA StutterPreserves == IndInv /\ UNCHANGED vars => IndInv'
  BY DEF vars, txnVars, IndInv, TypeOK, FileInv, EncryptionUniform, HandleInv,
     HandleMatchesFile, Running, WriteInv, OpenInv, EncryptInv

LEMMA Invariance == Spec => []IndInv
  <1>1. IndInv /\ [Next]_vars => IndInv'
    BY ProcessPreserves, OpenPreserves, WritePreserves, IndexPreserves,
       EncryptPreserves, StutterPreserves DEF Next
  <1>2. QED BY InitIndInv, <1>1, PTL DEF Spec

\* The storage variables keep their types: every transaction's working copy and
\* every committed file is a well-formed content, for any keys, payloads,
\* indexes, passwords and batch bound (db.rs, index.rs).
THEOREM TypeCorrect == Spec => []TypeOK
  <1>1. IndInv => TypeOK
    BY DEF IndInv
  <1>2. QED BY <1>1, Invariance, PTL

\* The persisted indexes describe exactly the committed records, whatever the
\* batches, crashes, failures, migrations and builds (index.rs:288-364).
THEOREM IndexesConsistent == Spec => []IndexConsistent
  <1>1. IndInv => IndexConsistent
    BY DEF IndInv, FileInv, IndexConsistent
  <1>2. QED BY <1>1, Invariance, PTL

\* Metadata and records agree on encryption in every committed state, so
\* encrypt_box is all or nothing (db.rs:539-574).
THEOREM EncryptionIsUniform == Spec => []EncryptionUniform
  <1>1. IndInv => EncryptionUniform
    BY DEF IndInv, FileInv
  <1>2. QED BY <1>1, Invariance, PTL

\* An open handle is never at odds with its file: it encrypts with the file's
\* key, its tables exist, and a reduced build sees no index it would corrupt
\* (db.rs:355-423, 341-353).
THEOREM HandlesMatchFiles == Spec => []HandleMatchesFile
  <1>1. IndInv => HandleMatchesFile
    BY DEF IndInv, HandleInv
  <1>2. QED BY <1>1, Invariance, PTL

\* What is stored can always be replaced or removed: maintain_put and
\* maintain_delete never fail on the old value (index.rs:300-311, 337-345).
THEOREM StoredRecordsAreMaintainable == Spec => []StoredRecordsMaintainable
  <1>1. ASSUME IndInv PROVE StoredRecordsMaintainable
    BY <1>1, OpenFacts DEF StoredRecordsMaintainable, GoodWork, AllUnder, AllIndexable, Decodes
  <1>2. QED BY <1>1, Invariance, PTL

-----------------------------------------------------------------------------
(* What a step may never do.                                               *)

Sticks ==
  file.mode = "chacha20poly1305" /\ file'.exists =>
    file'.mode = "chacha20poly1305" /\ file'.key = file.key

LEMMA StepSticks == IndInv /\ [Next]_vars => Sticks
  <1> SUFFICES ASSUME IndInv, [Next]_vars PROVE Sticks
    OBVIOUS
  <1>0. file \in Content /\ work \in Content
    BY DEF IndInv, TypeOK
  <1>1. CASE ProcessStep \/ UNCHANGED vars
    BY <1>1 DEF ProcessStep, Crash, Start, vars, Sticks
  <1>2. CASE OpenStep
    <2>1. ASSUME NEW p \in Ciphers, OpenCreate(p) PROVE Sticks
      BY <2>1 DEF OpenCreate, Closed, Sticks, EmptyFile, NoFile, IndInv, FileInv
    <2>2. CASE OpenInitialize
      BY <2>2 DEF OpenInitialize, Sticks, IndInv, OpenInv, FileInv
    <2>3. CASE OpenResolve
      BY <1>0, <2>3 DEF OpenResolve, Sticks
    <2>4. CASE OpenRefused \/ OpenFails \/ DeleteBox
      BY <2>4 DEF OpenRefused, OpenFails, DeleteBox, NoFile, Sticks
    <2>5. CASE OpenRegister
      BY <1>0, <2>5 DEF OpenRegister, Sticks, Content
    <2>6. CASE OpenRejectIndexes \/ Close
      BY <2>6 DEF OpenRejectIndexes, Close, Sticks
    <2>7. QED BY <1>2, <2>1, <2>2, <2>3, <2>4, <2>5, <2>6 DEF OpenStep
  <1>3. CASE WriteStep
    <2>1. CASE Commit
      BY <2>1 DEF Commit, Sticks, IndInv, WriteInv, SameFrame
    <2>2. CASE Clear
      BY <1>0, <2>2 DEF Clear, Emptied, Sticks, Content
    <2>3. CASE UNCHANGED file
      BY <2>3 DEF Sticks
    <2>4. QED BY <1>3, <2>1, <2>2, <2>3 DEF WriteStep, BeginPut, BeginPutAll, BeginDelete,
                 BeginDeleteAll, Begin, PutEntry, DeleteEntry, RefuseEntry, WriteFails
  <1>4. CASE IndexStep
    BY <1>0, <1>4 DEF IndexStep, CreateIndex, DropIndex, Backfilled, Dropped, Sticks, Content
  <1>5. CASE EncryptStep
    BY <1>0, <1>5 DEF EncryptStep, EncryptTables, EncryptMeta, EncryptCheck, EncryptRewrite,
                      EncryptCommit, EncryptFails, Sticks, Content, IndInv, EncryptInv
  <1>6. QED BY <1>1, <1>2, <1>3, <1>4, <1>5 DEF Next

\* No step but the deletion of its file takes the encryption, or the key, off
\* a box (db.rs:258-320, 515-522).
THEOREM EncryptionAlwaysSticks == Spec => EncryptionSticks
  <1>1. IndInv /\ [Next]_vars => [Sticks]_file
    BY StepSticks
  <1>2. QED BY <1>1, Invariance, PTL DEF Spec, EncryptionSticks, Sticks

\* A step made during an open, a crash included.
KeepsRecords == pc \in OpenSteps => file'.val = file.val

LEMMA StepKeepsRecords == IndInv /\ [Next]_vars => KeepsRecords
  <1> SUFFICES ASSUME IndInv, [Next]_vars, pc \in OpenSteps PROVE file'.val = file.val
    BY DEF KeepsRecords
  <1>0. file \in Content /\ ~handle.open
    BY DEF IndInv, TypeOK, HandleInv, OpenSteps
  <1>1. ~file.dataTable => file.val = NoFile.val
    BY <1>0 DEF IndInv, FileInv, Present, NoFile, Content
  <1>2. CASE ProcessStep \/ UNCHANGED vars
    BY <1>2 DEF ProcessStep, Crash, Start, vars
  <1>3. CASE OpenStep
    <2>1. pc = "openMeta" /\ fresh => file.val = NoFile.val
      BY <1>1 DEF IndInv, OpenInv
    <2>2. \/ UNCHANGED file
          \/ file' = NoFile /\ pc = "openMeta" /\ fresh
          \/ OpenInitialize \/ OpenResolve \/ OpenRegister
      BY <1>3 DEF OpenStep, OpenCreate, OpenRefused, OpenRejectIndexes, OpenFails, Close,
                  DeleteBox, Closed, OpenSteps
    <2>3. QED BY <1>0, <2>1, <2>2 DEF OpenInitialize, OpenResolve, OpenRegister, Content
  <1>4. CASE WriteStep \/ IndexStep \/ EncryptStep
    <2>1. FALSE
      BY <1>0, <1>4 DEF WriteStep, BeginPut, BeginPutAll, BeginDelete, BeginDeleteAll, Begin,
         PutEntry, DeleteEntry, Commit, RefuseEntry, WriteFails, Clear, IndexStep, CreateIndex,
         DropIndex, EncryptStep, EncryptTables, EncryptMeta, EncryptCheck, EncryptRewrite,
         EncryptCommit, EncryptFails, Ready, Closed, OpenSteps, EncryptSteps
    <2>2. QED BY <2>1
  <1>5. QED BY <1>2, <1>3, <1>4 DEF Next

\* Whatever happens to an open, the records that were committed before it are
\* still there (db.rs:377-421).
THEOREM OpenAlwaysKeepsRecords == Spec => OpenKeepsRecords
  <1>1. IndInv /\ [Next]_vars => [KeepsRecords]_vars
    BY StepKeepsRecords
  <1>2. QED BY <1>1, Invariance, PTL DEF Spec, OpenKeepsRecords, KeepsRecords
-----------------------------------------------------------------------------
(* Batches.                                                                *)

\* One more entry of the batch is written.
LEMMA ApplyNext ==
  ASSUME NEW batch \in Seq(Items), NEW n \in Nat, n < Len(batch),
         NEW before, NEW mid \in [Keys -> Values \cup {Absent}], NEW after,
         BatchApplied(FirstOf(batch, n), before, mid),
         after = [mid EXCEPT ![batch[n + 1][1]] = batch[n + 1][2]]
  PROVE  BatchApplied(FirstOf(batch, n + 1), before, after)
  <1> DEFINE p == FirstOf(batch, n)
             q == FirstOf(batch, n + 1)
  <1>1. /\ DOMAIN p = 1..n /\ DOMAIN q = 1..(n + 1)
        /\ \A j \in 1..n : p[j] = batch[j] /\ q[j] = batch[j]
        /\ q[n + 1] = batch[n + 1]
    BY DEF FirstOf
  <1>2. n + 1 \in 1..Len(batch) /\ batch[n + 1] \in Items
    OBVIOUS
  <1>3. batch[n + 1][1] \in Keys
    BY <1>2 DEF Items
  <1> HIDE DEF p, q
  <1>4. SUFFICES ASSUME NEW k \in Keys
                 PROVE  \/ (\A j \in DOMAIN q : q[j][1] # k) /\ after[k] = before[k]
                        \/ \E m \in DOMAIN q : LastEntry(q, k, m) /\ after[k] = q[m][2]
    BY DEF BatchApplied, q
  <1>5. CASE k = batch[n + 1][1]
    <2>1. after[k] = q[n + 1][2]
      BY <1>1, <1>3, <1>5
    <2>2. n + 1 \in DOMAIN q /\ LastEntry(q, k, n + 1)
      BY <1>1, <1>5 DEF LastEntry
    <2>3. QED BY <2>1, <2>2
  <1>6. CASE k # batch[n + 1][1]
    <2>1. after[k] = mid[k]
      BY <1>6
    <2>2. \/ (\A j \in DOMAIN p : p[j][1] # k) /\ mid[k] = before[k]
          \/ \E m \in DOMAIN p : LastEntry(p, k, m) /\ mid[k] = p[m][2]
      BY DEF BatchApplied, p
    <2>3. CASE (\A j \in DOMAIN p : p[j][1] # k) /\ mid[k] = before[k]
      <3>1. \A j \in DOMAIN q : q[j][1] # k
        BY <1>1, <1>6, <2>3
      <3>2. QED BY <2>1, <2>3, <3>1
    <2>4. ASSUME NEW m \in DOMAIN p, LastEntry(p, k, m), mid[k] = p[m][2]
          PROVE  m \in DOMAIN q /\ LastEntry(q, k, m) /\ after[k] = q[m][2]
      BY <1>1, <1>6, <2>1, <2>4 DEF LastEntry
    <2>5. QED BY <2>2, <2>3, <2>4
  <1>7. QED BY <1>5, <1>6

\* Nothing has been written yet.
LEMMA BatchBegins ==
  ASSUME IndInv, IndInv', NEW op \in {"put", "delete"}, NEW batch \in Seq(Items),
         Begin(op, batch), op = "delete" => \A j \in DOMAIN batch : batch[j][2] = Absent
  PROVE  BatchInv'
  <1>1. /\ pc' = op /\ work' = file /\ file' = file /\ todo' = batch /\ deleted' = <<>>
        /\ call'.batch = batch /\ reply' = NoReply
    BY DEF Begin, Call
  <1>2. Done' = 0
    BY <1>1 DEF Done
  <1>3. BatchApplied(FirstOf(batch, 0), file.val, file.val)
    BY DEF BatchApplied, FirstOf
  <1>4. ReportsDeleted(<<>>, file.val, file.val)
    BY DEF ReportsDeleted
  <1>5. \A j \in DOMAIN batch : batch[j] = batch[0 + j]
    OBVIOUS
  <1>6. QED BY <1>1, <1>2, <1>3, <1>4, <1>5 DEF BatchInv

\* The step of the batch at the head of todo.
LEMMA HeadIsNext ==
  ASSUME IndInv, BatchInv, pc \in {"put", "delete"}, todo # <<>>,
         todo' = Tail(todo), UNCHANGED call
  PROVE  /\ call.batch \in Seq(Items) /\ Done \in Nat /\ Done < Len(call.batch)
         /\ Head(todo) = call.batch[Done + 1] /\ Head(todo) \in Items
         /\ Done' = Done + 1
         /\ \A j \in DOMAIN todo' : todo'[j] = call'.batch[Done' + j]
  <1>1. call.batch \in Seq(Items) /\ todo \in Seq(Items)
    BY DEF IndInv, TypeOK, Calls
  <1>2. /\ Len(todo) \in Nat \ {0} /\ Len(call.batch) \in Nat
        /\ Len(todo') = Len(todo) - 1 /\ Head(todo) = todo[1] /\ Head(todo) \in Items
        /\ \A j \in 1..(Len(todo) - 1) : todo'[j] = todo[j + 1]
        /\ DOMAIN todo = 1..Len(todo) /\ DOMAIN todo' = 1..(Len(todo) - 1)
    BY <1>1
  <1>3. Done \in Nat /\ (\A j \in DOMAIN todo : todo[j] = call.batch[Done + j])
    BY DEF BatchInv
  <1>4. Done < Len(call.batch) /\ Done' = Done + 1
    BY <1>2 DEF Done
  <1>5. Head(todo) = call.batch[Done + 1]
    BY <1>2, <1>3
  <1>6. ASSUME NEW j \in DOMAIN todo' PROVE todo'[j] = call.batch[Done' + j]
    <2>1. j \in 1..(Len(todo) - 1) /\ j + 1 \in DOMAIN todo
      BY <1>2, <1>6
    <2>2. todo'[j] = todo[j + 1] /\ todo[j + 1] = call.batch[Done + (j + 1)]
      BY <1>2, <1>3, <2>1
    <2>3. Done + (j + 1) = Done' + j
      BY <1>3, <1>4, <2>1
    <2>4. QED BY <2>2, <2>3
  <1>7. QED BY <1>1, <1>2, <1>3, <1>4, <1>5, <1>6

\* A put writes a value, so no record goes.
LEMMA PutContinues == IndInv /\ BatchInv /\ PutEntry => BatchInv'
  <1> SUFFICES ASSUME IndInv, BatchInv, PutEntry PROVE BatchInv'
    OBVIOUS
  <1> DEFINE k == Head(todo)[1]
             v == Head(todo)[2]
             batch == call.batch
  <1>1. /\ pc = "put" /\ todo # <<>> /\ todo' = Tail(todo)
        /\ work' = Written(work, handle.by, k, v)
        /\ UNCHANGED <<file, pc, call, deleted, reply>>
    BY DEF PutEntry
  <1>2. /\ batch \in Seq(Items) /\ Done \in Nat /\ Done < Len(batch)
        /\ Head(todo) = batch[Done + 1] /\ Done' = Done + 1
        /\ \A j \in DOMAIN todo' : todo'[j] = call'.batch[Done' + j]
    BY <1>1, HeadIsNext
  <1>3. /\ work \in Content /\ work.val \in [Keys -> Values \cup {Absent}]
        /\ todo \in Seq(Keys \X Values)
    BY <1>1 DEF IndInv, TypeOK, Content, WriteInv
  <1>4. k \in Keys /\ v \in Values
    BY <1>1, <1>3
  <1>5. work'.val = [work.val EXCEPT ![k] = v]
    BY <1>1, <1>3 DEF Written, Content
  <1>6. BatchApplied(FirstOf(batch, Done), file.val, work.val)
        /\ ReportsDeleted(deleted, file.val, work.val) /\ deleted = <<>> /\ reply = NoReply
    BY <1>1 DEF BatchInv
  <1>7. BatchApplied(FirstOf(batch, Done + 1), file.val, work'.val)
    BY <1>2, <1>3, <1>5, <1>6, ApplyNext
  <1>8. ReportsDeleted(deleted', file'.val, work'.val)
    <2>1. v # Absent
      BY <1>4, ConstantsAssumption
    <2>2. {x \in Keys : file.val[x] # Absent /\ work.val[x] = Absent} = {}
      BY <1>6 DEF ReportsDeleted
    <2>3. {x \in Keys : file'.val[x] # Absent /\ work'.val[x] = Absent} = {}
      BY <1>1, <1>3, <1>5, <2>1, <2>2
    <2>4. QED BY <1>1, <1>6, <2>3 DEF ReportsDeleted
  <1>9. QED BY <1>1, <1>2, <1>6, <1>7, <1>8 DEF BatchInv

LEMMA DeleteContinues == IndInv /\ BatchInv /\ DeleteEntry => BatchInv'
  <1> SUFFICES ASSUME IndInv, BatchInv, DeleteEntry PROVE BatchInv'
    OBVIOUS
  <1> DEFINE k == Head(todo)[1]
             batch == call.batch
  <1>1. /\ pc = "delete" /\ todo # <<>> /\ todo' = Tail(todo)
        /\ work' = IF k \in Present(work) THEN Removed(work, handle.by, k) ELSE work
        /\ deleted' = IF k \in Present(work) THEN Append(deleted, k) ELSE deleted
        /\ UNCHANGED <<file, pc, call, reply>>
    BY DEF DeleteEntry
  <1>2. /\ batch \in Seq(Items) /\ Done \in Nat /\ Done < Len(batch)
        /\ Head(todo) = batch[Done + 1] /\ Head(todo) \in Items /\ Done' = Done + 1
        /\ \A j \in DOMAIN todo' : todo'[j] = call'.batch[Done' + j]
    BY <1>1, HeadIsNext
  <1>3. /\ work \in Content /\ work.val \in [Keys -> Values \cup {Absent}]
        /\ deleted \in Seq(Keys)
    BY DEF IndInv, TypeOK, Content
  <1>4. /\ BatchApplied(FirstOf(batch, Done), file.val, work.val)
        /\ ReportsDeleted(deleted, file.val, work.val) /\ reply = NoReply
        /\ \A j \in DOMAIN batch : batch[j][2] = Absent
    BY <1>1 DEF BatchInv
  <1>5. k \in Keys /\ batch[Done + 1] = Head(todo) /\ batch[Done + 1][2] = Absent
    <2>1. Done + 1 \in DOMAIN batch
      BY <1>2
    <2>2. QED BY <1>2, <1>4, <2>1 DEF Items
  <1>6. work'.val = [work.val EXCEPT ![k] = Absent]
    <2>1. CASE k \in Present(work)
      BY <1>1, <1>3, <2>1 DEF Removed, Content
    <2>2. CASE k \notin Present(work)
      BY <1>1, <1>3, <1>5, <2>2 DEF Present
    <2>3. QED BY <2>1, <2>2
  <1>7. BatchApplied(FirstOf(batch, Done + 1), file.val, work'.val)
    BY <1>2, <1>3, <1>4, <1>5, <1>6, ApplyNext
  <1>8. ReportsDeleted(deleted', file.val, work'.val)
    <2> DEFINE gone == {x \in Keys : file.val[x] # Absent /\ work.val[x] = Absent}
               goneNow == {x \in Keys : file.val[x] # Absent /\ work'.val[x] = Absent}
    <2>1. {deleted[j] : j \in DOMAIN deleted} = gone
          /\ \A i, j \in DOMAIN deleted : deleted[i] = deleted[j] => i = j
      BY <1>4 DEF ReportsDeleted
    <2>2. CASE k \notin Present(work)
      BY <1>1, <1>4, <2>2
    <2>3. CASE k \in Present(work)
      <3>1. work.val[k] # Absent /\ deleted' = Append(deleted, k)
        BY <1>1, <2>3 DEF Present
      <3>2. file.val[k] = work.val[k]
        <4>1. \A m \in DOMAIN FirstOf(batch, Done) : FirstOf(batch, Done)[m][2] = Absent
          BY <1>2, <1>4 DEF FirstOf
        <4>2. QED BY <1>4, <1>5, <3>1, <4>1 DEF BatchApplied
      <3>3. goneNow = gone \cup {k}
        BY <1>3, <1>5, <1>6, <3>1, <3>2
      <3>4. /\ DOMAIN deleted = 1..Len(deleted) /\ Len(deleted) \in Nat
            /\ DOMAIN deleted' = 1..(Len(deleted) + 1)
            /\ \A j \in 1..Len(deleted) : deleted'[j] = deleted[j]
            /\ deleted'[Len(deleted) + 1] = k
        BY <1>3, <1>5, <3>1
      <3>5. \A j \in DOMAIN deleted : deleted[j] # k
        BY <2>1, <3>1
      <3>6. {deleted'[j] : j \in DOMAIN deleted'} = goneNow
        <4>1. {deleted'[j] : j \in DOMAIN deleted'} = {deleted[j] : j \in DOMAIN deleted} \cup {k}
          BY <3>4
        <4>2. QED BY <2>1, <3>3, <4>1
      <3>7. \A i, j \in DOMAIN deleted' : deleted'[i] = deleted'[j] => i = j
        BY <2>1, <3>4, <3>5
      <3>8. QED BY <3>6, <3>7 DEF ReportsDeleted
    <2>4. QED BY <2>2, <2>3
  <1>9. QED BY <1>1, <1>2, <1>4, <1>7, <1>8 DEF BatchInv

LEMMA BatchInvariance == IndInv /\ IndInv' /\ BatchInv /\ [Next]_vars => BatchInv'
  <1> SUFFICES ASSUME IndInv, IndInv', BatchInv, [Next]_vars PROVE BatchInv'
    OBVIOUS
  <1>1. CASE UNCHANGED vars
    BY <1>1 DEF vars, BatchInv, Done
  <1>2. CASE pc' \notin {"put", "delete"}
    BY <1>2 DEF BatchInv
  <1>3. ASSUME NEW k \in Keys, NEW v \in Values, BeginPut(k, v) PROVE BatchInv'
    <2>1. <<<<k, v>>>> \in Seq(Items)
      BY DEF Items
    <2>2. QED BY <1>3, <2>1, BatchBegins DEF BeginPut
  <1>4. ASSUME NEW batch \in PutBatches, BeginPutAll(batch) PROVE BatchInv'
    <2>1. batch \in Seq(Items)
      <3>1. PICK n \in 1..MaxBatch : batch \in [1..n -> Keys \X Values]
        BY DEF PutBatches
      <3>2. n \in Nat /\ batch \in [1..n -> Items]
        BY <3>1, ConstantsAssumption DEF Items
      <3>3. QED BY <3>2, BatchIsSequence
    <2>2. QED BY <1>4, <2>1, BatchBegins DEF BeginPutAll
  <1>5. ASSUME NEW k \in Keys, BeginDelete(k) PROVE BatchInv'
    <2>1. <<<<k, Absent>>>> \in Seq(Items) /\ \A j \in DOMAIN <<<<k, Absent>>>> :
            <<<<k, Absent>>>>[j][2] = Absent
      BY DEF Items
    <2>2. QED BY <1>5, <2>1, BatchBegins DEF BeginDelete
  <1>6. ASSUME NEW ks \in KeyLists, BeginDeleteAll(ks) PROVE BatchInv'
    <2> DEFINE batch == [n \in DOMAIN ks |-> <<ks[n], Absent>>]
    <2>1. batch \in Seq(Items)
      <3>1. PICK n \in 1..MaxBatch : ks \in [1..n -> Keys]
        BY DEF KeyLists
      <3>2. n \in Nat /\ batch \in [1..n -> Items]
        BY <3>1, ConstantsAssumption DEF Items
      <3>3. QED BY <3>2, BatchIsSequence
    <2>2. \A j \in DOMAIN batch : batch[j][2] = Absent
      OBVIOUS
    <2>3. QED BY <1>6, <2>1, <2>2, BatchBegins DEF BeginDeleteAll
  <1>7. CASE PutEntry \/ DeleteEntry
    BY <1>7, PutContinues, DeleteContinues
  <1>8. CASE ProcessStep
    <2>1. profile = "down" => pc \notin {"put", "delete"}
      BY DEF IndInv, WriteInv, HandleInv, Running
    <2>2. QED BY <1>2, <1>8, <2>1 DEF ProcessStep, Crash, Start, Finish
  <1>9. CASE OpenStep
    BY <1>2, <1>9 DEF OpenStep, OpenCreate, OpenInitialize, OpenResolve, OpenRefused,
       OpenRegister, OpenRejectIndexes, OpenFails, Close, DeleteBox, Ready, Closed, Finish
  <1>10. CASE Commit \/ RefuseEntry \/ WriteFails \/ Clear
    BY <1>2, <1>10 DEF Commit, RefuseEntry, WriteFails, Clear, Ready, Finish
  <1>11. CASE IndexStep
    BY <1>2, <1>11 DEF IndexStep, CreateIndex, DropIndex, Ready
  <1>12. CASE EncryptStep
    BY <1>2, <1>12 DEF EncryptStep, EncryptTables, EncryptMeta, EncryptCheck, EncryptRewrite,
       EncryptCommit, EncryptFails, Finish
  <1>13. QED BY <1>1, <1>3, <1>4, <1>5, <1>6, <1>7, <1>8, <1>9, <1>10, <1>11, <1>12
              DEF Next, WriteStep

LEMMA BatchAlways == Spec => [](IndInv /\ BatchInv)
  <1>1. Init => BatchInv
    BY DEF Init, BatchInv
  <1>2. QED BY <1>1, Invariance, BatchInvariance, PTL DEF Spec

\* What a step may do to the records of a box while a batch is written.
TakesEffect ==
  (pc \in {"put", "delete"}) /\ (file'.val # file.val \/ reply'.status = "ok") =>
    /\ reply'.status = "ok"
    /\ BatchApplied(call.batch, file.val, file'.val)
    /\ ReportsDeleted(reply'.deleted, file.val, file'.val)

LEMMA StepTakesEffect == IndInv /\ BatchInv /\ [Next]_vars => TakesEffect
  <1> SUFFICES ASSUME IndInv, BatchInv, [Next]_vars, pc \in {"put", "delete"},
                      file'.val # file.val \/ reply'.status = "ok"
               PROVE  /\ reply'.status = "ok"
                      /\ BatchApplied(call.batch, file.val, file'.val)
                      /\ ReportsDeleted(reply'.deleted, file.val, file'.val)
    BY DEF TakesEffect
  <1>1. profile # "down" /\ handle.open /\ reply = NoReply
    BY DEF IndInv, WriteInv, HandleInv, Running, BatchInv
  <1>2. Commit
    <2>1. ~UNCHANGED vars
      BY <1>1 DEF vars, NoReply
    <2>2. ~(ProcessStep \/ OpenStep)
      BY <1>1 DEF ProcessStep, Crash, Start, OpenStep, OpenCreate, OpenInitialize, OpenResolve,
         OpenRefused, OpenRegister, OpenRejectIndexes, OpenFails, Close, DeleteBox, Ready,
         Closed, NoReply, OpenSteps
    <2>3. ~(IndexStep \/ EncryptStep)
      BY <1>1 DEF IndexStep, CreateIndex, DropIndex, EncryptStep, EncryptTables, EncryptMeta,
         EncryptCheck, EncryptRewrite, EncryptCommit, EncryptFails, Ready, Closed, EncryptSteps
    <2>4. ~(PutEntry \/ DeleteEntry \/ RefuseEntry \/ WriteFails)
      <3>1. UNCHANGED <<file, reply>> => FALSE
        BY <1>1 DEF NoReply
      <3>2. UNCHANGED file /\ reply' = Error => FALSE
        BY DEF Error
      <3>3. QED BY <3>1, <3>2 DEF PutEntry, DeleteEntry, RefuseEntry, WriteFails
    <2>5. WriteStep => Commit
      BY <2>4 DEF WriteStep, BeginPut, BeginPutAll, BeginDelete, BeginDeleteAll, Begin, Clear,
                  Ready
    <2>6. QED BY <2>1, <2>2, <2>3, <2>5 DEF Next
  <1>3. /\ file' = work /\ reply' = Ok(deleted) /\ todo = <<>>
    BY <1>2 DEF Commit
  <1>4. FirstOf(call.batch, Done) = call.batch
    <2>1. call.batch \in Seq(Items)
      BY DEF IndInv, TypeOK, Calls
    <2>2. Done = Len(call.batch)
      BY <1>3, <2>1 DEF Done
    <2>3. QED BY <2>1, <2>2 DEF FirstOf
  <1>5. QED BY <1>3, <1>4 DEF BatchInv, Ok

\* A mutation of any length takes effect as a whole and in order, or not at
\* all, and delete_all reports exactly what it removed (db.rs:582-785).
THEOREM BatchesAreAtomic == Spec => BatchAllOrNothing
  <1>1. IndInv /\ BatchInv /\ [Next]_vars => [TakesEffect]_vars
    BY StepTakesEffect
  <1>2. QED BY <1>1, BatchAlways, PTL DEF Spec, BatchAllOrNothing, TakesEffect


-----------------------------------------------------------------------------
(* The order of what delete_all reports.                                   *)

\* A record that is still there is one the batch has not named so far.
LEMMA OrderContinues == IndInv /\ BatchInv /\ OrderInv /\ DeleteEntry => OrderInv'
  <1> SUFFICES ASSUME IndInv, BatchInv, OrderInv, DeleteEntry PROVE OrderInv'
    OBVIOUS
  <1> DEFINE k == Head(todo)[1]
             batch == call.batch
  <1>1. /\ pc = "delete" /\ todo # <<>> /\ todo' = Tail(todo)
        /\ deleted' = IF k \in Present(work) THEN Append(deleted, k) ELSE deleted
        /\ UNCHANGED call
    BY DEF DeleteEntry
  <1>2. /\ batch \in Seq(Items) /\ Done \in Nat /\ Done < Len(batch)
        /\ Head(todo) = batch[Done + 1] /\ Done' = Done + 1
    BY <1>1, HeadIsNext
  <1>3. deleted \in Seq(Keys)
    BY DEF IndInv, TypeOK
  <1>4. /\ \A i \in DOMAIN deleted : \E m \in 1..Done : FirstEntry(batch, deleted[i], m)
        /\ \A i, j \in DOMAIN deleted : i < j =>
             \A m, n \in DOMAIN batch :
               FirstEntry(batch, deleted[i], m) /\ FirstEntry(batch, deleted[j], n) => m < n
    BY <1>1 DEF OrderInv
  <1>5. CASE k \notin Present(work)
    <2>1. deleted' = deleted /\ call' = call
      BY <1>1, <1>5
    <2>2. 1..Done \subseteq 1..Done'
      BY <1>2
    <2>3. QED BY <1>4, <2>1, <2>2 DEF OrderInv
  <1>6. CASE k \in Present(work)
    <2>1. FirstEntry(batch, k, Done + 1)
      <3>1. /\ BatchApplied(FirstOf(batch, Done), file.val, work.val)
            /\ \A j \in DOMAIN batch : batch[j][2] = Absent
        BY <1>1 DEF BatchInv
      <3>2. \A m \in DOMAIN FirstOf(batch, Done) : FirstOf(batch, Done)[m][2] = Absent
        BY <1>2, <3>1 DEF FirstOf
      <3>3. \A j \in 1..Done : batch[j][1] # k
        <4>1. work.val[k] # Absent /\ k \in Keys
          BY <1>6 DEF Present
        <4>2. \A j \in DOMAIN FirstOf(batch, Done) : FirstOf(batch, Done)[j][1] # k
          BY <3>1, <3>2, <4>1 DEF BatchApplied
        <4>3. QED BY <4>2 DEF FirstOf
      <3>4. DOMAIN batch = 1..Len(batch) /\ Len(batch) \in Nat
        BY <1>2
      <3>5. QED BY <1>2, <3>3, <3>4 DEF FirstEntry
    <2>2. /\ DOMAIN deleted = 1..Len(deleted) /\ Len(deleted) \in Nat
          /\ DOMAIN deleted' = 1..(Len(deleted) + 1)
          /\ \A j \in 1..Len(deleted) : deleted'[j] = deleted[j]
          /\ deleted'[Len(deleted) + 1] = k
      <3>1. k \in Keys
        BY <1>6 DEF Present
      <3>2. QED BY <1>1, <1>3, <1>6, <3>1
    <2>3. \A m, n \in DOMAIN batch : FirstEntry(batch, k, m) /\ FirstEntry(batch, k, n) => m = n
      BY <1>2 DEF FirstEntry
    <2>4. ASSUME NEW i \in DOMAIN deleted'
          PROVE  \E m \in 1..Done' : FirstEntry(batch, deleted'[i], m)
      <3>1. CASE i = Len(deleted) + 1
        BY <1>2, <2>1, <2>2, <3>1
      <3>2. CASE i \in DOMAIN deleted
        BY <1>2, <1>4, <2>2, <3>2
      <3>3. QED BY <2>2, <3>1, <3>2
    <2>5. ASSUME NEW i \in DOMAIN deleted', NEW j \in DOMAIN deleted', i < j,
                 NEW m \in DOMAIN batch, NEW n \in DOMAIN batch,
                 FirstEntry(batch, deleted'[i], m), FirstEntry(batch, deleted'[j], n)
          PROVE  m < n
      <3>1. i \in DOMAIN deleted /\ deleted'[i] = deleted[i]
        BY <2>2, <2>5
      <3>2. CASE j \in DOMAIN deleted
        BY <1>4, <2>2, <2>5, <3>1, <3>2
      <3>3. CASE j = Len(deleted) + 1
        <4>1. PICK p \in 1..Done : FirstEntry(batch, deleted[i], p)
          BY <1>4, <3>1
        <4>2. p = m /\ n >= Done + 1
          BY <1>2, <2>1, <2>2, <2>5, <3>1, <3>3, <4>1 DEF FirstEntry
        <4>3. QED BY <1>2, <4>1, <4>2
      <3>4. QED BY <2>2, <3>2, <3>3
    <2>6. call' = call
      BY <1>1
    <2>7. QED BY <2>4, <2>5, <2>6 DEF OrderInv
  <1>7. QED BY <1>5, <1>6

LEMMA OrderInvariance ==
  IndInv /\ BatchInv /\ OrderInv /\ [Next]_vars => OrderInv'
  <1> SUFFICES ASSUME IndInv, BatchInv, OrderInv, [Next]_vars PROVE OrderInv'
    OBVIOUS
  <1>1. CASE UNCHANGED vars
    BY <1>1 DEF vars, OrderInv, Done
  <1>2. CASE pc' # "delete" \/ deleted' = <<>>
    BY <1>2 DEF OrderInv
  <1>3. CASE DeleteEntry
    BY <1>3, OrderContinues
  <1>4. CASE ProcessStep
    <2>1. profile = "down" => pc # "delete"
      BY DEF IndInv, WriteInv, HandleInv, Running
    <2>2. QED BY <1>2, <1>4, <2>1 DEF ProcessStep, Crash, Start, Finish
  <1>5. CASE OpenStep
    BY <1>2, <1>5 DEF OpenStep, OpenCreate, OpenInitialize, OpenResolve, OpenRefused,
       OpenRegister, OpenRejectIndexes, OpenFails, Close, DeleteBox, Ready, Closed, Finish
  <1>6. CASE WriteStep
    BY <1>2, <1>3, <1>6 DEF WriteStep, BeginPut, BeginPutAll, BeginDelete, BeginDeleteAll, Begin,
       PutEntry, Commit, RefuseEntry, WriteFails, Clear, Ready, Finish
  <1>7. CASE IndexStep
    BY <1>2, <1>7 DEF IndexStep, CreateIndex, DropIndex, Ready
  <1>8. CASE EncryptStep
    BY <1>2, <1>8 DEF EncryptStep, EncryptTables, EncryptMeta, EncryptCheck, EncryptRewrite,
       EncryptCommit, EncryptFails, Finish
  <1>9. QED BY <1>1, <1>4, <1>5, <1>6, <1>7, <1>8 DEF Next

-----------------------------------------------------------------------------
(* The storage implements the map.                                         *)

\* The entries of a batch for a key, as the map looks for them.
LEMMA MentionsFacts ==
  ASSUME NEW batch \in Seq(Items), NEW k \in Keys
  PROVE  /\ (\A j \in DOMAIN batch : batch[j][1] # k) <=> Logical!Mentions(batch, k) = {}
         /\ \A m : LastEntry(batch, k, m) => Logical!Max(Logical!Mentions(batch, k)) = m
         /\ \A m : FirstEntry(batch, k, m) => Logical!FirstNamed(batch, k) = m
  <1> DEFINE S == Logical!Mentions(batch, k)
  <1>1. S = {n \in DOMAIN batch : batch[n][1] = k} /\ DOMAIN batch \subseteq Nat
    BY DEF Logical!Mentions
  <1>2. ASSUME NEW m, LastEntry(batch, k, m) PROVE Logical!Max(S) = m
    <2>1. m \in S /\ (\A j \in S : m >= j) /\ S \subseteq Nat
      BY <1>1, <1>2 DEF LastEntry
    <2> HIDE DEF S
    <2>2. Logical!Max(S) \in S /\ \A j \in S : Logical!Max(S) >= j
      BY <2>1 DEF Logical!Max
    <2>3. m \in Nat /\ Logical!Max(S) \in Nat
      BY <2>1, <2>2
    <2>4. m >= Logical!Max(S) /\ Logical!Max(S) >= m
      BY <2>1, <2>2
    <2>5. QED BY <2>3, <2>4
  <1>3. ASSUME NEW m, FirstEntry(batch, k, m) PROVE Logical!FirstNamed(batch, k) = m
    <2>1. m \in S /\ (\A j \in S : m <= j) /\ S \subseteq Nat
      BY <1>1, <1>3 DEF FirstEntry
    <2>2. Logical!FirstNamed(batch, k) = Logical!Min(S)
      BY DEF Logical!FirstNamed
    <2> HIDE DEF S
    <2>3. Logical!Min(S) \in S /\ \A j \in S : Logical!Min(S) <= j
      BY <2>1 DEF Logical!Min
    <2>4. m \in Nat /\ Logical!Min(S) \in Nat
      BY <2>1, <2>3
    <2>5. m <= Logical!Min(S) /\ Logical!Min(S) <= m
      BY <2>1, <2>3
    <2>6. QED BY <2>2, <2>4, <2>5
  <1>4. QED BY <1>1, <1>2, <1>3

\* The commit of a transaction is the moment at which the call takes effect.
LEMMA CommitTakesEffect == IndInv /\ BatchInv /\ OrderInv /\ Commit => Logical!TakeEffect
  <1> SUFFICES ASSUME IndInv, BatchInv, OrderInv, Commit PROVE Logical!TakeEffect
    OBVIOUS
  <1> DEFINE batch == call.batch
  <1>1. /\ pc \in {"put", "delete"} /\ pc' = "idle" /\ todo = <<>>
        /\ file' = work /\ reply' = Ok(deleted)
    BY DEF Commit, Finish
  <1>2. /\ batch \in Seq(Items) /\ deleted \in Seq(Keys)
        /\ work.val \in [Keys -> Values \cup {Absent}]
        /\ file.val \in [Keys -> Values \cup {Absent}]
    BY DEF IndInv, TypeOK, Calls, Content
  <1>3. Done = Len(batch) /\ FirstOf(batch, Done) = batch
    <2>1. Done = Len(batch)
      BY <1>1, <1>2 DEF Done
    <2>2. QED BY <1>2, <2>1 DEF FirstOf
  <1>4. /\ BatchApplied(batch, file.val, work.val)
        /\ ReportsDeleted(deleted, file.val, work.val)
        /\ pc = "put" => deleted = <<>>
        /\ pc = "delete" => \A j \in DOMAIN batch : batch[j][2] = Absent
    BY <1>1, <1>3 DEF BatchInv
  <1>5. /\ LogicalCall = [op |-> pc, batch |-> batch]
        /\ LogicalCall' = Logical!Idle
    BY <1>1 DEF LogicalCall, Logical!Idle
  <1>6. reply' = Logical!Done(deleted) /\ reply'.deleted = deleted
    BY <1>1 DEF Ok, Logical!Done
  <1>7. CASE pc = "put"
    <2>1. work.val = Logical!AfterPut(batch)
      <3>1. ASSUME NEW k \in Keys
            PROVE  work.val[k] = IF Logical!Mentions(batch, k) = {} THEN file.val[k]
                                 ELSE batch[Logical!Max(Logical!Mentions(batch, k))][2]
        <4>1. CASE (\A j \in DOMAIN batch : batch[j][1] # k) /\ work.val[k] = file.val[k]
          BY <1>2, <4>1, MentionsFacts
        <4>2. ASSUME NEW m \in DOMAIN batch, LastEntry(batch, k, m), work.val[k] = batch[m][2]
              PROVE  /\ Logical!Mentions(batch, k) # {}
                     /\ work.val[k] = batch[Logical!Max(Logical!Mentions(batch, k))][2]
          <5>1. Logical!Mentions(batch, k) # {}
            BY <4>2 DEF LastEntry, Logical!Mentions
          <5>2. Logical!Max(Logical!Mentions(batch, k)) = m
            BY <1>2, <4>2, MentionsFacts
          <5>3. QED BY <4>2, <5>1, <5>2
        <4>3. QED BY <1>4, <4>1, <4>2 DEF BatchApplied
      <3>2. QED BY <1>2, <3>1 DEF Logical!AfterPut
    <2>2. QED BY <1>1, <1>4, <1>5, <1>6, <1>7, <2>1 DEF Logical!TakeEffect
  <1>8. CASE pc = "delete"
    <2>1. \A k \in Keys : work.val[k] = IF Logical!Mentions(batch, k) = {} THEN file.val[k]
                                        ELSE Absent
      <3>1. SUFFICES ASSUME NEW k \in Keys
                     PROVE  work.val[k] = IF Logical!Mentions(batch, k) = {} THEN file.val[k]
                                          ELSE Absent
        OBVIOUS
      <3>2. CASE (\A j \in DOMAIN batch : batch[j][1] # k) /\ work.val[k] = file.val[k]
        BY <1>2, <3>2, MentionsFacts
      <3>3. ASSUME NEW m \in DOMAIN batch, LastEntry(batch, k, m), work.val[k] = batch[m][2]
            PROVE  Logical!Mentions(batch, k) # {} /\ work.val[k] = Absent
        BY <1>2, <1>4, <1>8, <3>3, MentionsFacts DEF LastEntry
      <3>4. QED BY <1>4, <3>2, <3>3 DEF BatchApplied
    <2>2. work.val = Logical!AfterDelete(batch)
      BY <1>2, <2>1 DEF Logical!AfterDelete
    <2>3. Logical!Reports(deleted, batch)
      <3>1. {deleted[i] : i \in DOMAIN deleted}
              = {k \in Keys : file.val[k] # Absent /\ Logical!Mentions(batch, k) # {}}
        BY <1>4, <2>1 DEF ReportsDeleted
      <3>2. ASSUME NEW i \in DOMAIN deleted, NEW j \in DOMAIN deleted, i < j
            PROVE  Logical!FirstNamed(batch, deleted[i]) < Logical!FirstNamed(batch, deleted[j])
        <4>1. PICK m \in 1..Done : FirstEntry(batch, deleted[i], m)
          BY <1>8 DEF OrderInv
        <4>2. PICK n \in 1..Done : FirstEntry(batch, deleted[j], n)
          BY <1>8 DEF OrderInv
        <4>3. m < n
          BY <1>8, <3>2, <4>1, <4>2 DEF OrderInv, FirstEntry
        <4>4. deleted[i] \in Keys /\ deleted[j] \in Keys
          BY <1>2
        <4>5. QED BY <1>2, <4>1, <4>2, <4>3, <4>4, MentionsFacts
      <3>3. QED BY <1>2, <3>1, <3>2 DEF Logical!Reports
    <2>4. QED BY <1>1, <1>5, <1>6, <1>8, <2>2, <2>3 DEF Logical!TakeEffect
  <1>9. QED BY <1>1, <1>7, <1>8

\* A step the callers of the box do not see.
Unseen == UNCHANGED <<file.val, LogicalCall, reply>>

\* A file without a data table holds no records, so making or removing one
\* changes nothing.
LEMMA NoTableNoRecords ==
  ASSUME IndInv, ~file.dataTable
  PROVE  file.val = NoFile.val
  <1>1. file.val \in [Keys -> Values \cup {Absent}] /\ Present(file) = {}
    BY DEF IndInv, TypeOK, Content, FileInv
  <1>2. QED BY <1>1 DEF Present, NoFile

LEMMA OpenRefines == IndInv /\ OpenStep => Unseen \/ Logical!Lose \/ Logical!Erase
  <1> SUFFICES ASSUME IndInv, OpenStep PROVE Unseen \/ Logical!Lose \/ Logical!Erase
    OBVIOUS
  <1>1. file \in Content /\ (file.dataTable => file.exists) /\ EmptyFile.val = NoFile.val
        /\ (pc = "openMeta" => fresh = ~file.dataTable)
    BY DEF IndInv, TypeOK, FileInv, OpenInv, EmptyFile, NoFile
  <1>2. ASSUME NEW p \in Ciphers, OpenCreate(p) PROVE Unseen
    <2>1. pc = "idle" /\ pc' = "openMeta" /\ UNCHANGED reply
          /\ file' = IF file.exists THEN file ELSE EmptyFile
      BY <1>2 DEF OpenCreate, Closed
    <2>2. file'.val = file.val
      BY <1>1, <2>1, NoTableNoRecords
    <2>3. QED BY <2>1, <2>2 DEF Unseen, LogicalCall
  <1>3. CASE OpenInitialize \/ OpenResolve
    <2>1. pc = "openMeta" /\ pc' = "openIndex" /\ UNCHANGED reply /\ file'.val = file.val
      BY <1>1, <1>3 DEF OpenInitialize, OpenResolve, Content
    <2>2. QED BY <2>1 DEF Unseen, LogicalCall
  <1>4. CASE OpenRefused \/ OpenFails
    <2>1. /\ pc \in OpenSteps /\ pc' = "idle" /\ UNCHANGED reply
          /\ file' = file \/ (file' = NoFile /\ pc = "openMeta" /\ fresh)
      BY <1>4 DEF OpenRefused, OpenFails, Finish, OpenSteps
    <2>2. file'.val = file.val
      BY <1>1, <2>1, NoTableNoRecords
    <2>3. QED BY <2>1, <2>2 DEF Unseen, LogicalCall, OpenSteps
  <1>5. CASE OpenRegister \/ OpenRejectIndexes
    <2>1. pc = "openIndex" /\ pc' = "idle" /\ UNCHANGED reply /\ file'.val = file.val
      BY <1>1, <1>5 DEF OpenRegister, OpenRejectIndexes, Finish, Content
    <2>2. QED BY <2>1 DEF Unseen, LogicalCall
  <1>6. CASE Close
    BY <1>6 DEF Close, Ready, NoReply, LogicalCall, Logical!Lose, Logical!Idle, Logical!Silent
  <1>7. CASE DeleteBox
    BY <1>7 DEF DeleteBox, Closed, NoReply, NoFile, LogicalCall, Logical!Erase, Logical!Empty,
                Logical!Idle, Logical!Silent
  <1>8. QED BY <1>2, <1>3, <1>4, <1>5, <1>6, <1>7 DEF OpenStep

LEMMA WriteRefines ==
  IndInv /\ BatchInv /\ OrderInv /\ WriteStep => Unseen \/ Logical!NextBox
  <1> SUFFICES ASSUME IndInv, BatchInv, OrderInv, WriteStep PROVE Unseen \/ Logical!NextBox
    OBVIOUS
  <1>1. ASSUME NEW op \in {"put", "delete"}, NEW batch, Begin(op, batch)
        PROVE  Logical!Request
    BY <1>1 DEF Begin, Ready, NoReply, LogicalCall, Logical!Request, Logical!Idle,
                Logical!Silent
  <1>2. (\E k \in Keys, v \in Values : BeginPut(k, v)) \/ (\E b \in PutBatches : BeginPutAll(b))
        \/ (\E k \in Keys : BeginDelete(k)) \/ (\E ks \in KeyLists : BeginDeleteAll(ks))
          => Logical!Request
    BY <1>1 DEF BeginPut, BeginPutAll, BeginDelete, BeginDeleteAll
  <1>3. CASE PutEntry \/ DeleteEntry
    BY <1>3 DEF PutEntry, DeleteEntry, Unseen, LogicalCall
  <1>4. CASE Commit
    BY <1>4, CommitTakesEffect DEF Logical!NextBox
  <1>5. CASE RefuseEntry \/ WriteFails
    <2>1. pc \in {"put", "delete"} /\ pc' = "idle" /\ reply' = Error /\ UNCHANGED file
      BY <1>5 DEF RefuseEntry, WriteFails, Finish
    <2>2. LogicalCall # Logical!Idle /\ LogicalCall' = Logical!Idle
      BY <2>1 DEF LogicalCall, Logical!Idle
    <2>3. QED BY <2>1, <2>2 DEF Error, Logical!Fail, Logical!Failed, Logical!NextBox
  <1>6. CASE Clear
    <2>1. pc = "idle" /\ pc' = pc /\ reply' = NoReply /\ file' = Emptied(file)
      BY <1>6 DEF Clear, Ready
    <2>2. file'.val = Logical!Empty
      BY <2>1 DEF Emptied, Logical!Empty, IndInv, TypeOK, Content
    <2>3. QED BY <2>1, <2>2 DEF NoReply, LogicalCall, Logical!Erase, Logical!Idle,
                                Logical!Silent, Logical!NextBox
  <1>7. QED BY <1>2, <1>3, <1>4, <1>5, <1>6 DEF WriteStep, Logical!NextBox

\* Indexes and encryption do not touch what the callers see.
LEMMA UpkeepUnseen == IndInv /\ (IndexStep \/ EncryptStep) => Unseen
  <1> SUFFICES ASSUME IndInv, IndexStep \/ EncryptStep PROVE Unseen
    OBVIOUS
  <1>1. file \in Content /\ work \in Content /\ (pc = "encRewrite" => work.val = file.val)
    BY DEF IndInv, TypeOK, EncryptInv
  <1>2. CASE IndexStep
    <2>1. pc = "idle" /\ UNCHANGED <<pc, reply>> /\ file'.val = file.val
      BY <1>1, <1>2 DEF IndexStep, CreateIndex, DropIndex, Backfilled, Dropped, Ready, Content
    <2>2. QED BY <2>1 DEF Unseen, LogicalCall
  <1>3. CASE EncryptStep
    <2>1. /\ pc \notin {"put", "delete"} /\ pc' \notin {"put", "delete"} /\ UNCHANGED reply
      BY <1>3 DEF EncryptStep, EncryptTables, EncryptMeta, EncryptCheck, EncryptRewrite,
         EncryptCommit, EncryptFails, EncryptSteps, Closed, Finish
    <2>2. file'.val = file.val
      BY <1>1, <1>3 DEF EncryptStep, EncryptTables, EncryptMeta, EncryptCheck, EncryptRewrite,
         EncryptCommit, EncryptFails, Content
    <2>3. QED BY <2>1, <2>2 DEF Unseen, LogicalCall
  <1>4. QED BY <1>2, <1>3

LEMMA ProcessRefines == ProcessStep => Unseen \/ Logical!Lose
  BY DEF ProcessStep, Crash, Start, Finish, NoReply, Unseen, LogicalCall, Logical!Lose,
         Logical!Idle, Logical!Silent

LEMMA StepRefines ==
  IndInv /\ BatchInv /\ OrderInv /\ [Next]_vars => [Logical!NextBox]_(Logical!lvars)
  <1> SUFFICES ASSUME IndInv, BatchInv, OrderInv, [Next]_vars
               PROVE  Unseen \/ Logical!NextBox
    BY DEF Unseen, Logical!lvars
  <1>1. CASE UNCHANGED vars
    BY <1>1 DEF vars, Unseen, LogicalCall
  <1>2. CASE Next
    BY <1>2, ProcessRefines, OpenRefines, WriteRefines, UpkeepUnseen DEF Next, Logical!NextBox
  <1>3. QED BY <1>1, <1>2

LEMMA InitRefines == Init => Logical!InitBox
  <1> SUFFICES ASSUME Init PROVE Logical!InitBox
    OBVIOUS
  <1>1. file.val \in [Keys -> Values \cup {Absent}]
    BY InitIndInv DEF IndInv, TypeOK, Content
  <1>2. QED BY <1>1 DEF Init, NoReply, LogicalCall, Logical!InitBox, Logical!Idle,
                        Logical!Silent

\* The box is the map its callers think it is, for every build profile, key,
\* batch length and crash: each step of open, the transactions, the indexes and
\* the encryption is one step of the map or none (db.rs:258-785).
THEOREM StorageImplementsMap == Spec => ImplementsLogicalBox
  <1>1. Init => OrderInv
    BY DEF Init, OrderInv
  <1>2. Spec => []OrderInv
    BY <1>1, BatchAlways, OrderInvariance, PTL DEF Spec
  <1>3. QED BY <1>2, BatchAlways, InitRefines, StepRefines, PTL
              DEF Spec, ImplementsLogicalBox, Logical!SpecBox
=============================================================================
