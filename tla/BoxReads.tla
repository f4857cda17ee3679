------------------------------ MODULE BoxReads ------------------------------
(***************************************************************************)
(* The reads of db.rs (get, get_all, contains_key, all_keys, len) while    *)
(* writers commit and the box is closed, deleted, created again and        *)
(* encrypted under them.  A read takes no mutation lock: it copies two     *)
(* Arcs from the registry, begins a redb transaction some time later, and  *)
(* visits its keys one by one.  get and contains_key are a batch of one    *)
(* key; len counts what all_keys visits.                                   *)
(*                                                                         *)
(* Calls that change the box hold its mutation lock and are one step each  *)
(* here; BoxLifecycle has their sections, and the compaction.  A file      *)
(* lives on without its name as long as a reader has it open.              *)
(***************************************************************************)
EXTENDS Naturals, FiniteSets, SequencesExt

CONSTANTS
  Readers, Keys, Values, Passwords,
  Requests,    \* the key lists readers ask for, repeated keys among them
  Absent, Plain,
  MaxCommits,  \* bound: committed states, deletions included
  MaxFiles     \* bound: files created for the box

ASSUME ReadsAssumption ==
  /\ Plain \notin Passwords /\ Absent \notin Values
  /\ IsFiniteSet(Keys) /\ Requests \subseteq Seq(Keys)

Modes == Passwords \cup {Plain}
Records == [value : Values, mode : Modes]  \* what a file may hold of a key
ASSUME AbsentAssumption == Absent \notin Records

Empty == [k \in Keys |-> Absent]

VARIABLES
  files,    \* every file made for the box: [data, mode]; data is what is stored
  linked,   \* the file the name has now, or 0
  db,       \* the DATABASES entry: [file, mode], no file while closed
  history,  \* the contents the box has had, an empty one after a deletion
  reads     \* the call of each reader

readVars == <<files, linked, db, history, reads>>

Closed   == [file |-> 0, mode |-> Plain]
NoRead   == [op |-> "none", pc |-> "idle", since |-> 0, arc |-> Closed, snapshot |-> Empty,
             rest |-> <<>>, keys |-> <<>>, answer |-> <<>>]
Stored(v, mode) == [value |-> v, mode |-> mode]
Contents == [Keys -> Values \cup {Absent}]
StoredAs(c, mode) == [k \in Keys |-> IF c[k] = Absent THEN Absent ELSE Stored(c[k], mode)]

ReadsInit ==
  /\ files = <<>> /\ linked = 0 /\ db = Closed
  /\ history = <<Empty>>
  /\ reads = [r \in Readers |-> NoRead]

\* redb refuses a second Database of a file that is open in the process.
FileInUse(n) == db.file = n \/ \E r \in Readers : reads[r].arc.file = n

-----------------------------------------------------------------------------
(* What changes the box, under its mutation lock.                          *)

\* open: a new file takes the mode asked for, an existing one must have it.
Open(mode) ==
  /\ db = Closed
  /\ (linked # 0 => ~FileInUse(linked) /\ files[linked].mode = mode)
  /\ (linked = 0 => Len(files) < MaxFiles)
  /\ files' = IF linked = 0 THEN Append(files, [data |-> Empty, mode |-> mode]) ELSE files
  /\ linked' = IF linked = 0 THEN Len(files') ELSE linked
  /\ db' = [file |-> linked', mode |-> mode]
  /\ UNCHANGED <<history, reads>>

\* close of the last handle: readers keep their Arcs.
Close ==
  /\ db # Closed
  /\ db' = Closed
  /\ UNCHANGED <<files, linked, history, reads>>

DeleteBox ==
  /\ db = Closed /\ linked # 0 /\ Len(history) < MaxCommits
  /\ linked' = 0
  /\ history' = Append(history, Empty)
  /\ UNCHANGED <<files, db, reads>>

\* encrypt_box: every record in one transaction, of a closed plaintext box.
EncryptBox(password) ==
  /\ db = Closed /\ linked # 0 /\ ~FileInUse(linked)
  /\ files[linked].mode = Plain
  /\ files' = [files EXCEPT ![linked].mode = password,
       ![linked].data = [k \in Keys |-> IF @[k] = Absent THEN Absent ELSE Stored(@[k].value, password)]]
  /\ UNCHANGED <<linked, db, history, reads>>

\* put, put_all, delete, delete_all, clear: some keys change in one commit.
Commit(content) ==
  /\ db # Closed /\ Len(history) < MaxCommits
  /\ content # Last(history)
  /\ files' = [files EXCEPT ![db.file].data = StoredAs(content, db.mode)]
  /\ history' = Append(history, content)
  /\ UNCHANGED <<linked, db, reads>>

-----------------------------------------------------------------------------
(* A read.                                                                 *)

Step(r, pc) == reads[r].pc = pc /\ UNCHANGED <<files, linked, db, history>>

Call(r, op, keys) ==
  /\ Step(r, "idle")
  /\ reads' = [reads EXCEPT ![r] = [NoRead EXCEPT !.op = op, !.pc = "find", !.since = Len(history),
                                                  !.keys = keys, !.rest = keys]]

\* database: both Arcs under one read lock, or the box is not open.
FindBox(r) ==
  /\ Step(r, "find")
  /\ reads' = [reads EXCEPT ![r] = [reads[r] EXCEPT !.pc = IF db = Closed THEN "refused" ELSE "begin", !.arc = db]]

\* begin_read: the last commit of that file; all_keys and len visit what it has.
Begin(r) ==
  /\ Step(r, "begin")
  /\ LET read == reads[r]
         data == files[read.arc.file].data
         rest == IF read.op = "all_keys" THEN SetToSeq({k \in Keys : data[k] # Absent}) ELSE read.rest
     IN  reads' = [reads EXCEPT ![r] = [read EXCEPT !.pc = "visit", !.snapshot = data, !.rest = rest]]

\* The next key, found or not: a miss is left out, a repeated key answered again.
Answer(r, k, stored) ==
  LET read == reads[r]
      answer == IF stored = Absent THEN read.answer
                ELSE Append(read.answer, [key |-> k, stored |-> stored])
  IN  reads' = [reads EXCEPT ![r] = [read EXCEPT !.rest = Tail(read.rest), !.answer = answer]]

\* Seeded fault: every key is looked up in a transaction of its own.
VisitLatest(r) ==
  /\ Step(r, "visit") /\ reads[r].rest # <<>>
  /\ LET k == Head(reads[r].rest) IN Answer(r, k, files[reads[r].arc.file].data[k])

Visit(r) ==
  /\ Step(r, "visit") /\ reads[r].rest # <<>>
  /\ LET k == Head(reads[r].rest) IN Answer(r, k, reads[r].snapshot[k])

\* The transaction and the Arcs are dropped when the call returns.
Return(r) ==
  /\ Step(r, "visit") /\ reads[r].rest = <<>>
  /\ reads' = [reads EXCEPT ![r] = [reads[r] EXCEPT !.pc = "done"]]

Forget(r) ==
  /\ reads[r].pc \in {"done", "refused"} /\ UNCHANGED <<files, linked, db, history>>
  /\ reads' = [reads EXCEPT ![r] = NoRead]

ReadsNext ==
  \/ \E mode \in Modes : Open(mode)
  \/ \E password \in Passwords : EncryptBox(password)
  \/ Close \/ DeleteBox
  \/ \E content \in Contents : Commit(content)
  \/ \E r \in Readers :
       \/ \E keys \in Requests : Call(r, "get_all", keys)
       \/ Call(r, "all_keys", <<>>)
       \/ FindBox(r) \/ Begin(r) \/ Visit(r) \/ Return(r) \/ Forget(r)

ReadsSpec == ReadsInit /\ [][ReadsNext]_readVars

-----------------------------------------------------------------------------
(* What a read answers.                                                    *)

\* place lists the positions in S, in order.
Enumerates(place, S) ==
  /\ {place[i] : i \in DOMAIN place} = S
  /\ \A i, j \in DOMAIN place : i < j => place[i] < place[j]

\* The value of a record, which only the mode it was written with decodes.
Decoded(read) ==
  [n \in DOMAIN read.answer |->
     LET x == read.answer[n].stored
     IN  [key |-> read.answer[n].key, value |-> IF x.mode = read.arc.mode THEN x.value ELSE Absent]]

\* The read answers with content c: the keys it has, or the values of those
\* that were asked for, in the order of the request.
Reading(read, c) ==
  LET rows == Decoded(read) IN
  IF read.op = "all_keys" THEN {rows[n].key : n \in DOMAIN rows} = {k \in Keys : c[k] # Absent}
  ELSE \E place \in [DOMAIN rows -> DOMAIN read.keys] :
         /\ Enumerates(place, {i \in DOMAIN read.keys : c[read.keys[i]] # Absent})
         /\ \A n \in DOMAIN rows :
              LET k == read.keys[place[n]] IN rows[n] = [key |-> k, value |-> c[k]]

\* A batch read answers from one committed content, one the box had between the
\* call and its return, in the order of the request (box.dart:131): never from
\* two commits, never from before the call, and never from a box of the same
\* name that came or went meanwhile.  The encryption state it has copied
\* decodes every record it meets.
AnswersOneCommit ==
  \A r \in Readers : reads[r].pc = "done" =>
    \E n \in reads[r].since..Len(history) : Reading(reads[r], history[n])

-----------------------------------------------------------------------------
(* What every step keeps.                                                  *)

ReadPcs == {"idle", "find", "refused", "begin", "visit", "done"}

ReadsTyped ==
  /\ files \in Seq([data : [Keys -> Records \cup {Absent}], mode : Modes])
  /\ linked \in 0..Len(files)
  /\ db \in [file : 0..Len(files), mode : Modes]
  /\ history \in Seq(Contents) /\ history # <<>>
  /\ reads \in [Readers -> [
       op : {"none", "get_all", "all_keys"}, pc : ReadPcs, since : Nat,
       arc : [file : Nat, mode : Modes], snapshot : [Keys -> Records \cup {Absent}],
       rest : Seq(Keys), keys : Seq(Keys), answer : Seq([key : Keys, stored : Records])]]

\* The file that has the name holds the last content, in one mode.
NamedFileInv ==
  /\ linked = 0 => Last(history) = Empty
  /\ linked # 0 => files[linked].data = StoredAs(Last(history), files[linked].mode)
  /\ db.file = 0 => db = Closed
  /\ db.file # 0 => db.file = linked /\ db.mode = files[linked].mode

\* The data is a content the box has had since the call, in the reader's mode.
Since(read, data) ==
  \E n \in read.since..Len(history) : data = StoredAs(history[n], read.arc.mode)

\* The part of the snapshot that has been visited is answered.
Visited(read) ==
  /\ \A n \in DOMAIN read.answer : read.answer[n].stored = read.snapshot[read.answer[n].key]
  /\ IF read.op = "all_keys"
     THEN {read.answer[n].key : n \in DOMAIN read.answer} \cup ToSet(read.rest)
            = {k \in Keys : read.snapshot[k] # Absent}
     ELSE LET m == Len(read.keys) - Len(read.rest) IN
          /\ m \in Nat
          /\ \A i \in DOMAIN read.rest : read.rest[i] = read.keys[m + i]
          /\ \E place \in [DOMAIN read.answer -> 1..m] :
               /\ Enumerates(place, {i \in 1..m : read.snapshot[read.keys[i]] # Absent})
               /\ \A n \in DOMAIN read.answer : read.answer[n].key = read.keys[place[n]]

ReaderInv ==
  \A r \in Readers :
    LET read == reads[r] IN
    /\ read.pc # "idle" => read.since \in 1..Len(history)
    /\ read.pc = "begin" =>
         /\ read.arc.file \in DOMAIN files /\ files[read.arc.file].mode = read.arc.mode
         /\ Since(read, files[read.arc.file].data)
    /\ read.pc \in {"find", "begin"} => read.answer = <<>> /\ read.rest = read.keys
    /\ read.pc \in {"visit", "done"} => Since(read, read.snapshot) /\ Visited(read)
    /\ read.pc = "done" => read.rest = <<>>

ReadsInv == ReadsTyped /\ NamedFileInv /\ ReaderInv
=============================================================================
