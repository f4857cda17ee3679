----------------------------- MODULE BoxStorage -----------------------------
(***************************************************************************)
(* One box file, its redb transactions and the single process that uses    *)
(* it: db.rs (open, resolve, initialise, put, put_all, delete, delete_all, *)
(* clear, encrypt_box, delete_box) and index.rs (the maintenance of the    *)
(* persisted index entries inside the same transactions).                  *)
(*                                                                         *)
(* Every operation here runs under the per-box mutation lock of core.rs,   *)
(* so at most one is in progress: pc says which.  A redb write transaction *)
(* is a working copy, work, that replaces the file at commit and is thrown *)
(* away by an error or a crash.  The process may crash between any two     *)
(* steps and restart with another native feature profile.                  *)
(***************************************************************************)
EXTENDS Naturals, Sequences

CONSTANTS
  Keys,          \* record keys
  Values,        \* payloads a caller may pass
  Malformed,     \* payloads that are not valid MessagePack
  Fields,        \* fields an index may be declared on
  IndexNames,
  Scalars,       \* scalar values as they are stored in a plain index entry
  IndexScalar,   \* IndexScalar[v][f]: what index_scalar_key returns
  Canon,         \* Canon[s]: the scalar an encrypted equality token hashes
  Passwords,
  MaxBatch,      \* bound: longest batch of put_all and delete_all
  Absent, NoScalar, Unsupported, NoField, Plain

Ciphers  == Passwords \cup {Plain}
Profiles == {"minimal", "encryption", "full"}
Modes    == {"absent", "none", "chacha20poly1305"}

ASSUME ConstantsAssumption ==
  /\ Malformed \subseteq Values
  /\ Absent \notin Values
  /\ NoField \notin Fields
  /\ Plain \notin Passwords
  /\ NoScalar \notin Scalars
  /\ Unsupported \notin Scalars
  /\ NoScalar # Unsupported
  /\ IndexScalar \in [Values -> [Fields -> Scalars \cup {NoScalar, Unsupported}]]
  /\ Canon \in [Scalars -> Scalars]
  /\ MaxBatch \in Nat \ {0}

(***************************************************************************)
(* What is on disk.  mode "absent" is a file whose meta table has no       *)
(* format_version; key is the password the salt and key check belong to.   *)
(* by[k] is the key record k is encrypted with, Plain when it is not.      *)
(***************************************************************************)
PersistedScalar(by, i, f, s) ==
  IF by = Plain THEN <<s>> ELSE <<by, i, f, Canon[s]>>

Tokens == {<<s>> : s \in Scalars}
            \cup (Passwords \X IndexNames \X Fields \X Scalars)
Entries == [index : IndexNames, token : Tokens, record : Keys]

Content ==
  [ exists : BOOLEAN, dataTable : BOOLEAN, indexTables : BOOLEAN,
    mode : Modes, key : Ciphers,
    val : [Keys -> Values \cup {Absent}], by : [Keys -> Ciphers],
    defs : [IndexNames -> Fields \cup {NoField}], entries : SUBSET Entries ]

NoFile ==
  [ exists |-> FALSE, dataTable |-> FALSE, indexTables |-> FALSE,
    mode |-> "absent", key |-> Plain,
    val |-> [k \in Keys |-> Absent], by |-> [k \in Keys |-> Plain],
    defs |-> [i \in IndexNames |-> NoField], entries |-> {} ]

\* A file redb has just created, with no table in it.
EmptyFile == [NoFile EXCEPT !.exists = TRUE]

Present(c)     == {k \in Keys : c.val[k] # Absent}
Defined(c)     == {i \in IndexNames : c.defs[i] # NoField}
ScalarOf(v, f) == IndexScalar[v][f]
\* Seeded fault: a value without a scalar is indexed all the same.
HasScalarAnyway(v, f) == ScalarOf(v, f) # Unsupported

HasScalar(v, f) == ScalarOf(v, f) \in Scalars

\* The entry of record k with value v in index i over field f, written by a
\* process that encrypts with by (entry_key over persisted_scalar).
EntryOf(by, i, f, k, v) ==
  [index |-> i, token |-> PersistedScalar(by, i, f, ScalarOf(v, f)), record |-> k]

\* All that record k contributes to the indexes of c.
EntriesFor(c, by, k, v) ==
  { EntryOf(by, i, c.defs[i], k, v) : i \in {j \in Defined(c) : HasScalar(v, c.defs[j])} }

\* index_scalar_key fails on a list or map in a field some index covers.
Indexable(c, v) == \A i \in Defined(c) : ScalarOf(v, c.defs[i]) # Unsupported

\* decode_index_value and the AEAD: a record opens only under its own key.
Decodes(c, by, k) == c.by[k] = by

-----------------------------------------------------------------------------
VARIABLES
  profile,   \* the running build, or "down"
  file,      \* the committed content of <name>.dxtr
  handle,    \* the registry entry: whether the box is open, and its key
  pc,        \* the operation in progress and how far it is
  call,      \* its arguments
  work,      \* the working copy of the write transaction
  todo,      \* batch entries not yet written
  deleted,   \* keys delete_all has removed so far
  fresh,     \* open: the file had no data table, so failure removes it
  reply      \* outcome of the last put, put_all, delete, delete_all

txnVars == <<work, todo, deleted>>
vars == <<profile, file, handle, pc, call, work, todo, deleted, fresh, reply>>

Items   == Keys \X (Values \cup {Absent})
Batches == UNION {[1..n -> Items] : n \in 0..MaxBatch}
PutBatches == UNION {[1..n -> Keys \X Values] : n \in 1..MaxBatch}
KeyLists   == UNION {[1..n -> Keys] : n \in 1..MaxBatch}

Ops   == {"none", "open", "put", "delete", "encrypt"}
Calls == [op : Ops, password : Ciphers, batch : Seq(Items)]
NoCall == [op |-> "none", password |-> Plain, batch |-> <<>>]
Call(op, password, batch) == [op |-> op, password |-> password, batch |-> batch]

Replies == [status : {"none", "ok", "error"}, deleted : Seq(Keys)]
NoReply == [status |-> "none",  deleted |-> <<>>]
Error   == [status |-> "error", deleted |-> <<>>]
Ok(ks)  == [status |-> "ok",    deleted |-> ks]

OpenSteps    == {"openMeta", "openIndex"}
EncryptSteps == {"encMeta", "encCheck", "encRewrite"}
Steps == {"idle", "put", "delete"} \cup OpenSteps \cup EncryptSteps

\* A transaction with a working copy is under way.
InTxn == pc \in {"put", "delete", "encRewrite"}

Running == profile # "down"
Ready   == Running /\ pc = "idle" /\ handle.open
Closed  == Running /\ pc = "idle" /\ ~handle.open

\* A legacy box is a data table with plain records and neither metadata nor
\* index tables; it is the only file the program finds that it did not write.
LegacyFiles ==
  { [EmptyFile EXCEPT !.dataTable = TRUE, !.val = data]
    : data \in [Keys -> (Values \ Malformed) \cup {Absent}] }

Init ==
  /\ profile = "down"
  /\ file \in {NoFile} \cup LegacyFiles
  /\ handle = [open |-> FALSE, by |-> Plain]
  /\ pc = "idle"
  /\ call = NoCall
  /\ work = NoFile
  /\ todo = <<>>
  /\ deleted = <<>>
  /\ fresh = FALSE
  /\ reply = NoReply

\* Every operation ends by forgetting its arguments and its transaction.
Finish ==
  /\ pc' = "idle"
  /\ call' = NoCall
  /\ work' = NoFile
  /\ todo' = <<>>
  /\ deleted' = <<>>
  /\ fresh' = FALSE

-----------------------------------------------------------------------------
(* The process.                                                            *)

Start(p) ==
  /\ profile = "down"
  /\ profile' = p
  /\ UNCHANGED <<file, handle, pc, call, txnVars, fresh, reply>>

\* A crash, or an exit: the registry and the transaction are gone, the
\* committed file is not.
Crash ==
  /\ Running
  /\ profile' = "down"
  /\ handle' = [open |-> FALSE, by |-> Plain]
  /\ reply' = NoReply
  /\ Finish
  /\ UNCHANGED file

-----------------------------------------------------------------------------
(* Opening.  Database::create, the metadata transaction and the index      *)
(* table transaction are separate commits.                                 *)

OpenCreate(password) ==
  /\ Closed
  /\ call' = Call("open", password, <<>>)
  /\ fresh' = ~file.dataTable
  /\ file' = IF file.exists THEN file ELSE EmptyFile
  /\ pc' = "openMeta"
  /\ UNCHANGED <<profile, handle, txnVars, reply>>

\* initialize_new_box: encryption needs a build that has it.
CanInitialize == call.password = Plain \/ profile # "minimal"

OpenInitialize ==
  /\ pc = "openMeta" /\ fresh /\ CanInitialize
  /\ file' = [file EXCEPT !.dataTable = TRUE,
                          !.mode = IF call.password = Plain
                                   THEN "none" ELSE "chacha20poly1305",
                          !.key = call.password]
  /\ pc' = "openIndex"
  /\ UNCHANGED <<profile, handle, call, txnVars, fresh, reply>>

\* Seeded fault: any password opens an encrypted box.
CanResolveAnyKey ==
  CASE file.mode \in {"absent", "none"} -> call.password = Plain
    [] OTHER -> profile # "minimal" /\ call.password # Plain

\* resolve_existing_box: a box without metadata is a plain box.
CanResolve ==
  CASE file.mode \in {"absent", "none"} -> call.password = Plain
    [] file.mode = "chacha20poly1305"   -> /\ profile # "minimal"
                                           /\ call.password # Plain
                                           /\ call.password = file.key

OpenResolve ==
  /\ pc = "openMeta" /\ ~fresh /\ CanResolve
  /\ file' = IF file.mode = "absent" THEN [file EXCEPT !.mode = "none"] ELSE file
  /\ pc' = "openIndex"
  /\ UNCHANGED <<profile, handle, call, txnVars, fresh, reply>>

\* Seeded fault: the cleanup removes the file of a box that holds records.
OpenRefusedRemovesFile ==
  /\ pc = "openMeta"
  /\ IF fresh THEN ~CanInitialize ELSE ~CanResolve
  /\ file' = NoFile
  /\ Finish
  /\ UNCHANGED <<profile, handle, reply>>

\* The metadata was refused: the database is dropped and a file that held no
\* data table is removed.
OpenRefused ==
  /\ pc = "openMeta"
  /\ IF fresh THEN ~CanInitialize ELSE ~CanResolve
  /\ file' = IF fresh THEN NoFile ELSE file
  /\ Finish
  /\ UNCHANGED <<profile, handle, reply>>

\* reject_persisted_indexes_without_full in a reduced build, ensure_tables in
\* the full one; then the entry is inserted into DATABASES.
OpenRegister ==
  /\ pc = "openIndex"
  /\ profile # "full" => Defined(file) = {}
  /\ file' = IF profile = "full" THEN [file EXCEPT !.indexTables = TRUE] ELSE file
  /\ handle' = [open |-> TRUE, by |-> call.password]
  /\ Finish
  /\ UNCHANGED <<profile, reply>>

OpenRejectIndexes ==
  /\ pc = "openIndex"
  /\ profile # "full" /\ Defined(file) # {}
  /\ Finish
  /\ UNCHANGED <<profile, file, handle, reply>>

\* An I/O error of redb.  initialize_new_box's error removes a fresh file
\* (when remove_file succeeds); the errors of ensure_tables and of the first
\* read leave the file as it is.
OpenFails ==
  /\ pc \in OpenSteps
  /\ file' \in {file} \cup (IF pc = "openMeta" /\ fresh THEN {NoFile} ELSE {})
  /\ Finish
  /\ UNCHANGED <<profile, handle, reply>>

Close ==
  /\ Ready
  /\ handle' = [open |-> FALSE, by |-> Plain]
  /\ reply' = NoReply
  /\ UNCHANGED <<profile, file, pc, call, txnVars, fresh>>

DeleteBox ==
  /\ Closed
  /\ file' = NoFile
  /\ reply' = NoReply
  /\ UNCHANGED <<profile, handle, pc, call, txnVars, fresh>>

-----------------------------------------------------------------------------
(* Record mutations: one write transaction each, one batch entry at a time.*)

Begin(op, batch) ==
  /\ Ready
  /\ pc' = op
  /\ call' = Call(op, Plain, batch)
  /\ work' = file
  /\ todo' = batch
  /\ deleted' = <<>>
  /\ reply' = NoReply
  /\ UNCHANGED <<profile, file, handle, fresh>>

WellFormed(batch) == \A n \in DOMAIN batch : batch[n][2] \notin Malformed

BeginPut(k, v) == v \notin Malformed /\ Begin("put", <<<<k, v>>>>)

\* put_all validates and encodes the whole batch before it opens a transaction.
BeginPutAll(batch) == WellFormed(batch) /\ Begin("put", batch)

BeginDelete(k) == Begin("delete", <<<<k, Absent>>>>)

BeginDeleteAll(ks) == Begin("delete", [n \in DOMAIN ks |-> <<ks[n], Absent>>])

\* Seeded fault: the entries of an overwritten record stay.
OldEntriesForgotten(c, by, k) == {}

\* What maintain_put and maintain_delete take out for the stored record.
OldEntries(c, by, k) ==
  IF k \in Present(c) THEN EntriesFor(c, by, k, c.val[k]) ELSE {}

\* The decode and the scalar extraction of the old value both succeed.
OldReadable(c, by, k) ==
  (k \in Present(c) /\ Defined(c) # {}) => Decodes(c, by, k) /\ Indexable(c, c.val[k])

\* maintain_put, then the insert into the data table.
Written(c, by, k, v) ==
  [c EXCEPT !.entries = IF profile = "full"
                        THEN (@ \ OldEntries(c, by, k)) \cup EntriesFor(c, by, k, v)
                        ELSE @,
            !.val[k] = v,
            !.by[k] = by]

\* maintain_delete, then the removal.
Removed(c, by, k) ==
  [c EXCEPT !.entries = IF profile = "full" THEN @ \ OldEntries(c, by, k) ELSE @,
            !.val[k] = Absent,
            !.by[k] = Plain]

\* Seeded fault: an unindexable new value is stored without an entry.
MaintainableAnyValue(k, v) == profile = "full" => OldReadable(work, handle.by, k)

Maintainable(k, v) ==
  profile = "full" => /\ OldReadable(work, handle.by, k)
                      /\ v # Absent => Indexable(work, v)

PutEntry ==
  /\ pc = "put" /\ todo # <<>>
  /\ LET k == Head(todo)[1]
         v == Head(todo)[2]
     IN  /\ Maintainable(k, v)
         /\ work' = Written(work, handle.by, k, v)
  /\ todo' = Tail(todo)
  /\ UNCHANGED <<profile, file, handle, pc, call, deleted, fresh, reply>>

\* delete and delete_all touch only keys that are there.
DeleteEntry ==
  /\ pc = "delete" /\ todo # <<>>
  /\ LET k == Head(todo)[1]
     IN  /\ Maintainable(k, Absent)
         /\ work' = IF k \in Present(work) THEN Removed(work, handle.by, k) ELSE work
         /\ deleted' = IF k \in Present(work) THEN Append(deleted, k) ELSE deleted
  /\ todo' = Tail(todo)
  /\ UNCHANGED <<profile, file, handle, pc, call, fresh, reply>>

Commit ==
  /\ pc \in {"put", "delete"} /\ todo = <<>>
  /\ file' = work
  /\ reply' = Ok(deleted)
  /\ Finish
  /\ UNCHANGED <<profile, handle>>

\* An unindexable value, or an I/O error: the transaction is dropped.
Refused == todo # <<>> /\ ~Maintainable(Head(todo)[1], Head(todo)[2])

\* Seeded fault: the entries before the refused one are committed.
RefuseEntryKeepsPrefix ==
  /\ pc \in {"put", "delete"} /\ Refused
  /\ file' = work
  /\ reply' = Error
  /\ Finish
  /\ UNCHANGED <<profile, handle>>

RefuseEntry ==
  /\ pc \in {"put", "delete"} /\ Refused
  /\ reply' = Error
  /\ Finish
  /\ UNCHANGED <<profile, file, handle>>

WriteFails ==
  /\ pc \in {"put", "delete"}
  /\ reply' = Error
  /\ Finish
  /\ UNCHANGED <<profile, file, handle>>

\* clear removes every record and, in the full build, every index entry.
Emptied(c) ==
  [c EXCEPT !.val = [k \in Keys |-> Absent],
            !.by = [k \in Keys |-> Plain],
            !.entries = IF profile = "full" THEN {} ELSE @]

Clear ==
  /\ Ready
  /\ file' = Emptied(file)
  /\ reply' = NoReply
  /\ UNCHANGED <<profile, handle, pc, call, txnVars, fresh>>

-----------------------------------------------------------------------------
(* Index definitions: full build only.                                     *)

\* The definition and the entries derived from the data table.
Backfilled(c, by, i, f) ==
  [c EXCEPT !.defs[i] = f,
            !.entries = @ \cup { EntryOf(by, i, f, k, c.val[k])
                                : k \in {j \in Present(c) : HasScalar(c.val[j], f)} }]

\* Seeded fault: records that cannot be indexed are passed over.
CreateIndexSkips(i, f) ==
  /\ Ready /\ profile = "full"
  /\ file.defs[i] = NoField
  /\ \A k \in Present(file) : Decodes(file, handle.by, k)
  /\ file' = Backfilled(file, handle.by, i, f)
  /\ UNCHANGED <<profile, handle, pc, call, txnVars, fresh, reply>>

\* create refuses when a record does not decode or cannot be indexed.  An
\* existing definition of the same field is left alone, one of another field
\* is an error.
CreateIndex(i, f) ==
  /\ Ready /\ profile = "full"
  /\ file.defs[i] = NoField
  /\ \A k \in Present(file) : /\ Decodes(file, handle.by, k)
                              /\ ScalarOf(file.val[k], f) # Unsupported
  /\ file' = Backfilled(file, handle.by, i, f)
  /\ UNCHANGED <<profile, handle, pc, call, txnVars, fresh, reply>>

\* Seeded fault: dropping one index clears the entries of all.
DroppedAll(c, i) == [c EXCEPT !.defs[i] = NoField, !.entries = {}]

\* remove_index_entries removes the entries under the index's prefix.
Dropped(c, i) ==
  [c EXCEPT !.defs[i] = NoField, !.entries = {e \in @ : e.index # i}]

DropIndex(i) ==
  /\ Ready /\ profile = "full"
  /\ file.defs[i] # NoField
  /\ file' = Dropped(file, i)
  /\ UNCHANGED <<profile, handle, pc, call, txnVars, fresh, reply>>

-----------------------------------------------------------------------------
(* encrypt_box: three small commits, then one transaction that rewrites    *)
(* every record and the metadata.                                          *)

EncryptTables(password) ==
  /\ Closed /\ profile = "full"
  /\ file.exists
  /\ call' = Call("encrypt", password, <<>>)
  /\ file' = [file EXCEPT !.dataTable = TRUE]
  /\ pc' = "encMeta"
  /\ UNCHANGED <<profile, handle, txnVars, fresh, reply>>

\* Seeded fault: a box that is encrypted already is encrypted again.
EncryptMetaAgain ==
  /\ pc = "encMeta"
  /\ file' = [file EXCEPT !.mode = "none"]
  /\ pc' = "encCheck"
  /\ UNCHANGED <<profile, handle, call, txnVars, fresh, reply>>

EncryptMeta ==
  /\ pc = "encMeta"
  /\ file.mode # "chacha20poly1305"
  /\ file' = [file EXCEPT !.mode = "none"]
  /\ pc' = "encCheck"
  /\ UNCHANGED <<profile, handle, call, txnVars, fresh, reply>>

\* ensure_tables commits before has_definitions is asked.
EncryptCheck ==
  /\ pc = "encCheck"
  /\ file' = [file EXCEPT !.indexTables = TRUE]
  /\ IF Defined(file) = {}
     THEN /\ work' = file'
          /\ pc' = "encRewrite"
          /\ UNCHANGED <<call, todo, deleted, fresh>>
     ELSE Finish
  /\ UNCHANGED <<profile, handle, reply>>

\* Seeded fault: every record is rewritten in a transaction of its own.
EncryptRewriteCommits(k) ==
  /\ pc = "encRewrite"
  /\ k \in Present(work) /\ work.by[k] = Plain
  /\ work' = [work EXCEPT !.by[k] = call.password]
  /\ file' = work'
  /\ UNCHANGED <<profile, handle, pc, call, todo, deleted, fresh, reply>>

EncryptRewrite(k) ==
  /\ pc = "encRewrite"
  /\ k \in Present(work) /\ work.by[k] = Plain
  /\ work' = [work EXCEPT !.by[k] = call.password]
  /\ UNCHANGED <<profile, file, handle, pc, call, todo, deleted, fresh, reply>>

EncryptCommit ==
  /\ pc = "encRewrite"
  /\ \A k \in Present(work) : work.by[k] # Plain
  /\ file' = [work EXCEPT !.mode = "chacha20poly1305", !.key = call.password]
  /\ Finish
  /\ UNCHANGED <<profile, handle, reply>>

\* "box is already encrypted", or an I/O error at any step.
EncryptFails ==
  /\ pc \in EncryptSteps
  /\ Finish
  /\ UNCHANGED <<profile, file, handle, reply>>

-----------------------------------------------------------------------------
ProcessStep == Crash \/ \E p \in Profiles : Start(p)

OpenStep ==
  \/ \E p \in Ciphers : OpenCreate(p)
  \/ OpenInitialize
  \/ OpenResolve
  \/ OpenRefused
  \/ OpenRegister
  \/ OpenRejectIndexes
  \/ OpenFails
  \/ Close
  \/ DeleteBox

WriteStep ==
  \/ \E k \in Keys, v \in Values : BeginPut(k, v)
  \/ \E batch \in PutBatches : BeginPutAll(batch)
  \/ \E k \in Keys : BeginDelete(k)
  \/ \E ks \in KeyLists : BeginDeleteAll(ks)
  \/ PutEntry
  \/ DeleteEntry
  \/ Commit
  \/ RefuseEntry
  \/ WriteFails
  \/ Clear

IndexStep ==
  \/ \E i \in IndexNames, f \in Fields : CreateIndex(i, f)
  \/ \E i \in IndexNames : DropIndex(i)

EncryptStep ==
  \/ \E p \in Passwords : EncryptTables(p)
  \/ EncryptMeta
  \/ EncryptCheck
  \/ \E k \in Keys : EncryptRewrite(k)
  \/ EncryptCommit
  \/ EncryptFails

Next == ProcessStep \/ OpenStep \/ WriteStep \/ IndexStep \/ EncryptStep

Spec == Init /\ [][Next]_vars

-----------------------------------------------------------------------------
(* Properties.                                                             *)

TypeOK ==
  /\ profile \in Profiles \cup {"down"}
  /\ file \in Content
  /\ handle \in [open : BOOLEAN, by : Ciphers]
  /\ pc \in Steps
  /\ call \in Calls
  /\ work \in Content
  /\ todo \in Seq(Items)
  /\ deleted \in Seq(Keys)
  /\ fresh \in BOOLEAN
  /\ reply \in Replies

\* The index entries a content must have: one for each record with a scalar
\* in each indexed field, encoded with the key the record is stored under.
Derived(c) == UNION {EntriesFor(c, c.by[k], k, c.val[k]) : k \in Present(c)}

Consistent(c) == c.entries = Derived(c)

\* The persisted indexes always describe exactly the committed records: no
\* stale entry survives an overwrite, a delete, a clear or a drop, and none
\* is missing after a backfill, in a plain and in an encrypted box, whatever
\* crashes and whichever build writes (index.rs:288-364, db.rs:582-785).
IndexConsistent == Consistent(file)

\* No accepted record can block its own removal or replacement: whatever is
\* stored decodes under the open handle and has an indexable value in every
\* indexed field, so maintain_put and maintain_delete never fail on the old
\* value (index.rs:300-311, 337-345).
StoredRecordsMaintainable ==
  handle.open /\ ~InTxn =>
    \A k \in Present(file) : /\ Decodes(file, handle.by, k)
                             /\ Indexable(file, file.val[k])

\* The metadata and the records agree on encryption in every committed
\* state, so encrypt_box is all or nothing across crashes and I/O errors
\* (docs/PLAINTEXT_ENCRYPTION_MIGRATION.md, Atomicity model; db.rs:539-574).
EncryptionUniform ==
  /\ file.mode = "chacha20poly1305" <=> file.key # Plain
  /\ \A k \in Present(file) : file.by[k] = file.key

\* A registered handle encrypts with the key its file declares, and the
\* tables it reads exist: open's separate commits and its early returns never
\* register a half-initialised file (db.rs:377-421), nor, in a reduced build,
\* which maintains no indexes, a file that has some (db.rs:341-353).
HandleMatchesFile ==
  handle.open =>
    /\ file.exists /\ file.dataTable
    /\ handle.by = file.key
    /\ file.mode # "absent"
    /\ profile = "full" => file.indexTables
    /\ profile # "full" => Defined(file) = {}

\* A box that is encrypted stays encrypted under the same key until its file is
\* deleted: no open, crash, failed open or migration rewrites its metadata
\* (db.rs:258-320, 515-522).
EncryptionSticks ==
  [][file.mode = "chacha20poly1305" /\ file'.exists =>
       file'.mode = "chacha20poly1305" /\ file'.key = file.key]_file

\* Opening never loses records: while an open is in progress, or fails, or the
\* process crashes under it, every committed record stays where it was
\* (the cleanup of db.rs:397-406 removes only a file without a data table).
OpenKeepsRecords ==
  [][(pc \in OpenSteps) => file'.val = file.val]_vars

\* Entry m of the batch is the last one for key k.
LastEntry(batch, k, m) ==
  /\ m \in DOMAIN batch /\ batch[m][1] = k
  /\ \A j \in DOMAIN batch : batch[j][1] = k => j <= m

\* What a batch makes of the records before: the last entry for a key wins and
\* the other keys keep their record.
BatchApplied(batch, before, after) ==
  \A k \in Keys :
    \/ (\A j \in DOMAIN batch : batch[j][1] # k) /\ after[k] = before[k]
    \/ \E m \in DOMAIN batch : LastEntry(batch, k, m) /\ after[k] = batch[m][2]

\* The keys a call answers it has deleted are those whose record went, each once.
ReportsDeleted(ks, before, after) ==
  /\ {ks[j] : j \in DOMAIN ks} = {k \in Keys : before[k] # Absent /\ after[k] = Absent}
  /\ \A i, j \in DOMAIN ks : ks[i] = ks[j] => i = j

\* put, put_all, delete and delete_all take effect as a whole and in order, in
\* the step that answers "ok", or not at all, whatever fails in the middle of
\* a batch; delete_all reports what it removed, keys named twice or not there
\* included (db.rs:582-785).
BatchAllOrNothing ==
  [][(pc \in {"put", "delete"}) /\ (file'.val # file.val \/ reply'.status = "ok") =>
       /\ reply'.status = "ok"
       /\ BatchApplied(call.batch, file.val, file'.val)
       /\ ReportsDeleted(reply'.deleted, file.val, file'.val)]_vars

-----------------------------------------------------------------------------
(* The inductive invariant behind the properties above.                    *)

\* Two contents with the same tables, metadata and index definitions.
SameFrame(c, d) ==
  /\ c.exists = d.exists /\ c.dataTable = d.dataTable
  /\ c.indexTables = d.indexTables
  /\ c.mode = d.mode /\ c.key = d.key
  /\ c.defs = d.defs

AllIndexable(c) == \A k \in Present(c) : Indexable(c, c.val[k])
AllUnder(c, by) == \A k \in Present(c) : c.by[k] = by

FileInv ==
  /\ Consistent(file) /\ AllIndexable(file) /\ EncryptionUniform
  /\ file.dataTable => file.exists
  /\ ~file.dataTable => /\ Present(file) = {} /\ Defined(file) = {}
                        /\ file.mode = "absent"

HandleInv ==
  /\ HandleMatchesFile
  /\ handle.open => Running /\ pc \in {"idle", "put", "delete"}

WriteInv ==
  pc \in {"put", "delete"} =>
    /\ handle.open
    /\ SameFrame(work, file)
    /\ Consistent(work) /\ AllIndexable(work) /\ AllUnder(work, file.key)
    /\ pc = "put" => todo \in Seq(Keys \X Values)

OpenInv ==
  /\ pc \in OpenSteps => Running /\ file.exists
  /\ pc = "openMeta" => fresh = ~file.dataTable
  /\ pc = "openIndex" => /\ file.dataTable /\ file.mode # "absent"
                         /\ call.password = file.key

EncryptInv ==
  /\ pc \in EncryptSteps => /\ profile = "full" /\ file.dataTable
                            /\ call.password \in Passwords
  /\ pc \in {"encCheck", "encRewrite"} => file.mode = "none"
  /\ pc = "encRewrite" =>
       /\ SameFrame(work, file) /\ work.val = file.val
       /\ Defined(work) = {} /\ work.entries = {}
       /\ \A k \in Present(work) : work.by[k] \in {Plain, call.password}

\* The first n entries of a batch.
FirstOf(batch, n) == [j \in 1..n |-> batch[j]]
Done == Len(call.batch) - Len(todo)

\* The working copy holds the records after the entries written so far, and
\* todo is the rest of the batch.
BatchInv ==
  pc \in {"put", "delete"} =>
    /\ reply = NoReply
    /\ Done \in Nat
    /\ \A j \in DOMAIN todo : todo[j] = call.batch[Done + j]
    /\ pc = "delete" => \A j \in DOMAIN call.batch : call.batch[j][2] = Absent
    /\ pc = "put" => deleted = <<>>
    /\ BatchApplied(FirstOf(call.batch, Done), file.val, work.val)
    /\ ReportsDeleted(deleted, file.val, work.val)

\* Entry m of the batch is the first one for key k.
FirstEntry(batch, k, m) ==
  /\ m \in DOMAIN batch /\ batch[m][1] = k
  /\ \A j \in DOMAIN batch : batch[j][1] = k => m <= j

\* What has been deleted so far is in the order in which the batch first names
\* it, among the entries that are done.
OrderInv ==
  pc = "delete" =>
    /\ \A i \in DOMAIN deleted : \E m \in 1..Done : FirstEntry(call.batch, deleted[i], m)
    /\ \A i, j \in DOMAIN deleted : i < j =>
         \A m, n \in DOMAIN call.batch :
           FirstEntry(call.batch, deleted[i], m) /\ FirstEntry(call.batch, deleted[j], n) => m < n

IndInv == TypeOK /\ FileInv /\ HandleInv /\ WriteInv /\ OpenInv /\ EncryptInv
=============================================================================
