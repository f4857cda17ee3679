# dxtr_box: specifications

TLA+ modules for the storage engine of dxtr_box, an embedded key-value box
database: a Rust core over redb (`rust/src`), reached from Dart (`lib/src`)
through a generated bridge. The modules are written from the source; line
numbers below and in the comments refer to it. `PROJECT.json` maps every
definition to the lines it models and lists components, runs, hazards, findings
and theorems.

## 1. Inventory

| Component | State it keeps | Operations | Talks to |
|---|---|---|---|
| Box storage (`db.rs`, `crypto.rs`) | one redb file per box: data table, meta table (format, encryption, salt, key check), index tables | open, close, deleteBox, put, putAll, delete, deleteAll, clear, encryptBox, reads | called under the mutation lock by `core.rs`; calls `index.rs` inside its write transactions |
| Persisted indexes (`index.rs`, `index_token.rs`) | definitions and entries, in the same file | create with backfill, drop, maintain on put/delete/clear, candidate lookup | storage (same transaction), query |
| Registry and locks (`db.rs`, `core.rs`, `native.rs`) | `BASE_PATH`, `DATABASES` (Arc and handle count per name), `COMPACTING`, `MIGRATING`, `MUTATION_LOCKS` | init, open, close, delete, encrypt, compact, `database()` for reads and writes | every caller thread: the bridge's workers and Rust clients through `native.rs` |
| Query (`query.rs`, `core.rs`) | none beyond one call: snapshot, candidates, rows | plan, look up, visit, sort, page | a redb read transaction, the indexes |
| Watch and key metadata (`api.rs`, `box.dart`, `dxtr_box.dart`) | `WATCHERS` (sinks per box); in Dart `BoxMetadata.keys`, shared by the handles of a box, and per handle `_metadataHydrated`, `_pendingWatchEvents` | watch, unwatch, emit; deliver, hydrate, reply, close | core (events under the mutation lock), the Dart event loop |
| Hive CE migration (`hive_ce_migration.dart`, `dxtr_box.dart`) | the reservation marker `.<name>.dxtr.migrating`, the destination file, `_openHandlesByName` | openNew, migrate, clean up, release; the marker checks of an ordinary open | file system, native open/close/delete |
| Batch reads (`db.rs`, `core.rs`) | none beyond one call: the two Arcs it copied, its transaction | get, getAll, containsKey, all_keys, len | the registry, a redb read transaction |
| Inspector (`inspector.rs`, `inspector_decode.rs`, `bin/dxtr_box_inspect.rs`) | a copy of the box file in the temporary directory | boxes, indexes, keys, get; command line to exit code | the file system only: the application goes on using the box |
| Value codec (`codec.dart`, `query.rs`, `inspector_decode.rs`) | none | tagging on write; three ways to undo it | every record and every query value |
| Query builders (`query.dart`, `query_builder.dart`, `native.rs`, `query.rs`) | the filter tree built so far, a pending AND or OR | fluent calls, explicit groups, wire form, parser | the query engine |
| Bridge, benchmarks, tools, examples | none of their own | generated forwarding, measurements | not modelled, see section 6 |

What is hard here:

- **Concurrency.** Mutations of a box are serialised by a lock that is created
  lazily; reads, `init` and `getAllKeys` do not take it. `compact` takes the
  database out of the registry while it works. In Dart every `await` lets
  another handle, reply or event run.
- **Atomicity and crashes.** A mutation is one redb transaction, but `open` and
  `encrypt_box` are several. Records, index entries and metadata have to agree
  in every committed state, under three native builds (minimal, encryption,
  full), of which only the full one maintains indexes.
- **Ordering.** Events follow commits; the reply of a call and the events of
  other calls reach Dart on different paths, and both write the key metadata.
- **Two processes.** The inspector copies a file that is being written, under a
  name another process may be using, and may be killed with the copy in place.
- **Several readers of one format.** Dart, the query engine and the inspector
  undo the value tags separately. Integers and doubles are compared by
  a case analysis around 2^63 and 2^64, and hashed into index tokens by another.
- **Reservation.** An exclusive marker file, checked twice by ordinary opens,
  keeps the destination of a migration private, and outlives its process.

What makes each component correct is stated as its properties, section 4; the
hazards they are aimed at are listed in `PROJECT.json`, each at its line.

## 2. Modules

| Module | Subject | Used by |
|---|---|---|
| `BoxStorage` | one box file, all operations that change it, crashes, I/O errors, builds | `MCBoxStorage`, `BoxStorageRefinement` |
| `LogicalBox` | abstract specification: the map a caller sees | `BoxStorageRefinement` |
| `BoxStorageRefinement` | the mapping from `BoxStorage` to `LogicalBox` | `MCBoxStorage`, `BoxStorageProofs` |
| `BoxStorageProofs` | theorems on `BoxStorage` and its refinement | TLAPS |
| `BoxStorageFaults` | `BoxStorage` with a read error that `open` misunderstands | run `storage_misread` |
| `BoxLifecycle` | registry, handles, locks, compaction, roots, N threads | runs directly |
| `BoxLifecycleProofs` | theorems on the registry | TLAPS |
| `FoldTheorems` | induction and recursion on numbers, finite sets and trees; folds; orders | the modules of proofs |
| `BoxReads` | reads without a lock beside everything that changes the box | `MCDataPath` |
| `BoxQuery` | one query over a snapshot with concurrent writers | `MCBoxQuery` |
| `BoxQueryProofs` | answers and errors of a query, filters however deep | TLAPS |
| `NumericOrder` | the order and the index tokens of numbers | `MCDataPath` |
| `WireFormat` | values as trees, their tags and the three readers of them | `WireCodec`, `QueryBuilders` |
| `WireCodec` | one record, written and read by everybody | `MCDataPath` |
| `QueryBuilders` | one query built in Dart and in Rust, sent, parsed | `MCDataPath` |
| `DataPathProofs` | what a value goes through: numbers, the codec, batch reads, the builders | TLAPS |
| `BoxWatch` | watchers, events, replies, key metadata of N handles, isolates that die | `BoxWatchCalls` |
| `BoxWatchCalls` | the same, and whether calls or handles ever overlapped | `MCBoxWatch` |
| `BoxWatchProofs` | the order of events, the snapshot, sequential callers | TLAPS |
| `HiveMigration` | migrations, the marker, ordinary opens, deaths of the process | runs directly |
| `HiveMigrationProofs` | the marker's exclusion, the destination's privacy | TLAPS |
| `Inspector` | inspections in several processes beside an application | `MCInspector` |
| `InspectorProofs` | answers, exit codes and copies | TLAPS |

The modules divide the system along promises that one of them establishes and
another uses. `BoxLifecycle` shows that at most one locked call works on a box
(`MutationExclusive`); `BoxStorage` has one operation in progress, `BoxWatch`
one lock and `BoxReads` whole mutations for that reason. `BoxStorage` shows that the
persisted entries are exactly those the records derive (`IndexConsistent`);
`BoxQuery` derives them from its snapshot. `BoxLifecycle` shows that handles are
counted by name; `HiveMigration` uses a count. `NumericOrder` shows that comparison
and tokens follow the real numbers; `BoxQuery` gives a number one rank for that
reason. `WireCodec` shows that an index and a query see the field that was stored;
`BoxStorage` and `BoxQuery` take a record's scalar as given.

### BoxStorage

`file` is the committed redb file; `val[k]` is the plaintext of a record and
`by[k]` the key it is encrypted with, so a cipher is never computed, only
matched. An index entry is the triple the code encodes in `entry_key`: index,
scalar, record; in an encrypted box the scalar is a token bound to key, index
and field. `pc` is the operation in progress. A write transaction copies `file`
to `work`, handles one batch entry per step (`PutEntry`, `DeleteEntry`: the
index maintenance together with the record) and replaces `file` at `Commit`; an
unindexable value, an I/O error and a crash throw `work` away. `open` is the
sequence `OpenCreate`, `OpenInitialize` or `OpenResolve`, `OpenRegister`, with a
failure possible between any two, including the cleanup that deletes a file
without a data table. `encrypt_box` is `EncryptTables`, `EncryptMeta`,
`EncryptCheck` (three commits) and the rewriting transaction. `clear`, index
creation and drop are one transaction with no visible inside and are one step.
`Crash` may happen anywhere; `Start` restarts with any build. A box found on disk
at the start is absent, or a legacy box: a data table with plain records only.

`BoxStorageFaults` adds one action, `OpenMisread`: the existence test of the data
table fails with an I/O error, and `open` goes on as with a new file.

### BoxLifecycle

One step is one critical section: every function takes `DATABASES`,
`COMPACTING`, `MIGRATING` in this order and keeps them until it returns, so
nothing can be observed inside. Where the code releases and takes a guard again
there are two steps: `init`'s check and assignment, the two halves of
`mutation_lock`, the three lookups of `database()`, the marks of `encrypt_box`
and `compact` around their work. `arc[t]` is the `Arc` a thread holds: the
strong count test of `compact` is `Sharers(n) = {}`. `owned` counts the handles
clients were given and have not closed; a client closes only a handle it has.

The registry locks themselves are not variables, so a deadlock among them is
outside the model. By inspection there is none: the order is `DATABASES`,
`COMPACTING`, `MIGRATING` everywhere; `init` takes `DATABASES` inside
`BASE_PATH`'s read lock, and nobody who holds `DATABASES` takes `BASE_PATH`;
the per-box lock is always taken before any of them.

### BoxReads

A read is `FindBox` (both Arcs under one read lock), `Begin` (the redb transaction)
and one `Visit` per key, with commits, the last close, deletion, a new file of the
same name and encryption between any two. A mutation is one step here; its inside
is in the two modules above. `files` keeps every file ever made for
the name, because a reader may hold one that has lost it; `history`, what the box
contained, is a history variable.

### BoxQuery

A value is a type, a rank and an encoding, so `Int_(1)` and `Float(1)` are equal
numbers stored differently. `MatchesFilter`, `CandidateMatches`,
`CompareColumn` follow the code with its short-circuits, its type errors and its
early return on a full page; `Expected` is the reference: the records that
satisfy the filter, sorted by place and key, cut to the page. Writers and index
changes interleave with every step of the query. Filters are any set of trees whose
groups are deeper than their parts (`Depth`), so that the code's recursions over a filter
are recursive functions on that set.

### NumericOrder

A number is its type, its integral part and its fraction, as `f64::trunc` splits
it. `CompareI64F64`, `CompareU64F64` and the dispatch in `CompareNumeric` follow
the branches of the code and its saturating casts; `Token` follows
`index_token.rs`. `PutNumber` and `DeleteNumber` maintain an encrypted index, so
`LookupFindsAll` can compare a lookup with a scan. Doubles are a superset
of the real ones (every integral part with every fraction): what holds of the
superset holds of them.

### WireFormat, WireCodec, QueryBuilders

A value is a tree: MessagePack's choice of type is modelled, its bytes are not. `Tree`
has the trees of up to so many levels, over the leaves' spellings in `Texts`; `Nesting` is
the most a Dart value may have, and a record has room for what tagging adds to it. A
recursion of the code is a function on these sets, and its body an operator of its own,
which is given the function for the parts (`ToWireBy` and `ToWire`).
A date is its microseconds since the epoch and is either in UTC (`datetime`) or local
(`localtime`), as Dart's `isUtc` says; `toUtc()` (`codec.dart:36`) writes both alike,
and what is read back is always in UTC (`codec.dart:74`).
`ToWire` and `FromWire` are `codec.dart`; `Normalize` and `LookupField` are
`query.rs`; `Shown` is the inspector's JSON. Each is a recursion of its own because
the code has three. In `WireCodec` one record is written, by Dart or as MessagePack
from a Rust program, and read by everybody. In `QueryBuilders` one client makes the
same calls on the Dart and on the Rust builder; `Send` takes what Dart built through
the same codec and the parser (`DecodeQuery`), and `SendForeign` feeds the parser
payloads of other frontends, with one mistake each. A filter is a tree too, so
`_filterWire`, `parse_filter` and `matches_filter` are functions on trees like the
others. The codec throws at a value it has no form for, and nothing is sent.

### BoxWatch

`Commit` and `Emit` are two steps under the mutation lock, `Reply` is the Dart
continuation, `Deliver` one event reaching one handle. Each handle goes through
openBox, watch, getAllKeys, hydration and close. Nothing in the bridge orders a
reply against the events of a stream, so the model does not either. `log` and
`seen` are history variables for `EventsFollowCommits`. `IsolateDies` is a hot
restart: the Dart side is gone, the native library and its calls go on, sinks of
the dead isolate stay in `WATCHERS` until an emission fails on them, and the next
isolate may call before that. `DeleteBox` takes the watchers with the file and
drops the metadata object, and with it the replies that would have written to it.

### HiveMigration

Each `await` is a step boundary. The engine counts handles by name without
knowing whose they are, which is what makes the clean-up of `openNew` delicate;
`engine.linked` says whether the open file is still in the directory. `Crash` ends
every actor at once and keeps the files, the marker included.

### Inspector

A call looks at the directory, copies the box to the first free of `MaxAttempts`
names made of pid and counter, opens the copy with redb, answers from it and
removes it. The application moves the file through its stages meanwhile, one
committed content at a time. A copy made while the file changes is `Torn`: redb
opens it as one of the contents committed during the copy, or refuses it. Calls run
in processes, which are killed and restarted, possibly with a pid seen before, and
two processes in different pid namespaces may share one.

## 3. Runs

| Run | Instance | Distinct states | Shows |
|---|---|---|---|
| `box_storage` | 2 keys, 4 payloads (two encodings of a number, a list, malformed), 2 indexes over 2 fields, 2 passwords, batches to 3 | 427 thousand | the storage properties; the storage implements `LogicalBox` |
| `storage_misread` | 2 keys, 2 payloads, 1 index | violation | finding 5 |
| `lifecycle` | 3 threads, 1 box, 1 root, 2 handles | 256 thousand | the registry's safety and liveness |
| `lifecycle_roots` | 2 threads, 2 roots, 1 handle | violation | finding 1 |
| `query` | 2 keys, 2 fields, 5 records, 16 queries, encrypted and plain | 1.9 million | answers and errors |
| `query_plans` | the same | violation | finding 2 |
| `watch` | 2 handles, 2 calls, 1 key, 3 events or 1 and a restart, symmetry | 7.4 million | event order, hydration, metadata of sequential callers |
| `watch_concurrent` | 1 handle, 2 calls, 2 keys | violation | finding 4 |
| `hive_migration` | 2 migrations, 2 openers, 2 deaths of the process | 262 thousand | the reservation |
| `migration_rejected` | 2 migrations, 1 opener | violation | finding 3 |
| `inspector` | 19 command lines alone, 2 keys, 1 index, 3 commits; or 3 calls in 2 processes of one pid, killed and restarted, 1 commit; symmetry | 3.0 million | answers, exit codes, copies |
| `data_path` | numbers: 4-bit integers, all doubles in halves around them, 2 records; codec: values of depth 2 over the tags and a few leaves, among them dates in UTC and in local time, foreign MessagePack; builders: 7 comparisons over 2 fields and a malformed one, 3 calls, 3000 foreign payloads; reads: 1 reader, 2 keys, 5 contents, 3 files | 704 thousand | comparison, codec, builders, reads |

Two runs are sums. `MCDataPath` extends four modules that share no variable; `part`
says which one moves, so its states are those of the four added and each property
is checked on all behaviours of its part. `MCInspector` runs either one call with
any command line on any box, or a crowd of equal calls on a plain box: the first
has the cases of a call, the second those of the race for names.

Why these bounds. A conflict over a record, a lock or an index needs two actors
or two keys. Batches to 3 over 2 keys contain a key named twice around another
one; two indexes may lie over one field, and one be dropped while the other stays.
Three threads give a holder of the lock, a waiter, and a reader that has no
lock, or two openers racing with a compaction. `lifecycle` has one root, as locks,
compaction, writes and files are proved for any number of roots (section 5) and `lifecycle_roots`
has two. A third event lets a put be undone and redone. Two
migrations, two openers and two deaths let a second migration meet the remains
of a first, and an opener the remains of both. Two records show equal numbers in
different encodings, and 4 bits already have a signed and an unsigned boundary with
doubles on, between and beyond them. A list of two items spells a tagged pair, and
depth two nests one in another. Two processes with one pid compete for one name,
a third call does so beside a killed one. Readers are
independent of each other but for the file they keep in use, so one shows what
two would; five contents are enough to delete a box, make it again and fill it.

`MaxBatch`, `MaxHandles`, `MaxEvents`, `MaxRestarts`, `MaxCrashes`, `MaxCommits`,
`MaxFiles` and `MaxCalls` are bounds of the models; `MaxAttempts`, `DefaultLimit`
and `MaxKeyPageSize` are constants of the code, made small. Symmetry is used on
handles and calls and on inspector calls and processes, in safety runs only.

Deadlock is checked wherever an actor can always go on. It is not in `inspector`
and `data_path`: a call or a query is made once, commits, deaths and contents are
bounded, and a behaviour that has used them up has really come to its end.
`NeverStuck` takes the place of the check in `inspector`.

Fairness. `lifecycle` assumes that the scheduler runs every thread (`WF` of
its steps) and that a thread waiting for the per-box lock gets it if the lock is
released again and again (`SF` of `LockAcquire`): `core.rs` uses
`parking_lot::Mutex`, which documents eventual fairness. Clients are not
assumed to call. `hive_migration` assumes that the event loop resumes the
continuations of a migration (`WF`). Nothing is assumed of a process that dies:
`ReservationReleased` excuses a migration that a death interrupted. The other runs
check no liveness and assume no fairness.

Every property of a passing run has a mutant in `PROJECT.json`: a plausible
fault in the code under which TLC finds the property violated. The definitions
marked "Seeded fault" are these; no specification uses them.

## 4. What the checks show

**Storage.** `IndexConsistent`: no stale and no missing index entry in any
committed state. `StoredRecordsMaintainable`: no stored record can block its own
removal. `EncryptionUniform`, `EncryptionSticks`: encryption is all or nothing,
and no step takes it off again. `HandleMatchesFile`, `OpenKeepsRecords`: what open
registers is whole and nothing its build cannot maintain, what it removes is empty.
`BatchAllOrNothing`: a batch takes effect in order and entirely, or not at
all, and deleteAll reports exactly what it removed; `ImplementsLogicalBox` says the
same of all operations together, as a refinement.

**Registry.** `MutationExclusive`, `HandlesCounted`, `CompactionAlone`,
`WritesReachRegisteredBox`, `WritersFindOwnedBox`, `OpenBoxHasFile`, and with
fairness `MaintenanceEnds` and `EveryCallReturns`.

**Reads.** `AnswersOneCommit`: a read that visits key after key answers from one
content the box had between its call and its return, decoded with the mode it
copied, also when the box is deleted, created again or encrypted meanwhile.

**Query.** `AnswersSnapshot`: an answer is the page a scan of one committed
version would give. `FailsOnlyOnMixedTypes`: an error needs values without an
order.

**Numbers.** `SortFollowsReals`: numbers compare as reals whatever their
encodings. `LookupFindsAll`: an encrypted lookup of a number finds the equal ones
and no other.

**Codec.** `RoundTrip`: Dart reads back what it stored, at every depth, but for the
zone of its dates: a local date comes back as the same moment in UTC (`InUtc`), which
Dart's `==` does not hold equal to it. The inspector shows what was stored.
`QuerySeesFields`: queries and indexes see the same fields. `ReadersAgree`: on
foreign MessagePack a query and the inspector agree.

**Builders.** `QueryArrives`: the engine runs the query that was asked for.
`LeftAssociative`: a chain without groups associates to the left. `FrontendsAgree`:
Dart and Rust build the same query and report the same mistake.
`EngineGetsWellformed`: what the parser lets through, from any frontend, is a query
the engine has a meaning for. The builders differ by design where the model says
so: Dart refuses a `between` without an upper end, Rust takes it.

**Watch.** `EventsFollowCommits`: every watcher gets every later commit's events
once, in order. `SnapshotCatchesUp`: buffered and outstanding events bring the
snapshot to the box's keys. Both hold across a hot restart, where sinks of the dead
isolate fail in the middle of an emission. `SequentialCallsConverge`: as long as
no two calls are in flight and no two handles in use at once, the key list ends at
the keys of the box; `together` remembers whether that was ever so.

**Migration.** `ReservationExclusive`, `NoHalfMigratedBox`: with migrations and
opens racing and the process dying anywhere, the marker has one owner, and a
destination left half way is refused to ordinary opens until
somebody removes the marker. `ReservationReleased`: a reservation no death
interrupted is given back. `CleanDestination`, `NoEscape`: the destination stays the
migration's own, and no ordinary open gets it, as long as no `openNew` has failed
(`Undisturbed`). The condition is essential, a consequence of finding 3. The catch of
a failed `openNew` closes the native handle of an ordinary open that is still in
progress; that open later closes, or keeps, the handle of the next migration,
because the engine counts handles by name only.

**Inspector.** `AnswersOneContent`: output and exit code are those of one content
the box had during the call. `OwnCopy`: nobody reads another call's copy, and only a
killed call leaves one. `NeverStuck`: every call has a next step and its search for a
name is bounded, so it ends.

### Findings

1. `lifecycle_roots`: `init` decides under read locks that no box is open
   (`db.rs:328`) and assigns the path later (`db.rs:338`). An open that
   completes in between leaves a live box of the old root; so does a box that is
   being compacted, which is out of `DATABASES`.
   `docs/RUST_NATIVE_PROFILES_CONCURRENCY_08.md:62` says such a switch is
   rejected.
2. `query_plans`: whether a query with mixed types fails depends on the plan. A
   lookup compares every entry of an index (`index.rs:170`), also of records
   that an earlier filter or a full page would have spared; and it spares records
   on which a scan fails. `docs/QUERY_INDEX_03.md:293` asks for equivalence.
   When both answer, they agree (`AnswersSnapshot`).
3. `migration_rejected`: a migration that meets an existing destination after it
   has taken the reservation runs the catch of `openNew`
   (`dxtr_box.dart:270-290`), which closes and deletes by name a box it did not
   create. `docs/RELEASE_03_AUDIT.md:17` says it is rejected rather than
   overwritten. The paragraph on migration above says what it does to the next one.
4. `watch_concurrent`: the reply of a call updates the key list
   (`box.dart:98-104, 169-172, 195-196`) even when the event of a later commit
   has been applied, and nothing corrects it. `test/box_test.dart:26` says that
   the operations keep the metadata in sync.
5. `storage_misread`: `open` asks for the data table with
   `read.open_table(DATA).is_ok()` (`db.rs:378`) and takes every error for the
   answer no. It then initialises the file as a new one, and when that fails
   as well (the error persists, or the key is refused) it removes the file
   (`db.rs:399-405`), records and all.
   `docs/RELEASE_CANDIDATE_EVIDENCE_10.md:32` says that existing databases must
   remain readable after reopen.

A case related to the fourth, without a run of its own: with two handles and one
call at a time, a second handle may hydrate the shared list from a snapshot older
than events the first has applied, and be closed before its own copy of them arrives
(`box.dart:68-93`); the first handle's keys stay stale. `WatchConcurrent.cfg` with
two handles, one call and one key shows it.

Where the tags are ambiguous, as seen while modelling `WireFormat`: a query cannot
tell a date from the list `["@dxtr:datetime", 5]`, for both normalise to one pair
(`SpellsTag` excepts such records from `ReadersAgree`); the inspector's JSON
cannot tell bytes or a date from a user's map with the key `$dxtrType`, and shows NaN as
null; a map key that contains a dot is out of reach of every field path.

Where the wire form says less than Dart does: a local `DateTime` does not read back equal
(`codec.dart:36`, `codec.dart:74`), though a query finds it, for there both forms are
the same moment. The tests round-trip dates in UTC only (`codec_test.dart:19`, `codec_compatibility_corpus_test.dart:45`), though the
corpus compares `isUtc` (`:221-226`). No document promises the zone, so there is no run
that expects it; `RoundTrip` states what does hold.

## 5. What is proved

TLAPS checks 39 theorems, for every value of the constants. Their only
assumptions are the named `ASSUME`s of the modules, which TLC evaluates in the
runs: sentinels are none of the values they stand beside, bounds are natural
numbers, the sets that a program has finitely many of (`Keys`, `Threads`,
`Roots`) are finite, a filter is a finite tree, and what Dart stores is a Dart value:
its leaves have no parts, its bytes are below 256, no map has a key twice. The builders
add that a client compares Dart values, that integers have distinct texts, and that the
trees are as high as what `MaxCalls` calls can build: that bound, `Nesting` and
`MaxCalls` may be any numbers that fit together.
The theorems hold for any number of threads, handles, calls, readers, keys and records,
and for values and filters of any depth.

| Module | Theorems |
|---|---|
| `BoxStorageProofs` | `TypeCorrect`, `IndexesConsistent`, `EncryptionIsUniform`, `HandlesMatchFiles`, `StoredRecordsAreMaintainable`; of steps: `EncryptionAlwaysSticks`, `OpenAlwaysKeepsRecords`, `BatchesAreAtomic`; refinement: `StorageImplementsMap` |
| `BoxLifecycleProofs` | `MutationsExclude`, `CompactsAlone`, `WritesLand`, `OpenBoxKeepsFile`, `HandlesAlwaysCounted`, `WritersServed` |
| `BoxQueryProofs` | `QueryAnswersSnapshot`, `QueryFailsOnMixedTypes` |
| `BoxWatchProofs` | `EventsAlwaysFollowCommits`, `SnapshotAlwaysCatchesUp`, `SequentialCallsAlwaysConverge` |
| `HiveMigrationProofs` | `ReservationIsExclusive`, `HalfMigratedBoxStaysShut`, `DestinationStaysClean`, `NobodyEscapes` |
| `InspectorProofs` | `CopiesOwned`, `AnswersRight` |
| `DataPathProofs` | numbers: `CompareIsExact`, `TokensDecideEquality`, `IndexAlwaysInStep`, `SortAlwaysFollowsReals`, `LookupAlwaysFindsAll`; codec: `CodecRoundTrip`, `CodecReadersAgree`, `CodecQuerySeesFields`; reads: `ReadsAnswerOneCommit`; builders: `BuildersQueryArrives`, `BuildersLeftAssociative`, `BuildersFrontendsAgree`, `BuildersEngineGetsWellformed` |

**Storage.** None of the properties is inductive alone. A commit keeps the indexes
exact only if the working copy was exact and under the handle's key, and removing the
entries of an overwritten value works only if they were written with that key.
`IndInv` therefore adds: `WriteInv`, the working copy of a mutation has the
tables, metadata and definitions of the file and is itself consistent, indexable
and uniform; `OpenInv`, what `open` has established before each of its steps;
`EncryptInv`, a migration runs in the full build on a plain box without indexes
and has rewritten some of the records under one new key; `HandleInv`, a
registered handle excludes open and encrypt steps. There is a lemma for each operator
on contents (`WrittenConsistent`, `RemovedConsistent`, `BackfilledConsistent`,
`DroppedConsistent`, `EmptiedConsistent`), one for each group of actions
(`ProcessPreserves`, `OpenPreserves`, `WritePreserves`, `IndexPreserves`,
`EncryptPreserves`) and `Invariance`, which combines them.
The key of `WrittenConsistent` is that entries name their record, so replacing
record `k` disturbs the entries of `k` only, and that the old entries are
derived with the key they were stored under because the box is uniform.
`BatchesAreAtomic` needs `BatchInv` as well: the working copy is the file with the
entries handled so far applied, each by the last entry that names its key, and the
reply counts what was removed.

**Refinement.** `StorageImplementsMap` maps the committed file to the map of
`LogicalBox`, every operation in progress to its request, and every step of the storage
to one step of the map or a stutter: the single entries of a batch, the commits of an
encryption and the stages of an open are invisible; a commit is `TakeEffect`; an
error, a crash and a refusal change nothing. What `BatchInv` leaves open is the list
`deleteAll` returns, on which its caller's metadata depends. `OrderInv` says that
the keys removed so far are in the order in which the batch first names them
(`FirstEntry`), which at the commit is the list the map reports.

**Registry.** `LockInv` says which lock a thread between two steps holds: two threads
that race through `mutation_lock` end with the same lock, and only its holder is in a
section. `BoxInv` builds on it: an entry that a compaction took out is with exactly
one thread, a database that a locked call holds is the registered one, and every
registered database has its file. `CountInv` adds the numbers. `Out(n)` is the
number of handles clients hold of a box, over all roots, plus the closes in
progress; a compaction starts only when it is one and needs the lock (`CompactedForOne`),
so no second handle can be opened, or the last one closed, while the entry is
out of the registry. Hence the count in the entry is `Out(n)`, and a writer that
finds no entry works for nobody. The sums over clients are folds of the
community modules; how one changes when a client opens or closes is
`FoldTheorems` about finite sets.

**Reads.** `ReadsInv`: the file that has the name holds the last content, every record
of it in the one mode the registry hands out (`NamedFileInv`); and a reader that has
found the box, or has its snapshot, has a content of the time since its call, in
the mode it copied (`Since`). Between `FindBox` and `Begin` this is what could
break, and it holds because whoever could change the mode or drop the name finds
the file in use, or leaves it to the reader. `Visited` counts the visits: the answer is
the hits among the keys visited, each once, in the order of the request.

**Query.** Both theorems are about `QueryInv`: before a key is visited the candidates still
ahead are ascending, those behind raised no error, and the rows accepted are
the hits among those behind, the first `offset` of them dropped when there is no sort. Around it
stand facts about operators. A lookup loses no hit: every record that satisfies the filter
has an entry that satisfies each comparison `index_candidates` collects, for those come
from AND groups only (`FilterInduction`). An AND or an OR evaluated up to the first verdict
that settles it agrees with the reference when no part fails. `SortsBefore` is a strict
total order on rows whose columns are comparable, so the sorted table is unique, and a page
that was full early is a prefix of it (`PrefixUnique`). A failure is shown to come from a
comparison or a column with two values that have no order.

**Codec.** `CodecInv`: the record is the wire form of the value, and what a reader got is
what that reader makes of the record. The rest is induction over trees. Each reader is
unfolded to its body once (`ToWireUnfolds` and the like), which needs that the parts of a
tree are lower than it; `ToWire` at most doubles the levels and adds one, `Normalize` does not
add any. Then one lemma for each type of node says what a reader makes of a node from what it makes
of its parts, and induction over the height gives the theorem. `CodecRoundTrip` compares
with `InUtc`, one more recursion over the same trees: the reader undoes the writer on
every node but a local date. `ReadersAgree` has to
except the records that spell a tag (`SpellsTag`), for there the readers differ.

**Builders.** `BuildersInv` has four parts. `Chain(calls, where)` ties the nested filter to
the calls: it is deeper by at most one level for every call, has been built of Dart
values, and says of a record what the calls say in turn. `PageBuilt` is about limit,
offset and sort, `Delivered` about the query sent. `InStep` is about the Rust builder
while it has had every call: no error and a list of filters whose conjunction is the
chain (`Flat`), or the error of the first call refused. `ChainGrows` and `FlatGrows` are the step of one more call;
both rest on `SaidOfMore` and `VerdictOfMore`, which say how one more filter changes the verdict of
a chain and of a group that stops at its first decisive part, errors included. That a
query arrives is `Travels(f, n)`: a filter of `n` levels has a wire form of at most
`3n` levels, a Dart value itself, that `ParseFilter` reads as `Carried(f)` after the
tags were put on and taken off. It is preserved by the two ways of building a filter
(`ComparisonTravels`, `GroupTravels`), and `QueryTravels` adds the page.
`EngineGetsWellformed` holds of any payload, by induction on its height:
`ParseFilter` makes a filter that can be run or none (`AllIsReadable`, `DecodedIsRunnable`).

**Watch.** `WatchInv` adds to `EventsFollowCommits` the types, that the lock is held
exactly while a call emits (`LockIsEmitting`), that a stream is empty before its
handle watches and a closing handle is no watcher (`StreamsStartEmpty`), and that
nobody has seen more than was committed. `CatchUpInv` is behind the snapshot. Before
`getAllKeys` answers, there are some keys of the past from which the buffered and
the outstanding events lead to the keys of now; applying the same events once more to
the keys they led to changes nothing (`Replay` of a sequence leaves a key as the last event
about it says), so a snapshot newer than its events is as good as one that is older.
`SequentialInv` is behind sequential callers: as long as nothing overlaps, the
outstanding events lead from the metadata to the box, and the reply of the
one call in flight would not change the keys of the box (`Replied(c, data) = data`),
so it commutes with them.

**Migration.** `ReservationInv` joins `MarkerOutlives`: after
a death in a migration the marker is there, nobody holds it, and nobody is past its check.
`DestinationStaysClean` and `NobodyEscapes` need the engine's count as well. `CalmInv`
says what is true until an `openNew` fails: the count is the number of actors between
their native open and their native close (`CountInv`, by adding and removing one element
of a finite set at a time), so no close takes away the handle of another; and from the
check under the reservation on no ordinary open is past its second look (`PrivateInv`),
for one that were would have kept the file in the directory. `FailureInv` makes the
condition stable: the catch leaves its mark before it removes anything.

**Inspector.** `CopyInv`: a call at work owns one file, the one at its path, because
`create_new` gives a path only to one creator. `HistoryInv`: what a call copies from
are contents it lived through. `AdmissionInv`: a call that takes a snapshot has passed
the command line, the profile, the secret and the look for the box. `ImageInv`: the
copy is one of those contents, or torn between two of them. With these every reply is
`Expected` of one content, or an error that a change or a failure explains (`ReplyInv`).

**Numbers.** `CompareIsExact` and `TokensDecideEquality` are about the
operators, for any width and any fraction, the other three about the index. `Scaling` and
`FiniteOrder` turn the order of the reals into the lexicographic order of integral
part and fraction; one lemma per pair of types compares the branches of the code with
it. `IndexInStep`, every entry is that of a stored number, is the invariant with
which the two facts about operators make a lookup find what a scan finds.

**Induction.** The library's induction theorems take the property as an operator, which
the installed provers cannot instantiate. `FoldTheorems` states induction over the
numbers and over the subsets of a finite set with the property as a *set*, derived
from a smallest element (`WFMin`, `NatLessThanWellFounded`), and from it that the
choice in the definition of a fold over a set is a function. Folds over sets and
sequences in `BoxLifecycle` and `BoxWatch` are reasoned about with these. Trees are
handled the same way: `TreeInduction` goes from the parts to the whole, and
`DepthRecursion` shows that a function defined from its values at smaller depth exists,
so that the CHOOSE in `f[x \in S] == ...` has something to choose. `AscendingExists` and
`ListUnique` do for orders what these do for trees.

Model-checked only, because the prover can do neither fairness nor ENABLED: the liveness
properties `MaintenanceEnds`, `EveryCallReturns`, `ReservationReleased`, and `NeverStuck`.
Every other property of a passing run is stated by a theorem. The prover does not read
RECURSIVE operators either: the code's recursions are functions on trees, and the
two RECURSIVE operators of the project enumerate inputs, in `MCBoxQuery`.

## 6. Assumptions and what is not modelled

Assumed:

- redb commits atomically and durably, and refuses a second `Database` of a file that is
  open in the process. A copy of a file in change opens as one of the contents
  committed during the copy, or is refused.
- Ciphers and key derivation are ideal: a record opens only under its own key,
  tokens collide only for equal canonical scalars.
- Three builds, minimal, encryption and full; the combination of indexes
  without encryption is not shipped.
- `msgpack_dart` reads back every number and every string as it was written; a string is
  well-formed Unicode. A list is its items and bytes are their numbers: that a typed or growable list
  comes back as a plain one of fixed length is not told apart.
- `releaseReservation` ignores an I/O error of the deletion; the model's deletion
  succeeds. Removing the marker of a dead migration is left to the user by the
  documentation, and is not an action.

Not modelled:

- The conversion of Hive keys and values (`hive_ce_migration.dart`), a pure function
  whose errors are the failure of the migration's batch.
- The key filter of `watch`, which drops events from a stream by their key.
- The window between the native deletion and the removal of the metadata in Dart's
  `deleteBox`: the two are one step of `BoxWatch`.
- MessagePack's bytes, redb's pages, ciphertexts, the text the inspector prints.
- Generated bindings (`frb_generated.rs`) and the adapter over them
  (`native_api.dart`): their asynchrony is in `BoxWatch` and `HiveMigration`.
- Benchmarks, tools, examples, platform projects: no part of the engine.

## 7. Plan

Done: storage with read faults, its refinement and proofs of both; registry with
liveness and proofs; reads with proofs; query with proofs; numbers with proofs; codec with
proofs; builders with proofs; watch with restarts and proofs; migration with deaths and proofs;
inspector with proofs.

Next: the conversion of Hive values as a module beside `WireFormat`.
