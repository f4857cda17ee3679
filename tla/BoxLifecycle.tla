---------------------------- MODULE BoxLifecycle ----------------------------
(***************************************************************************)
(* The process-wide registry of open boxes under concurrent callers:       *)
(* db.rs (BASE_PATH, DATABASES, COMPACTING, MIGRATING), the per-box        *)
(* mutation lock of core.rs and the native handles of native.rs.           *)
(*                                                                         *)
(* A thread runs one call at a time; pc says at which point between two    *)
(* critical sections it is.  One section of DATABASES, with the sets of    *)
(* busy boxes that are locked inside it, is one step: every function takes *)
(* them in the order DATABASES, COMPACTING, MIGRATING and holds them until *)
(* it returns.  What a call does to the records is BoxStorage's subject;   *)
(* here a call only holds the database while it runs.                      *)
(***************************************************************************)
EXTENDS Naturals, FiniteSets, FiniteSetsExt

CONSTANTS
  Threads,
  Names,       \* box names
  Roots,       \* base paths
  MaxHandles,  \* bound: handles of one box, those being opened or closed included
  None

ASSUME LifecycleAssumption ==
  /\ None \notin Threads \cup Roots
  /\ MaxHandles \in Nat \ {0}
  /\ IsFiniteSet(Threads) /\ IsFiniteSet(Roots)

VARIABLES
  basePath,       \* BASE_PATH
  databases,      \* DATABASES: [open, handles, root] of every name
  compacting,     \* COMPACTING
  migrating,      \* MIGRATING
  files,          \* <<root, name>> of the box files that exist
  mutationLocks,  \* MUTATION_LOCKS: a lock is named by the thread that made it
  owner,          \* owner[<<n, l>>]: the thread that holds lock l of box n
  owned,          \* owned[<<r, n>>]: handles on n that clients opened in root r
  pc, task,       \* where a thread is, and the call it runs
  lock,           \* the mutation lock it has fetched
  path,           \* the base path it has read
  arc             \* the database it holds: [root, linked]

registryVars == <<basePath, databases, compacting, migrating, files>>
lockVars     == <<mutationLocks, owner, lock>>
threadVars   == <<pc, task, path, arc>>
vars == <<registryVars, lockVars, owned, threadVars>>

Ops    == {"init", "open", "close", "delete", "encrypt", "compact", "read", "write"}
Locked == Ops \ {"init", "read"}
Steps  == {"idle", "initCheck", "initWrite", "lockRead", "lockCreate", "lockAcquire",
           "enter", "encMark", "encOpen", "encUnmark", "compUnwrap", "compReinsert",
           "find", "findCompacting", "findMigrating", "use"}

Unregistered == [open |-> FALSE, handles |-> 0, root |-> None]
NoTask       == [op |-> "none", root |-> None, name |-> None]
NoDb         == [root |-> None, linked |-> FALSE]
Linked(r)    == [root |-> r, linked |-> TRUE]

SumOver(ledger, n) == MapThenSumSet(LAMBDA r : ledger[<<r, n>>], Roots)
Owned(n) == SumOver(owned, n)

NameOf(t) == task[t].name
Calling(t, op) == task[t].op = op
Holds(t) == lock[t] # None /\ owner[<<NameOf(t), lock[t]>>] = t

\* Threads that hold an Arc of the database that is registered for n.
Sharers(n) ==
  {t \in Threads : NameOf(t) = n /\ arc[t] = Linked(databases[n].root)}

\* redb locks the file of a live Database: some thread still has one there.
FileLocked(r, n) == \E t \in Threads : NameOf(t) = n /\ arc[t] = Linked(r)

Init ==
  /\ basePath = None
  /\ databases = [n \in Names |-> Unregistered]
  /\ compacting = {} /\ migrating = {}
  /\ files \in SUBSET (Roots \X Names)
  /\ mutationLocks = [n \in Names |-> None]
  /\ owner = [x \in Names \X Threads |-> None]
  /\ owned = [x \in Roots \X Names |-> 0]
  /\ pc = [t \in Threads |-> "idle"]
  /\ task = [t \in Threads |-> NoTask]
  /\ lock = [t \in Threads |-> None]
  /\ path = [t \in Threads |-> None]
  /\ arc = [t \in Threads |-> NoDb]

Goto(t, step) == pc' = [pc EXCEPT ![t] = step]

\* Seeded fault: the guard is not dropped.
LeaveLocked(t) ==
  /\ Goto(t, "idle")
  /\ lock' = [lock EXCEPT ![t] = None]
  /\ task' = [task EXCEPT ![t] = NoTask]
  /\ path' = [path EXCEPT ![t] = None]
  /\ UNCHANGED <<mutationLocks, owner>>

\* The call returns: its guard and its Arc are dropped.
Leave(t) ==
  /\ Goto(t, "idle")
  /\ owner' = IF Holds(t) THEN [owner EXCEPT ![<<NameOf(t), lock[t]>>] = None] ELSE owner
  /\ lock' = [lock EXCEPT ![t] = None]
  /\ task' = [task EXCEPT ![t] = NoTask]
  /\ path' = [path EXCEPT ![t] = None]
  /\ UNCHANGED mutationLocks

Return(t) == Leave(t) /\ arc' = [arc EXCEPT ![t] = NoDb]

-----------------------------------------------------------------------------
(* Calls.                                                                  *)

\* Seeded faults: a call that skips the mutation lock.
FirstStepUnlockedClose(op) ==
  CASE op \in {"init", "open"} -> "initCheck"
    [] op = "read"             -> "find"
    [] op = "close"            -> "enter"
    [] OTHER                   -> "lockRead"
FirstStepUnlockedCompact(op) ==
  CASE op \in {"init", "open"} -> "initCheck"
    [] op = "read"             -> "find"
    [] op = "compact"          -> "enter"
    [] OTHER                   -> "lockRead"

FirstStep(op) == CASE op \in {"init", "open"} -> "initCheck"
                   [] op = "read"             -> "find"
                   [] OTHER                   -> "lockRead"

\* A client needs a handle to close, read, write or compact; close consumes it.
Call(t, op, r, n) ==
  /\ pc[t] = "idle"
  /\ op = "open" =>
       Owned(n) + Cardinality({u \in Threads : task[u].op \in {"open", "close"}
                                             /\ NameOf(u) = n}) < MaxHandles
  /\ op \in {"close", "read", "write", "compact"} => owned[<<r, n>>] > 0
  /\ owned' = IF op = "close" THEN [owned EXCEPT ![<<r, n>>] = @ - 1] ELSE owned
  /\ task' = [task EXCEPT ![t] = [op |-> op, root |-> r, name |-> n]]
  /\ Goto(t, FirstStep(op))
  /\ UNCHANGED <<registryVars, lockVars, path, arc>>

-----------------------------------------------------------------------------
(* init: the check is made under the read locks of BASE_PATH and DATABASES, *)
(* the assignment under a later write lock.                                *)

AfterInit(t) ==
  IF Calling(t, "open")
  THEN Goto(t, "lockRead") /\ UNCHANGED <<lockVars, task, path, arc>>
  ELSE Return(t)

AnyOpen == \E n \in Names : databases[n].open

InitCheck(t) ==
  /\ pc[t] = "initCheck"
  /\ LET r == task[t].root
     IN  CASE basePath = r                 -> AfterInit(t)
           [] basePath \notin {r, None} /\ AnyOpen -> Return(t)
           [] OTHER -> /\ Goto(t, "initWrite")
                       /\ UNCHANGED <<lockVars, task, path, arc>>
  /\ UNCHANGED <<registryVars, owned>>

InitWrite(t) ==
  /\ pc[t] = "initWrite"
  /\ basePath' = task[t].root
  /\ AfterInit(t)
  /\ UNCHANGED <<databases, compacting, migrating, files, owned>>

-----------------------------------------------------------------------------
(* The per-box mutation lock: looked up, created if absent, then acquired. *)

LockRead(t) ==
  /\ pc[t] = "lockRead"
  /\ lock' = [lock EXCEPT ![t] = mutationLocks[NameOf(t)]]
  /\ Goto(t, IF mutationLocks[NameOf(t)] = None THEN "lockCreate" ELSE "lockAcquire")
  /\ UNCHANGED <<registryVars, mutationLocks, owner, owned, task, path, arc>>

\* Seeded fault: the second of two racing threads replaces the lock.
LockCreateReplaces(t) ==
  /\ pc[t] = "lockCreate"
  /\ mutationLocks' = [mutationLocks EXCEPT ![NameOf(t)] = t]
  /\ lock' = [lock EXCEPT ![t] = t]
  /\ Goto(t, "lockAcquire")
  /\ UNCHANGED <<registryVars, owner, owned, task, path, arc>>

\* entry(name).or_insert_with: another thread may have created it meanwhile.
LockCreate(t) ==
  /\ pc[t] = "lockCreate"
  /\ mutationLocks' = [mutationLocks EXCEPT ![NameOf(t)] = IF @ = None THEN t ELSE @]
  /\ lock' = [lock EXCEPT ![t] = mutationLocks'[NameOf(t)]]
  /\ Goto(t, "lockAcquire")
  /\ UNCHANGED <<registryVars, owner, owned, task, path, arc>>

\* Under the lock, open, delete and encrypt first read the base path; nobody
\* else can tell whether that happens with the acquisition or after it.
LockAcquire(t) ==
  /\ pc[t] = "lockAcquire"
  /\ owner[<<NameOf(t), lock[t]>>] = None
  /\ owner' = [owner EXCEPT ![<<NameOf(t), lock[t]>>] = t]
  /\ Goto(t, IF Calling(t, "write") THEN "find" ELSE "enter")
  /\ path' = [path EXCEPT ![t] =
       IF task[t].op \in {"open", "delete", "encrypt"} THEN basePath ELSE None]
  /\ UNCHANGED <<registryVars, mutationLocks, lock, owned, task, arc>>

-----------------------------------------------------------------------------
(* open, close and delete.                                                 *)

Busy(n) == n \in compacting \cup migrating

\* Seeded fault: a shared open is not counted.
OpenSharedUncounted(t) ==
  /\ pc[t] = "enter" /\ Calling(t, "open")
  /\ ~Busy(NameOf(t)) /\ databases[NameOf(t)].open
  /\ owned' = [owned EXCEPT ![<<task[t].root, NameOf(t)>>] = @ + 1]
  /\ Return(t)
  /\ UNCHANGED registryVars

\* The box is open already: one more handle, unless the key is refused.
OpenShared(t) ==
  /\ pc[t] = "enter" /\ Calling(t, "open")
  /\ ~Busy(NameOf(t)) /\ databases[NameOf(t)].open
  /\ databases' = [databases EXCEPT ![NameOf(t)].handles = @ + 1]
  /\ owned' = [owned EXCEPT ![<<task[t].root, NameOf(t)>>] = @ + 1]
  /\ Return(t)
  /\ UNCHANGED <<basePath, compacting, migrating, files>>

\* Database::create would get the file.
CanCreate(t) ==
  /\ path[t] # None
  /\ ~Busy(NameOf(t)) /\ ~databases[NameOf(t)].open
  /\ ~FileLocked(path[t], NameOf(t))

OpenFile(t) ==
  /\ pc[t] = "enter" /\ Calling(t, "open")
  /\ CanCreate(t)
  /\ databases' = [databases EXCEPT ![NameOf(t)] =
                     [open |-> TRUE, handles |-> 1, root |-> path[t]]]
  /\ files' = files \cup {<<path[t], NameOf(t)>>}
  /\ owned' = [owned EXCEPT ![<<task[t].root, NameOf(t)>>] = @ + 1]
  /\ Return(t)
  /\ UNCHANGED <<basePath, compacting, migrating>>

\* No base path, a busy box, a locked file, a refused key, damaged metadata,
\* an I/O error: an error at any point.  A file the call created may be left
\* behind or removed.
OpenFails(t) ==
  /\ pc[t] = "enter" /\ Calling(t, "open")
  /\ \/ UNCHANGED files
     \/ CanCreate(t) /\ files' = files \cup {<<path[t], NameOf(t)>>}
  /\ Return(t)
  /\ UNCHANGED <<basePath, databases, compacting, migrating, owned>>

\* One handle fewer; the last one takes the entry out of the registry.
Released(entry) ==
  IF entry.handles > 1 THEN [entry EXCEPT !.handles = @ - 1] ELSE Unregistered

Close(t) ==
  /\ pc[t] = "enter" /\ Calling(t, "close")
  /\ databases' = [databases EXCEPT ![NameOf(t)] = Released(@)]
  /\ Return(t)
  /\ UNCHANGED <<basePath, compacting, migrating, files, owned>>

\* Seeded fault: an open box is deleted.
CanDeleteOpen(n) == ~Busy(n)

CanDelete(n) == ~databases[n].open /\ ~Busy(n)

\* The file goes; a reader that still holds its database keeps an unlinked one.
Unlinked(r, n) ==
  [u \in Threads |-> IF NameOf(u) = n /\ arc[u] = Linked(r)
                     THEN [root |-> r, linked |-> FALSE] ELSE arc[u]]

Delete(t) ==
  /\ pc[t] = "enter" /\ Calling(t, "delete")
  /\ IF CanDelete(NameOf(t))
     THEN /\ files' = files \ {<<path[t], NameOf(t)>>}
          /\ arc' = Unlinked(path[t], NameOf(t))
     ELSE UNCHANGED <<files, arc>>
  /\ Leave(t)
  /\ UNCHANGED <<basePath, databases, compacting, migrating, owned>>

-----------------------------------------------------------------------------
(* encrypt_box: marked in MIGRATING while it owns the database.            *)

EncryptEnter(t) ==
  /\ pc[t] = "enter" /\ Calling(t, "encrypt")
  /\ IF <<path[t], NameOf(t)>> \in files
     THEN Goto(t, "encMark") /\ UNCHANGED <<lockVars, task, path, arc>>
     ELSE Return(t)
  /\ UNCHANGED <<registryVars, owned>>

EncryptMark(t) ==
  /\ pc[t] = "encMark"
  /\ IF databases[NameOf(t)].open \/ Busy(NameOf(t))
     THEN Return(t) /\ UNCHANGED migrating
     ELSE /\ migrating' = migrating \cup {NameOf(t)}
          /\ Goto(t, "encOpen")
          /\ UNCHANGED <<lockVars, task, path, arc>>
  /\ UNCHANGED <<basePath, databases, compacting, files, owned>>

\* Seeded fault: the early return of a failed open leaves the mark.
EncryptOpenEarlyReturn(t) ==
  /\ pc[t] = "encOpen"
  /\ \/ /\ ~FileLocked(path[t], NameOf(t))
        /\ arc' = [arc EXCEPT ![t] = Linked(path[t])]
        /\ Goto(t, "encUnmark")
        /\ UNCHANGED <<lockVars, task, path>>
     \/ Return(t)
  /\ UNCHANGED <<registryVars, owned>>

\* Database::create fails on a file a reader still has locked, or for I/O.
EncryptOpen(t) ==
  /\ pc[t] = "encOpen"
  /\ \/ /\ ~FileLocked(path[t], NameOf(t))
        /\ arc' = [arc EXCEPT ![t] = Linked(path[t])]
     \/ UNCHANGED arc
  /\ Goto(t, "encUnmark")
  /\ UNCHANGED <<registryVars, lockVars, owned, task, path>>

EncryptUnmark(t) ==
  /\ pc[t] = "encUnmark"
  /\ migrating' = migrating \ {NameOf(t)}
  /\ Return(t)
  /\ UNCHANGED <<basePath, databases, compacting, files, owned>>

-----------------------------------------------------------------------------
(* compact: the entry is taken out of the registry while it runs.          *)

\* Seeded fault: a reader in flight is not noticed.
CanCompactShared(n) ==
  /\ databases[n].open /\ databases[n].handles = 1
  /\ n \notin migrating

CanCompact(n) ==
  /\ databases[n].open /\ databases[n].handles = 1
  /\ Sharers(n) = {}
  /\ n \notin migrating

\* The entry's Arc moves from the registry to the thread; path keeps its root.
CompactEnter(t) ==
  /\ pc[t] = "enter" /\ Calling(t, "compact")
  /\ LET n == NameOf(t)
     IN  IF CanCompact(n)
         THEN /\ compacting' = compacting \cup {n}
              /\ databases' = [databases EXCEPT ![n] = Unregistered]
              /\ arc' = [arc EXCEPT ![t] = Linked(databases[n].root)]
              /\ Goto(t, "compUnwrap")
              /\ UNCHANGED <<lockVars, task, path>>
         ELSE Return(t) /\ UNCHANGED <<compacting, databases>>
  /\ UNCHANGED <<basePath, migrating, files, owned>>

\* try_unwrap, then the compaction itself; when the Arc is shared, or redb
\* fails, the entry goes back as well.
CompactUnwrap(t) ==
  /\ pc[t] = "compUnwrap"
  /\ Goto(t, "compReinsert")
  /\ UNCHANGED <<registryVars, lockVars, owned, task, path, arc>>

CompactReinsert(t) ==
  /\ pc[t] = "compReinsert"
  /\ databases' = [databases EXCEPT ![NameOf(t)] =
                     [open |-> TRUE, handles |-> 1, root |-> arc[t].root]]
  /\ compacting' = compacting \ {NameOf(t)}
  /\ Return(t)
  /\ UNCHANGED <<basePath, migrating, files, owned>>

-----------------------------------------------------------------------------
(* database(): a read without the mutation lock, a write under it.  The    *)
(* registry and the two sets are read one after the other.                 *)

Find(t) ==
  /\ pc[t] = "find"
  /\ LET entry == databases[NameOf(t)]
     IN  IF entry.open
         THEN arc' = [arc EXCEPT ![t] = Linked(entry.root)] /\ Goto(t, "use")
         ELSE UNCHANGED arc /\ Goto(t, "findCompacting")
  /\ UNCHANGED <<registryVars, lockVars, owned, task, path>>

FindCompacting(t) ==
  /\ pc[t] = "findCompacting"
  /\ IF NameOf(t) \in compacting
     THEN Return(t)
     ELSE Goto(t, "findMigrating") /\ UNCHANGED <<lockVars, task, path, arc>>
  /\ UNCHANGED <<registryVars, owned>>

\* "is migrating" or "is not open": an error either way.
FindMigrating(t) ==
  /\ pc[t] = "findMigrating"
  /\ Return(t)
  /\ UNCHANGED <<registryVars, owned>>

\* The transaction of the call ends.
Use(t) ==
  /\ pc[t] = "use"
  /\ Return(t)
  /\ UNCHANGED <<registryVars, owned>>

-----------------------------------------------------------------------------
OpenStep(t)    == OpenShared(t) \/ OpenFile(t) \/ OpenFails(t) \/ Close(t) \/ Delete(t)
EncryptStep(t) == EncryptEnter(t) \/ EncryptMark(t) \/ EncryptOpen(t) \/ EncryptUnmark(t)
CompactStep(t) == CompactEnter(t) \/ CompactUnwrap(t) \/ CompactReinsert(t)
UseStep(t)     == Find(t) \/ FindCompacting(t) \/ FindMigrating(t) \/ Use(t)

\* Every step of a call but the one that may have to wait for a lock.
Run(t) ==
  \/ InitCheck(t) \/ InitWrite(t)
  \/ LockRead(t) \/ LockCreate(t)
  \/ OpenStep(t) \/ EncryptStep(t) \/ CompactStep(t) \/ UseStep(t)

Next ==
  \E t \in Threads :
    \/ \E op \in Ops, r \in Roots, n \in Names : Call(t, op, r, n)
    \/ LockAcquire(t)
    \/ Run(t)

Spec == Init /\ [][Next]_vars

\* The scheduler runs every thread, and a parking_lot mutex is eventually fair:
\* a thread that waits for it while it is released again and again gets it.
Fairness == \A t \in Threads : WF_vars(Run(t)) /\ SF_vars(LockAcquire(t))

FairSpec == Spec /\ Fairness

-----------------------------------------------------------------------------
(* Properties.                                                             *)

InSection(t) == Holds(t) /\ pc[t] # "lockAcquire"

\* At most one locked call runs on a box, although two threads may race to
\* create its lock: both end up with the same one (core.rs:43-66).
MutationExclusive ==
  \A t, u \in Threads :
    InSection(t) /\ InSection(u) /\ NameOf(t) = NameOf(u) => t = u

Closing(n) == {t \in Threads : Calling(t, "close") /\ NameOf(t) = n}

\* The registry counts exactly the handles that are out, the ones whose close
\* has not got its turn included, and has an entry as long as there is one: no
\* close, failed open, delete, migration or second client takes a box away from
\* a client that holds a handle (db.rs:372-376, 425-438; docs
\* RUST_NATIVE_PROFILES_CONCURRENCY_08.md, Handle ownership).
HandlesCounted ==
  \A n \in Names :
    n \notin compacting =>
      /\ databases[n].handles = Owned(n) + Cardinality(Closing(n))
      /\ databases[n].open <=> databases[n].handles > 0

\* While a box is compacted nobody else holds its database, so try_unwrap
\* succeeds: no reader got in between the check and the removal
\* (db.rs:787-830).
CompactionAlone ==
  \A t \in Threads :
    pc[t] \in {"compUnwrap", "compReinsert"} =>
      \A u \in Threads \ {t} : NameOf(u) = NameOf(t) => arc[u] # arc[t]

\* A mutation never loses its box on the way: the database it writes to is
\* still the registered one when it commits, whatever the readers, openers and
\* closers of the box do (core.rs:59-66, db.rs:582-785).
WritesReachRegisteredBox ==
  \A t \in Threads :
    pc[t] = "use" /\ Calling(t, "write") =>
      databases[NameOf(t)].open /\ arc[t] = Linked(databases[NameOf(t)].root)

\* A mutation is told "compacting", "migrating" or "not open" only when no
\* client has a handle on the box any more (db.rs:172-183 under core.rs:59-66);
\* a read, which takes no lock, has no such promise.
WritersFindOwnedBox ==
  \A t \in Threads :
    pc[t] \in {"findCompacting", "findMigrating"} /\ Calling(t, "write") =>
      Owned(NameOf(t)) = 0

\* The file of an open box exists: delete_box never removes it
\* (db.rs:440-458).
OpenBoxHasFile ==
  \A n \in Names : databases[n].open => <<databases[n].root, n>> \in files

\* A box marked compacting or migrating is released again, whatever fails in
\* between (db.rs:499-578, 808-849).
MaintenanceEnds ==
  \A n \in Names : Busy(n) ~> ~Busy(n)

\* Every call returns: no lost unlock, and no caller waits forever for the
\* mutation lock (core.rs:59-66).
EveryCallReturns ==
  \A t \in Threads : pc[t] # "idle" ~> pc[t] = "idle"

\* The base path never changes while a client holds a handle:
\* docs/RUST_NATIVE_PROFILES_CONCURRENCY_08.md:62, "switching roots while
\* another root still has live boxes is rejected by the shared engine rather
\* than producing cross-root access".  The code checks at db.rs:328-336 and
\* assigns at 338 without holding a lock in between, and a box that is being
\* compacted is not in the registry it checks.
RootSwitchRejected ==
  [][basePath # None /\ basePath' # basePath
       => \A n \in Names : Owned(n) = 0]_vars

-----------------------------------------------------------------------------
(* The inductive invariant behind MutationExclusive, CompactionAlone,      *)
(* WritesReachRegisteredBox and OpenBoxHasFile.                            *)

CompactSteps == {"compUnwrap", "compReinsert"}
EncryptSteps == {"encMark", "encOpen", "encUnmark"}
UseSteps     == {"find", "findCompacting", "findMigrating", "use"}

Entries == [open : BOOLEAN, handles : Nat, root : Roots \cup {None}]
Arcs    == [root : Roots \cup {None}, linked : BOOLEAN]

StateTyped ==
  /\ basePath \in Roots \cup {None}
  /\ databases \in [Names -> Entries]
  /\ mutationLocks \in [Names -> Threads \cup {None}]
  /\ owner \in [Names \X Threads -> Threads \cup {None}]
  /\ pc \in [Threads -> Steps]
  /\ task \in [Threads -> [op : Ops, root : Roots, name : Names] \cup {NoTask}]
  /\ lock \in [Threads -> Threads \cup {None}]
  /\ path \in [Threads -> Roots \cup {None}]
  /\ arc \in [Threads -> Arcs]

\* The call a thread may be running at each of its steps.
StepMatchesCall ==
  \A t \in Threads :
    /\ pc[t] = "idle" => task[t] = NoTask
    /\ pc[t] # "idle" => task[t] # NoTask
    /\ pc[t] \in {"initCheck", "initWrite"} => task[t].op \in {"init", "open"}
    /\ pc[t] \in {"lockRead", "lockCreate", "lockAcquire"} => task[t].op \in Locked
    /\ pc[t] = "enter" => task[t].op \in Locked \ {"write"}
    /\ pc[t] \in EncryptSteps => task[t].op = "encrypt"
    /\ pc[t] \in CompactSteps => task[t].op = "compact"
    /\ pc[t] \in UseSteps => task[t].op \in {"read", "write"}

\* Steps a call that takes the mutation lock makes under it.
Critical(t) ==
  /\ task[t].op \in Locked
  /\ pc[t] \in {"enter"} \cup EncryptSteps \cup CompactSteps \cup UseSteps

\* A thread never waits for, or holds, another lock than the one in the table.
LocksAgree ==
  \A t \in Threads :
    /\ lock[t] # None => lock[t] = mutationLocks[NameOf(t)]
    /\ pc[t] = "lockAcquire" => lock[t] # None
    /\ pc[t] \in {"idle", "initCheck", "initWrite"} => lock[t] = None

LockedCallsHold == \A t \in Threads : Critical(t) => Holds(t)

LockInv == StateTyped /\ StepMatchesCall /\ LocksAgree /\ LockedCallsHold

\* The box a thread compacts is out of the registry, marked, and on disk.
CompactedAside ==
  /\ \A n \in compacting : n \in Names /\ ~databases[n].open
  /\ \A t \in Threads : pc[t] \in CompactSteps =>
       /\ NameOf(t) \in compacting
       /\ arc[t].linked /\ <<arc[t].root, NameOf(t)>> \in files

\* A thread holds a database on disk only while it works on it.
HeldInUse ==
  \A t \in Threads : arc[t].linked => pc[t] \in {"encUnmark", "use"} \cup CompactSteps

BoxInv ==
  /\ CompactedAside /\ HeldInUse /\ CompactionAlone
  /\ WritesReachRegisteredBox /\ OpenBoxHasFile

LifecycleInv == LockInv /\ BoxInv

-----------------------------------------------------------------------------
(* The inductive invariant behind HandlesCounted and WritersFindOwnedBox.  *)

\* Handles that are out, those whose close has not got its turn included.
Out(n) == Owned(n) + Cardinality(Closing(n))

\* A box is marked compacting by a thread that works on it, for its one client.
CompactedForOne ==
  \A n \in compacting :
    /\ Out(n) = 1
    /\ \E t \in Threads : NameOf(t) = n /\ pc[t] \in CompactSteps

CountInv ==
  /\ owned \in [Roots \X Names -> Nat]
  /\ CompactedForOne /\ HandlesCounted /\ WritersFindOwnedBox
=============================================================================
