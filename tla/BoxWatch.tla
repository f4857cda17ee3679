------------------------------ MODULE BoxWatch ------------------------------
(***************************************************************************)
(* Watch events and the key metadata of a box: the watcher registry and    *)
(* emit_event of api.rs, the order of commit, events and reply in core.rs, *)
(* and the Dart Box handles of one isolate (box.dart, _open in             *)
(* dxtr_box.dart), which share one BoxMetadata.                            *)
(*                                                                         *)
(* Mutations run on the bridge's worker threads.  Each handle gets the     *)
(* events of its own stream in order; a reply travels apart from them and  *)
(* may reach Dart before or after any of them.  The metadata is modelled   *)
(* as a set of keys.  The isolate may die, as in a hot restart: the native *)
(* library stays, with its calls, its open handles and its sinks.          *)
(***************************************************************************)
EXTENDS Naturals, Sequences, SequencesExt

CONSTANTS
  Handles,    \* Dart Box handles
  Calls,      \* calls that may be in flight at once
  Keys,
  MaxEvents,  \* bound: events committed in a behaviour
  MaxRestarts,\* bound: isolates that die in a behaviour
  None

ASSUME WatchAssumption ==
  /\ None \notin Calls \cup Handles \cup Keys
  /\ IsFiniteSet(Keys)
  /\ MaxEvents \in Nat /\ MaxRestarts \in Nat

VARIABLES
  data,      \* keys in the committed box
  metadata,  \* BoxMetadata.keys, shared by the handles
  watchers,  \* handles registered in WATCHERS
  lock,      \* the call that holds the box's mutation lock, or None
  call,      \* calls in flight: [pc, op, keys, deleted]
  stage,     \* how far a handle is between openBox and closeBox
  stream,    \* events sent to a handle and not yet delivered
  hydrated,  \* handles with _metadataHydrated
  pending,   \* _pendingWatchEvents
  snapshot,  \* the answer of getAllKeys under way to a handle
  log,       \* history: the events of every commit, in commit order
  seen,      \* history: how much of the log a watcher has been handed
  dead,      \* sinks in WATCHERS whose isolate has died
  leaked,    \* the native box has handles of an isolate that has died
  lost,      \* calls in flight whose answer nobody takes any more
  restarts

handleVars == <<watchers, stage, stream, hydrated, pending, snapshot, seen>>
restartVars == <<dead, leaked, lost, restarts>>
vars == <<data, metadata, lock, call, log, handleVars, restartVars>>

Event(type, k) == [type |-> type, key |-> k]
Events == [type : {"put", "delete"}, key : Keys] \cup {Event("clear", None)}
EventsOf(type, ks) == LET s == SetToSeq(ks) IN [n \in DOMAIN s |-> Event(type, s[n])]

Stages == {"closed", "opened", "watching", "reading", "open", "closing", "unwatched"}

Ops    == {"put", "delete", "deleteAll", "clear"}
NoCall == [pc |-> "idle", op |-> "put", keys |-> {}, deleted |-> {}]

\* The box is open natively while some handle is, or was when its isolate died.
NativeOpen == leaked \/ \E h \in Handles : stage[h] # "closed"

Init ==
  /\ data \in SUBSET Keys
  /\ metadata = {}
  /\ watchers = {}
  /\ lock = None
  /\ call = [c \in Calls |-> NoCall]
  /\ stage = [h \in Handles |-> "closed"]
  /\ stream = [h \in Handles |-> <<>>]
  /\ hydrated = {}
  /\ pending = [h \in Handles |-> <<>>]
  /\ snapshot = [h \in Handles |-> {}]
  /\ log = <<>>
  /\ seen = [h \in Handles |-> 0]
  /\ dead = {} /\ leaked = FALSE /\ lost = {} /\ restarts = 0

Reach(h, s) == stage' = [stage EXCEPT ![h] = s]

-----------------------------------------------------------------------------
(* Mutations: under the lock, the commit, then its events; then the reply. *)

Send(c, op, ks) ==
  /\ call[c].pc = "idle"
  /\ \E h \in Handles : stage[h] = "open"
  /\ op = "delete" => \E k \in Keys : ks = {k}
  /\ op = "clear" <=> ks = {}
  /\ call' = [call EXCEPT ![c] = [pc |-> "sent", op |-> op, keys |-> ks, deleted |-> {}]]
  /\ UNCHANGED <<data, metadata, lock, log, handleVars>>

\* What each mutation emits: deleteAll only the keys that were there, delete
\* its key in any case.
Emitted(op, ks) ==
  CASE op = "put"       -> EventsOf("put", ks)
    [] op = "delete"    -> EventsOf("delete", ks)
    [] op = "deleteAll" -> EventsOf("delete", ks \cap data)
    [] op = "clear"     -> <<Event("clear", None)>>

Stored(op, ks) ==
  CASE op = "put" -> data \cup ks
    [] op \in {"delete", "deleteAll"} -> data \ ks
    [] op = "clear" -> {}

Commit(c) ==
  /\ call[c].pc = "sent" /\ lock = None /\ NativeOpen
  /\ LET op == call[c].op
         ks == call[c].keys
     IN  /\ Len(log) + Len(Emitted(op, ks)) <= MaxEvents
         /\ data' = Stored(op, ks)
         /\ log' = log \o Emitted(op, ks)
         /\ call' = [call EXCEPT ![c].pc = "emit",
                                 ![c].deleted = IF op = "deleteAll" THEN ks \cap data ELSE ks]
  /\ lock' = c
  /\ UNCHANGED <<metadata, handleVars, restartVars>>

\* The events of the commit whose call holds the lock.
Uttered(c) ==
  CASE call[c].op = "clear" -> <<Event("clear", None)>>
    [] call[c].op = "put"   -> EventsOf("put", call[c].keys)
    [] OTHER                -> EventsOf("delete", call[c].deleted)

\* The call ends, or goes on to its reply when somebody is there to take it.
Answered(c) == [call EXCEPT ![c] = IF c \in lost THEN NoCall
                                               ELSE [call[c] EXCEPT !.pc = "reply"]]

EmitTo(c, sinks) ==
  /\ call[c].pc = "emit"
  /\ stream' = [h \in Handles |-> IF h \in sinks THEN stream[h] \o Uttered(c)
                                  ELSE stream[h]]
  /\ dead' = IF Uttered(c) = <<>> THEN dead ELSE {}
  /\ lock' = None
  /\ call' = Answered(c)
  /\ lost' = lost \ {c}
  /\ UNCHANGED <<data, metadata, log, watchers, stage, hydrated, pending, snapshot, seen,
                 leaked, restarts>>

\* Seeded fault: the first sink that cannot be reached ends the emission.
EmitUntilDead(c) ==
  \E sinks \in SUBSET watchers : (dead = {} => sinks = watchers) /\ EmitTo(c, sinks)

\* emit_event: to every registered sink, before the lock is released; a sink
\* whose isolate is gone is removed, and the others get the event all the same.
Emit(c) == EmitTo(c, watchers)

\* The box is not open any more, or the transaction fails.
Fail(c) ==
  /\ call[c].pc = "sent"
  /\ call' = [call EXCEPT ![c] = NoCall]
  /\ lost' = lost \ {c}
  /\ UNCHANGED <<data, metadata, lock, log, handleVars, dead, leaked, restarts>>

\* The continuation of put, putAll, delete, deleteAll or clear in Dart.
Replied(c, ks) ==
  CASE call[c].op = "put"   -> ks \cup call[c].keys
    [] call[c].op = "clear" -> {}
    [] OTHER                -> ks \ call[c].deleted

Reply(c) ==
  /\ call[c].pc = "reply"
  /\ metadata' = Replied(c, metadata)
  /\ call' = [call EXCEPT ![c] = NoCall]
  /\ UNCHANGED <<data, lock, log, handleVars, restartVars>>

-----------------------------------------------------------------------------
(* Opening a handle: openBox, the watch, then the snapshot of the keys.    *)

OpenBox(h) ==
  /\ stage[h] = "closed"
  /\ Reach(h, "opened")
  /\ UNCHANGED <<data, metadata, lock, call, log, watchers, stream, hydrated, pending, snapshot, seen>>

\* Seeded fault: the sink is registered without the lock.
WatchUnlocked(h) ==
  /\ stage[h] = "opened"
  /\ watchers' = watchers \cup {h}
  /\ seen' = [seen EXCEPT ![h] = Len(log)]
  /\ Reach(h, "watching")
  /\ UNCHANGED <<data, metadata, lock, call, log, stream, hydrated, pending, snapshot>>

\* watch_box registers the sink under the mutation lock.
Watch(h) ==
  /\ stage[h] = "opened" /\ lock = None
  /\ watchers' = watchers \cup {h}
  /\ seen' = [seen EXCEPT ![h] = Len(log)]
  /\ Reach(h, "watching")
  /\ UNCHANGED <<data, metadata, lock, call, log, stream, hydrated, pending, snapshot>>

\* getAllKeys reads a committed version, without the lock.
ReadKeys(h) ==
  /\ stage[h] = "watching"
  /\ snapshot' = [snapshot EXCEPT ![h] = data]
  /\ Reach(h, "reading")
  /\ UNCHANGED <<data, metadata, lock, call, log, watchers, stream, hydrated, pending, seen>>

\* _applyNativeWatchEvent on the metadata.
Apply(ks, e) ==
  CASE e.type = "put"    -> ks \cup {e.key}
    [] e.type = "delete" -> ks \ {e.key}
    [] e.type = "clear"  -> {}

Replay(ks, es) == FoldLeft(Apply, ks, es)

\* Seeded fault: the buffered events are forgotten.
HydratedStale(h) == snapshot[h]

\* refreshMetadata: the snapshot, then the events buffered meanwhile.
Hydrated(h) == Replay(snapshot[h], pending[h])

Hydrate(h) ==
  /\ stage[h] = "reading"
  /\ metadata' = Hydrated(h)
  /\ hydrated' = hydrated \cup {h}
  /\ pending' = [pending EXCEPT ![h] = <<>>]
  /\ snapshot' = [snapshot EXCEPT ![h] = {}]
  /\ Reach(h, "open")
  /\ UNCHANGED <<data, lock, call, log, watchers, stream, seen>>

\* Seeded fault: an event that comes before the metadata is hydrated is lost.
DeliverLossy(h) ==
  /\ stage[h] \in Stages \ {"closed", "opened"}
  /\ stream[h] # <<>>
  /\ metadata' = IF h \in hydrated THEN Apply(metadata, Head(stream[h])) ELSE metadata
  /\ stream' = [stream EXCEPT ![h] = Tail(@)]
  /\ seen' = [seen EXCEPT ![h] = @ + 1]
  /\ UNCHANGED <<data, lock, call, log, watchers, stage, hydrated, pending, snapshot>>

\* An event reaches the handle: buffered before the metadata is hydrated.
Deliver(h) ==
  /\ stage[h] \in Stages \ {"closed", "opened"}
  /\ stream[h] # <<>>
  /\ IF h \in hydrated
     THEN /\ metadata' = Apply(metadata, Head(stream[h]))
          /\ UNCHANGED pending
     ELSE /\ pending' = [pending EXCEPT ![h] = Append(@, Head(stream[h]))]
          /\ UNCHANGED metadata
  /\ stream' = [stream EXCEPT ![h] = Tail(@)]
  /\ seen' = [seen EXCEPT ![h] = @ + 1]
  /\ UNCHANGED <<data, lock, call, log, watchers, stage, hydrated, snapshot>>

-----------------------------------------------------------------------------
(* Closing: unwatch, cancel the subscription, close the native handle.     *)

Unwatch(h) ==
  /\ stage[h] = "closing" /\ lock = None
  /\ watchers' = watchers \ {h}
  /\ Reach(h, "unwatched")
  /\ UNCHANGED <<data, metadata, lock, call, log, stream, hydrated, pending, snapshot, seen>>

\* close(), and the cleanup of an open whose watch or snapshot failed; the
\* part of an answer that is still under way is dropped.
StartClose(h) ==
  /\ stage[h] \in {"opened", "watching", "reading", "open"}
  /\ snapshot' = [snapshot EXCEPT ![h] = {}]
  /\ Reach(h, IF stage[h] = "opened" THEN "unwatched" ELSE "closing")
  /\ UNCHANGED <<data, metadata, lock, call, log, watchers, stream, hydrated, pending, seen>>

CloseBox(h) ==
  /\ stage[h] = "unwatched" /\ lock = None
  /\ stream' = [stream EXCEPT ![h] = <<>>]
  /\ hydrated' = hydrated \ {h}
  /\ pending' = [pending EXCEPT ![h] = <<>>]
  /\ seen' = [seen EXCEPT ![h] = 0]
  /\ Reach(h, "closed")
  /\ UNCHANGED <<data, metadata, lock, call, log, watchers, snapshot>>

-----------------------------------------------------------------------------
(* The box is deleted; the isolate dies and another one starts.            *)

\* Nobody has the box open: its file goes, its watchers and the metadata object,
\* which is all that a reply still under way can change.
DeleteBox ==
  /\ ~NativeOpen /\ lock = None
  /\ data' = {} /\ metadata' = {}
  /\ watchers' = {} /\ dead' = {}
  /\ lost' = lost \cup {c \in Calls : call[c].pc = "sent"}
  /\ call' = [c \in Calls |-> IF call[c].pc = "reply" THEN NoCall ELSE call[c]]
  /\ UNCHANGED <<lock, log, stage, stream, hydrated, pending, snapshot, seen,
                 leaked, restarts>>

\* Calls that have reached the native side go on; their replies are dropped.
IsolateDies ==
  /\ restarts < MaxRestarts
  /\ restarts' = restarts + 1
  /\ dead' = dead \cup watchers /\ watchers' = {}
  /\ leaked' = NativeOpen
  /\ lost' = {c \in Calls : call[c].pc \in {"sent", "emit"}}
  /\ call' = [c \in Calls |-> IF c \in lost' THEN call[c] ELSE NoCall]
  /\ metadata' = {} /\ hydrated' = {}
  /\ stage' = [h \in Handles |-> "closed"]
  /\ stream' = [h \in Handles |-> <<>>] /\ pending' = [h \in Handles |-> <<>>]
  /\ snapshot' = [h \in Handles |-> {}] /\ seen' = [h \in Handles |-> 0]
  /\ UNCHANGED <<data, lock, log>>

-----------------------------------------------------------------------------
CallStep(c)   == Commit(c) \/ Emit(c) \/ Fail(c) \/ Reply(c)
HandleStep(h) == OpenBox(h) \/ Watch(h) \/ ReadKeys(h) \/ Hydrate(h) \/ Deliver(h)
                   \/ StartClose(h) \/ Unwatch(h) \/ CloseBox(h)

Next ==
  \/ \E c \in Calls, op \in Ops, ks \in SUBSET Keys : Send(c, op, ks) /\ UNCHANGED restartVars
  \/ \E c \in Calls : CallStep(c)
  \/ \E h \in Handles : HandleStep(h) /\ UNCHANGED restartVars
  \/ DeleteBox
  \/ IsolateDies

Spec == Init /\ [][Next]_vars

-----------------------------------------------------------------------------
(* Properties.                                                             *)

\* The events of the commit under the lock, which nobody has been sent yet.
Unsent == IF lock = None THEN <<>> ELSE Uttered(lock)

\* What a handle that is not hydrated has still to apply.
Outstanding(h) == pending[h] \o stream[h] \o Unsent

\* A watcher gets the events of exactly the commits made since it registered, in
\* commit order, each once, whatever runs at the same time, whenever others
\* come and go, and though sinks of an isolate that died are still registered
\* (api.rs:87-120, 154-190; core.rs:111-212;
\* docs/RUST_NATIVE_PROFILES_CONCURRENCY_08.md:50, the watch ordering invariant).
EventsFollowCommits ==
  \A h \in watchers : stream[h] \o Unsent = SubSeq(log, seen[h] + 1, Len(log))

\* The snapshot a handle hydrates from may be older than events it has been
\* handed, or newer than events it has not: applying what is buffered and what
\* is still to come always ends at the keys of the box (box.dart:82-93, 313-363).
SnapshotCatchesUp ==
  \A h \in watchers : stage[h] = "reading" => Replay(snapshot[h], Outstanding(h)) = data

\* Nothing is in flight: no call, no event, no open or close.
Quiet ==
  /\ \A c \in Calls : call[c].pc = "idle"
  /\ \A h \in Handles : stage[h] \in {"open", "closed"} /\ stream[h] = <<>>
  /\ \E h \in Handles : stage[h] = "open"

\* When everything has been delivered, the keys every open handle shows are the
\* keys of the box (test/box_test.dart:26, "open hydrates metadata and CRUD
\* keeps metadata in sync").  It holds when calls are made one after another;
\* with two in flight, a reply that arrives after the event of a later commit
\* puts a deleted key back, or hides a stored one (box.dart:95-105, 166-197).
MetadataConverges == Quiet => metadata = data

-----------------------------------------------------------------------------
(* The inductive invariant behind EventsFollowCommits.                     *)

WatchTyped ==
  /\ data \subseteq Keys /\ watchers \subseteq Handles
  /\ lock \in Calls \cup {None}
  /\ call \in [Calls -> [pc : {"idle", "sent", "emit", "reply"}, op : Ops,
                         keys : SUBSET Keys, deleted : SUBSET Keys]]
  /\ stage \in [Handles -> Stages]
  /\ stream \in [Handles -> Seq(Events)]
  /\ seen \in [Handles -> Nat]
  /\ log \in Seq(Events)

\* The lock is held exactly between a commit and its last event.
LockIsEmitting == \A c \in Calls : call[c].pc = "emit" <=> lock = c

\* A handle has no events before it watches, and its sink goes before it closes.
StreamsStartEmpty ==
  \A h \in Handles :
    /\ stage[h] \in {"closed", "opened"} => stream[h] = <<>>
    /\ stage[h] \in {"closed", "opened", "unwatched"} => h \notin watchers

WatchInv ==
  /\ WatchTyped /\ LockIsEmitting /\ StreamsStartEmpty
  /\ \A h \in watchers : seen[h] <= Len(log)
  /\ EventsFollowCommits

-----------------------------------------------------------------------------
(* The inductive invariant behind SnapshotCatchesUp, beside WatchInv.      *)

\* Before the metadata is hydrated its events are buffered, all of them since
\* the watch: from some keys of then they lead to the keys of now.
CatchUpInv ==
  /\ snapshot \in [Handles -> SUBSET Keys]
  /\ pending \in [Handles -> Seq(Events)]
  /\ \A h \in Handles :
       /\ stage[h] \in {"closed", "opened"} => pending[h] = <<>>
       /\ stage[h] \in {"closed", "opened", "watching", "reading"} => h \notin hydrated
  /\ \A h \in watchers :
       stage[h] = "watching" => \E keys \in SUBSET Keys : Replay(keys, Outstanding(h)) = data
  /\ SnapshotCatchesUp
=============================================================================
