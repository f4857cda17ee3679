--------------------------- MODULE HiveMigration ----------------------------
(***************************************************************************)
(* Migrations from Hive CE (hive_ce_migration.dart, openNew and            *)
(* releaseReservation of dxtr_box.dart) racing with each other and with    *)
(* ordinary opens of the destination box.  Each await of the Dart code is  *)
(* a point where another actor may run.  The file system answers exists,   *)
(* exclusive create and delete atomically; the native engine counts the    *)
(* handles of the box by its name, whoever opened them (BoxLifecycle).     *)
(* The process may die: its handles go, the file and the marker stay.      *)
(***************************************************************************)
EXTENDS Naturals, FiniteSets

CONSTANTS
  Migrators, Openers, None,
  MaxCrashes  \* bound

Actors == Migrators \cup Openers

ASSUME MigrationAssumption ==
  /\ Migrators \cap Openers = {}
  /\ None \notin Actors
  /\ MaxCrashes \in Nat

VARIABLES
  file,         \* the destination: [exists, table, creator, data]
  reserved,     \* the marker file .<name>.dxtr.migrating
  engine,       \* the native registry entry: [handles, linked]
  dartHandles,  \* _openHandlesByName: actors whose Box is counted
  result,       \* what a migration reported
  pc,
  crashes,      \* how often the process has died
  interrupted   \* the migrations that held the reservation when it did

crashVars == <<crashes, interrupted>>
vars == <<file, reserved, engine, dartHandles, result, pc, crashVars>>

NoFile == [exists |-> FALSE, table |-> FALSE, creator |-> None, data |-> {}]
NewFile(a) == [exists |-> TRUE, table |-> FALSE, creator |-> a, data |-> {}]
NotOpen == [handles |-> 0, linked |-> FALSE]

Steps == {"start", "reserve", "verify", "create", "open", "recheck", "setup", "undo",
          "held", "closed", "migrate", "finish", "abort", "abortDelete", "release",
          "cleanClose", "cleanDelete", "cleanUnlink", "done"}

Init ==
  /\ file \in {NoFile} \cup {[NewFile(None) EXCEPT !.table = TRUE]}
  /\ reserved = FALSE
  /\ engine = NotOpen
  /\ dartHandles = {}
  /\ result = [m \in Migrators |-> "none"]
  /\ pc = [a \in Actors |-> "start"]
  /\ crashes = 0 /\ interrupted = {}

Goto(a, step) == pc' = [pc EXCEPT ![a] = step]

-----------------------------------------------------------------------------
(* Native calls, by box name.                                              *)

IsOpen == engine.handles > 0

NativeClose ==
  engine' = IF engine.handles > 1 THEN [engine EXCEPT !.handles = @ - 1] ELSE NotOpen

\* openBox succeeds: one more handle, or the file is opened, or created.
NativeOpen(a) ==
  IF IsOpen
  THEN engine' = [engine EXCEPT !.handles = @ + 1] /\ UNCHANGED file
  ELSE /\ engine' = [handles |-> 1, linked |-> TRUE]
       /\ file' = [(IF file.exists THEN file ELSE NewFile(a)) EXCEPT !.table = TRUE]

\* openBox fails: a file without a data table is removed, when nobody has it open.
NativeOpenFails ==
  /\ file' = IF ~IsOpen /\ ~file.table THEN NoFile ELSE file
  /\ UNCHANGED engine

\* A write goes to the open file, which may have been unlinked.
NativeWrite(a) ==
  /\ IsOpen
  /\ file' = IF engine.linked THEN [file EXCEPT !.data = @ \cup {a}] ELSE file

-----------------------------------------------------------------------------
(* An ordinary open, from the two checks of the marker to the close.       *)

CheckMarker(o) ==
  /\ pc[o] = "start"
  /\ Goto(o, IF reserved THEN "done" ELSE "open")
  /\ UNCHANGED <<file, reserved, engine, dartHandles, result>>

\* Seeded fault: the marker is not looked at again.
MustBackOutNever == FALSE

\* The second check, after the native open.
MustBackOut == reserved

Recheck(o) ==
  /\ pc[o] = "recheck"
  /\ Goto(o, IF MustBackOut THEN "undo" ELSE "setup")
  /\ UNCHANGED <<file, reserved, engine, dartHandles, result>>

Put(o) ==
  /\ pc[o] = "held"
  /\ NativeWrite(o)
  /\ UNCHANGED <<reserved, engine, dartHandles, result, pc>>

CloseBox(o) ==
  /\ pc[o] = "held"
  /\ NativeClose
  /\ Goto(o, "closed")
  /\ UNCHANGED <<file, reserved, dartHandles, result>>

OnClose(o) ==
  /\ pc[o] = "closed"
  /\ dartHandles' = dartHandles \ {o}
  /\ Goto(o, "done")
  /\ UNCHANGED <<file, reserved, engine, result>>

\* The application opens the box again.
Again(o) ==
  /\ pc[o] = "done"
  /\ Goto(o, "start")
  /\ UNCHANGED <<file, reserved, engine, dartHandles, result>>

-----------------------------------------------------------------------------
(* The part of _open both kinds of actor run.                              *)

AfterOpen(a)   == IF a \in Migrators THEN "setup" ELSE "recheck"
AfterSetup(a)  == IF a \in Migrators THEN "migrate" ELSE "held"
AfterFailure(a) == IF a \in Migrators THEN "cleanClose" ELSE "done"

Open(a) ==
  /\ pc[a] = "open"
  /\ NativeOpen(a)
  /\ Goto(a, AfterOpen(a))
  /\ UNCHANGED <<reserved, dartHandles, result>>

OpenFails(a) ==
  /\ pc[a] = "open"
  /\ NativeOpenFails
  /\ Goto(a, AfterFailure(a))
  /\ UNCHANGED <<reserved, dartHandles, result>>

\* The watch and the metadata: they need the box open, and may fail anyway.
Setup(a) ==
  /\ pc[a] = "setup"
  /\ IsOpen
  /\ dartHandles' = dartHandles \cup {a}
  /\ Goto(a, AfterSetup(a))
  /\ UNCHANGED <<file, reserved, engine, result>>

SetupFails(a) ==
  /\ pc[a] = "setup"
  /\ Goto(a, "undo")
  /\ UNCHANGED <<file, reserved, engine, dartHandles, result>>

\* The handle is closed before it can escape.
Undo(a) ==
  /\ pc[a] = "undo"
  /\ NativeClose
  /\ Goto(a, AfterFailure(a))
  /\ UNCHANGED <<file, reserved, dartHandles, result>>

-----------------------------------------------------------------------------
(* A migration: openNew, putAll, close, release.                           *)

CheckAbsent(m) ==
  /\ pc[m] = "start"
  /\ Goto(m, IF file.exists THEN "done" ELSE "reserve")
  /\ UNCHANGED <<file, reserved, engine, dartHandles, result>>

\* Seeded fault: the marker is created whether or not it is there.
ReserveShared(m) ==
  /\ pc[m] = "reserve"
  /\ reserved' = TRUE
  /\ Goto(m, "verify")
  /\ UNCHANGED <<file, engine, dartHandles, result>>

\* reservation.create(exclusive: true): the loser leaves without cleaning up.
Reserve(m) ==
  /\ pc[m] = "reserve"
  /\ reserved' = TRUE
  /\ Goto(m, IF reserved THEN "done" ELSE "verify")
  /\ UNCHANGED <<file, engine, dartHandles, result>>

\* Seeded fault: the destination is not checked again under the reservation.
VerifyNothing(m) ==
  /\ pc[m] = "verify"
  /\ Goto(m, "open")
  /\ UNCHANGED <<file, reserved, engine, dartHandles, result>>

Verify(m) ==
  /\ pc[m] = "verify"
  /\ Goto(m, IF file.exists THEN "cleanClose" ELSE "create")
  /\ UNCHANGED <<file, reserved, engine, dartHandles, result>>

\* path.create(exclusive: true).
Create(m) ==
  /\ pc[m] = "create"
  /\ file' = IF file.exists THEN file ELSE NewFile(m)
  /\ Goto(m, IF file.exists THEN "cleanClose" ELSE "open")
  /\ UNCHANGED <<reserved, engine, dartHandles, result>>

Migrate(m) ==
  /\ pc[m] = "migrate"
  /\ NativeWrite(m)
  /\ Goto(m, "finish")
  /\ UNCHANGED <<reserved, engine, dartHandles, result>>

MigrateFails(m) ==
  /\ pc[m] = "migrate"
  /\ Goto(m, "abort")
  /\ UNCHANGED <<file, reserved, engine, dartHandles, result>>

\* destination.close(), after putAll or after its failure.
CloseDestination(m) ==
  /\ pc[m] \in {"finish", "abort"}
  /\ NativeClose
  /\ dartHandles' = dartHandles \ {m}
  /\ result' = [result EXCEPT ![m] = IF pc[m] = "finish" THEN "ok" ELSE "failed"]
  /\ Goto(m, IF pc[m] = "finish" THEN "release" ELSE "abortDelete")
  /\ UNCHANGED <<file, reserved>>

\* Seeded fault: a failed migration does not release its reservation.
AbortDeleteOnly(m) ==
  /\ pc[m] = "abortDelete"
  /\ file' = IF dartHandles = {} /\ ~IsOpen THEN NoFile ELSE file
  /\ Goto(m, "done")
  /\ UNCHANGED <<reserved, engine, dartHandles, result>>

\* BoxStore.deleteBox refuses a box that Dart, or the engine, has open.
AbortDelete(m) ==
  /\ pc[m] = "abortDelete"
  /\ file' = IF dartHandles = {} /\ ~IsOpen THEN NoFile ELSE file
  /\ Goto(m, "release")
  /\ UNCHANGED <<reserved, engine, dartHandles, result>>

\* The catch of openNew: close and delete by name, then the file itself.
CleanClose(m) ==
  /\ pc[m] = "cleanClose"
  /\ NativeClose
  /\ result' = [result EXCEPT ![m] = "notOpened"]
  /\ Goto(m, "cleanDelete")
  /\ UNCHANGED <<file, reserved, dartHandles>>

CleanDelete(m) ==
  /\ pc[m] = "cleanDelete"
  /\ file' = IF IsOpen THEN file ELSE NoFile
  /\ Goto(m, IF IsOpen THEN "cleanUnlink" ELSE "release")
  /\ UNCHANGED <<reserved, engine, dartHandles, result>>

CleanUnlink(m) ==
  /\ pc[m] = "cleanUnlink"
  /\ file' = NoFile
  /\ engine' = [engine EXCEPT !.linked = FALSE]
  /\ Goto(m, "release")
  /\ UNCHANGED <<reserved, dartHandles, result>>

Release(m) ==
  /\ pc[m] = "release"
  /\ reserved' = FALSE
  /\ Goto(m, "done")
  /\ UNCHANGED <<file, engine, dartHandles, result>>

-----------------------------------------------------------------------------
(* The process dies and the application starts again.                      *)

Reserving(m) == pc[m] \notin {"start", "reserve", "done"}

\* Seeded fault: the marker goes with the process, as a lock would.
CrashDropsMarker ==
  /\ crashes < MaxCrashes
  /\ crashes' = crashes + 1
  /\ interrupted' = interrupted \cup {m \in Migrators : Reserving(m)}
  /\ pc' = [a \in Actors |-> "start"]
  /\ engine' = NotOpen /\ dartHandles' = {} /\ reserved' = FALSE
  /\ result' = [m \in Migrators |-> "none"]
  /\ UNCHANGED file

\* The application opens boxes and tries the migrations again.
Crash ==
  /\ crashes < MaxCrashes
  /\ crashes' = crashes + 1
  /\ interrupted' = interrupted \cup {m \in Migrators : Reserving(m)}
  /\ pc' = [a \in Actors |-> "start"]
  /\ engine' = NotOpen /\ dartHandles' = {}
  /\ result' = [m \in Migrators |-> "none"]
  /\ UNCHANGED <<file, reserved>>

-----------------------------------------------------------------------------
OpenerStep(o) == CheckMarker(o) \/ Recheck(o) \/ Put(o) \/ CloseBox(o) \/ OnClose(o) \/ Again(o)

SharedStep(a) == Open(a) \/ OpenFails(a) \/ Setup(a) \/ SetupFails(a) \/ Undo(a)

MigratorStep(m) ==
  \/ CheckAbsent(m) \/ Reserve(m) \/ Verify(m) \/ Create(m)
  \/ Migrate(m) \/ MigrateFails(m) \/ CloseDestination(m) \/ AbortDelete(m)
  \/ CleanClose(m) \/ CleanDelete(m) \/ CleanUnlink(m) \/ Release(m)

Run(m) == (MigratorStep(m) \/ SharedStep(m)) /\ UNCHANGED crashVars

Next ==
  \/ \E o \in Openers : (OpenerStep(o) \/ SharedStep(o)) /\ UNCHANGED crashVars
  \/ \E m \in Migrators : Run(m)
  \/ Crash

Spec == Init /\ [][Next]_vars

\* The event loop runs every continuation of a migration.
FairSpec == Spec /\ \A m \in Migrators : WF_vars(Run(m))

-----------------------------------------------------------------------------
(* Properties.                                                             *)

\* No openNew has run its catch, which closes and deletes by name, since the
\* process started.
Undisturbed == \A m \in Migrators : result[m] # "notOpened"

\* The batch of a migration goes to the destination file, still linked, and
\* nobody else has written to it, although ordinary opens may have joined the
\* native handle, or even removed and created the file again, since the
\* migration made sure that it was absent (dxtr_box.dart:114-128, 235-263).
\* It holds as long as no openNew has failed: its catch may have closed an
\* opener's native handle under it, and that opener's late close then takes the
\* next migration's (RejectedWithoutMutation).
CleanDestination ==
  Undisturbed => \A m \in Migrators :
    pc[m] \in {"migrate", "finish"} =>
      /\ file.exists /\ file.data \subseteq {m}
      /\ IsOpen /\ engine.linked

\* No ordinary Box for the destination escapes to the application while a
\* migration writes it: the checks before and after the native open together
\* cover every interleaving (dxtr_box.dart:108-128; docs/HIVE_CE_MIGRATION_03.md,
\* the reservation marker).  The same limit applies.
NoEscape ==
  Undisturbed => \A m \in Migrators, o \in Openers :
    ~(pc[m] \in {"migrate", "finish"} /\ pc[o] = "held")

\* Every reservation is released, whichever step of the migration fails, unless
\* the process dies under it (dxtr_box.dart:270-303, hive_ce_migration.dart:85-95).
ReservationReleased == reserved ~> ~reserved \/ interrupted # {}

\* The destination of a migration that died half way is never given to the
\* application as an ordinary box, however often it is opened or migrated again:
\* the marker outlives the process (dxtr_box.dart:108, 247-256).
NoHalfMigratedBox ==
  \A m \in interrupted, o \in Openers : pc[o] = "held" => file.creator # m

\* The marker belongs to at most one migration, and is there from the creation
\* to the release, whoever fails, loses the race or dies in between
\* (dxtr_box.dart:246-255, 293-303).
ReservationExclusive ==
  /\ \A m \in Migrators : Reserving(m) => reserved
  /\ \A m, n \in Migrators : Reserving(m) /\ Reserving(n) => m = n

\* A rejected migration deletes nothing but a file it created itself.
\* docs/RELEASE_03_AUDIT.md:17, "Existing migration destinations are rejected
\* rather than overwritten"; the catch of openNew (dxtr_box.dart:270-290) also
\* runs when the file turns out to be somebody else's, and closes and deletes it.
RejectedWithoutMutation ==
  \A m \in Migrators :
    pc[m] \in {"cleanDelete", "cleanUnlink"} => ~file.exists \/ file.creator = m

-----------------------------------------------------------------------------
(* The inductive invariant behind NoHalfMigratedBox.                       *)

\* After a death under the reservation nobody can take the marker away, and no
\* ordinary open gets past it.
MarkerOutlives ==
  interrupted # {} =>
    /\ reserved
    /\ \A m \in Migrators : ~Reserving(m)
    /\ \A o \in Openers : pc[o] \in {"start", "done"}

ReservationInv ==
  /\ pc \in [Actors -> Steps]
  /\ ReservationExclusive
  /\ MarkerOutlives

-----------------------------------------------------------------------------
(* The inductive invariant behind CleanDestination and NoEscape.           *)

\* Who has a native handle, as long as nobody closes one that is not his.
Holding == {"recheck", "setup", "undo", "held", "migrate", "finish", "abort"}
Holders == {a \in Actors : pc[a] \in Holding}

Files == [exists : BOOLEAN, table : BOOLEAN, creator : Actors \cup {None},
          data : SUBSET Actors]
Results == {"none", "ok", "failed", "notOpened"}

TypesInv ==
  /\ file \in Files
  /\ engine \in [handles : Nat, linked : BOOLEAN]
  /\ result \in [Migrators -> Results]

\* The catch of openNew leaves its mark before it removes anything, for good.
FailureInv ==
  \A m \in Migrators :
    /\ pc[m] \in {"cleanDelete", "cleanUnlink"} => result[m] = "notOpened"
    /\ result[m] = "notOpened" => pc[m] \in {"cleanDelete", "cleanUnlink", "release", "done"}

\* The engine counts its holders, and has the file of the directory open.
CountInv ==
  /\ IsFiniteSet(Holders) /\ engine.handles = Cardinality(Holders)
  /\ IsOpen => engine.linked

\* From the check under the reservation no ordinary open gets past its second
\* look, and from the creation on nobody else has written.
PrivateInv ==
  \A m \in Migrators :
    /\ pc[m] \in {"create", "open", "setup", "migrate", "finish"} =>
         \A o \in Openers : pc[o] \notin {"setup", "held"}
    /\ pc[m] \in {"open", "setup", "migrate", "finish"} => file.data \subseteq {m}

FilesInv == TypesInv /\ (engine.linked => IsOpen /\ file.exists)

CalmInv ==
  /\ FilesInv
  /\ FailureInv
  /\ Undisturbed => CountInv /\ PrivateInv
=============================================================================
