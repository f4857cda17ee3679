------------------------ MODULE HiveMigrationProofs -------------------------
(***************************************************************************)
(* The reservation of a migration and the destination it protects, for any *)
(* number of migrations, ordinary opens and deaths of the process.         *)
(***************************************************************************)
EXTENDS HiveMigration, FiniteSetTheorems, TLAPS

\* The steps of a migration that keep the marker keep the invariant: they end
\* in a step that still holds it, or have not reserved yet.
Advance(m, step) ==
  /\ pc' = [pc EXCEPT ![m] = step]
  /\ UNCHANGED <<reserved, crashVars>>

LEMMA InitReservation == Init => ReservationInv
  BY DEF Init, ReservationInv, ReservationExclusive, MarkerOutlives, Reserving, Steps, Actors

\* A migration that holds the marker goes on holding it.
LEMMA HolderAdvances ==
  ASSUME ReservationInv, NEW m \in Migrators, Reserving(m),
         NEW step \in Steps \ {"start", "reserve", "done"}, Advance(m, step)
  PROVE  ReservationInv'
  BY MigrationAssumption
  DEF ReservationInv, ReservationExclusive, MarkerOutlives, Reserving, Advance, Actors,
      crashVars

\* A migration without the marker starts, or gives up.
LEMMA OthersAdvance ==
  ASSUME ReservationInv, NEW m \in Migrators, ~Reserving(m),
         NEW step \in {"start", "reserve", "done"}, Advance(m, step)
  PROVE  ReservationInv'
  BY MigrationAssumption
  DEF ReservationInv, ReservationExclusive, MarkerOutlives, Reserving, Advance, Actors,
      crashVars, Steps

\* Taking the marker, when it is not there.
LEMMA ReservePreserves ==
  ASSUME ReservationInv, NEW m \in Migrators, Reserve(m), UNCHANGED crashVars
  PROVE  ReservationInv'
<1>1. CASE reserved
  <2>1. ~Reserving(m) /\ Advance(m, "done")
    BY <1>1 DEF Reserve, Goto, Advance, Reserving
  <2> QED BY <2>1, OthersAdvance
<1>2. CASE ~reserved
  <2>1. pc' = [pc EXCEPT ![m] = "verify"] /\ reserved'
    BY <1>2 DEF Reserve, Goto
  <2>2. interrupted = {} /\ \A n \in Migrators : ~Reserving(n)
    BY <1>2 DEF ReservationInv, ReservationExclusive, MarkerOutlives
  <2> QED BY <2>1, <2>2
          DEF ReservationInv, ReservationExclusive, MarkerOutlives, Reserving, Actors,
              crashVars, Steps
<1> QED BY <1>1, <1>2

\* Giving the marker back: only its one holder can.
LEMMA ReleasePreserves ==
  ASSUME ReservationInv, NEW m \in Migrators, Release(m), UNCHANGED crashVars
  PROVE  ReservationInv'
<1>1. Reserving(m) BY DEF Release, Reserving
<1>2. interrupted = {} BY <1>1 DEF ReservationInv, MarkerOutlives
<1>3. \A n \in Migrators : n # m => ~Reserving(n)
  BY <1>1 DEF ReservationInv, ReservationExclusive
<1> QED BY <1>2, <1>3
        DEF ReservationInv, ReservationExclusive, MarkerOutlives, Reserving, Release, Goto,
            Actors, crashVars, Steps

\* Every other step of a migration.
LEMMA MigratorPreserves ==
  ASSUME ReservationInv, NEW m \in Migrators, MigratorStep(m) \/ SharedStep(m),
         UNCHANGED crashVars
  PROVE  ReservationInv'
<1>1. CASE CheckAbsent(m)
  <2>1. ~Reserving(m) /\ \E step \in {"reserve", "done"} : Advance(m, step)
    BY <1>1 DEF CheckAbsent, Goto, Advance, Reserving
  <2> QED BY <2>1, OthersAdvance
<1>2. CASE Reserve(m) BY <1>2, ReservePreserves
<1>3. CASE Release(m) BY <1>3, ReleasePreserves
<1>4. CASE Verify(m) \/ Create(m) \/ Migrate(m) \/ MigrateFails(m) \/ CloseDestination(m)
           \/ AbortDelete(m) \/ CleanClose(m) \/ CleanDelete(m) \/ CleanUnlink(m)
           \/ SharedStep(m)
  <2>1. Reserving(m)
    BY <1>4 DEF Reserving, Verify, Create, Migrate, MigrateFails, CloseDestination, AbortDelete,
                CleanClose, CleanDelete, CleanUnlink, SharedStep, Open, OpenFails, Setup,
                SetupFails, Undo
  <2>2. \E step \in Steps \ {"start", "reserve", "done"} : Advance(m, step)
    <3>1. CASE Verify(m) \/ Create(m) \/ Migrate(m) \/ MigrateFails(m) \/ AbortDelete(m)
      BY <3>1 DEF Verify, Create, Migrate, MigrateFails, AbortDelete, Goto, Advance, Steps
    <3>2. CASE CloseDestination(m)
      BY <3>2 DEF CloseDestination, Goto, Advance, Steps
    <3>3. CASE CleanClose(m) \/ CleanDelete(m) \/ CleanUnlink(m)
      BY <3>3 DEF CleanClose, CleanDelete, CleanUnlink, Goto, Advance, Steps
    <3>4. CASE SharedStep(m)
      BY <3>4 DEF SharedStep, Open, OpenFails, Setup, SetupFails, Undo, AfterOpen, AfterSetup,
                  AfterFailure, Goto, Advance, Steps
    <3> QED BY <1>4, <3>1, <3>2, <3>3, <3>4
  <2> QED BY <2>1, <2>2, HolderAdvances
<1> QED BY <1>1, <1>2, <1>3, <1>4 DEF MigratorStep

\* An ordinary open never touches the marker, and stops at its first look when
\* the marker is there.
LEMMA OpenerPreserves ==
  ASSUME ReservationInv, NEW o \in Openers, OpenerStep(o) \/ SharedStep(o),
         UNCHANGED crashVars
  PROVE  ReservationInv'
<1>1. UNCHANGED reserved
  BY DEF OpenerStep, SharedStep, CheckMarker, Recheck, Put, CloseBox, OnClose, Again, Open,
         OpenFails, Setup, SetupFails, Undo
<1>2. \E step \in Steps : pc' = [pc EXCEPT ![o] = step]
  <2>1. CASE Put(o)
    <3>1. pc' = [pc EXCEPT ![o] = pc[o]] BY <2>1 DEF Put, ReservationInv
    <3> QED BY <3>1 DEF ReservationInv, Actors
  <2>2. CASE CheckMarker(o) \/ Recheck(o) \/ CloseBox(o) \/ OnClose(o) \/ Again(o)
    BY <2>2 DEF CheckMarker, Recheck, CloseBox, OnClose, Again, Goto, Steps
  <2>3. CASE SharedStep(o)
    BY <2>3 DEF SharedStep, Open, OpenFails, Setup, SetupFails, Undo, AfterOpen, AfterSetup,
                AfterFailure, Goto, Steps
  <2> QED BY <2>1, <2>2, <2>3 DEF OpenerStep
<1>3. \A m \in Migrators : pc'[m] = pc[m]
  BY <1>2, MigrationAssumption DEF ReservationInv, Actors
<1>4. ASSUME interrupted # {}
      PROVE  \A p \in Openers : pc'[p] \in {"start", "done"}
  <2>1. reserved /\ pc[o] \in {"start", "done"}
    BY <1>4 DEF ReservationInv, MarkerOutlives
  <2>2. CheckMarker(o) \/ Again(o)
    BY <2>1 DEF OpenerStep, SharedStep, Recheck, Put, CloseBox, OnClose, Open, OpenFails,
                Setup, SetupFails, Undo
  <2>3. pc'[o] \in {"start", "done"}
    BY <2>1, <2>2 DEF CheckMarker, Again, Goto, ReservationInv, Actors
  <2> QED BY <1>2, <1>4, <2>3 DEF ReservationInv, MarkerOutlives, Actors
<1> QED BY <1>1, <1>2, <1>3, <1>4
        DEF ReservationInv, ReservationExclusive, MarkerOutlives, Reserving, Actors, crashVars

\* A death leaves the marker of the migration it interrupts.
LEMMA CrashPreserves == ReservationInv /\ Crash => ReservationInv'
  BY DEF ReservationInv, ReservationExclusive, MarkerOutlives, Reserving, Crash, Actors, Steps

LEMMA ReservationInvariance == ReservationInv /\ [Next]_vars => ReservationInv'
<1> SUFFICES ASSUME ReservationInv, [Next]_vars PROVE ReservationInv' OBVIOUS
<1>1. ASSUME NEW o \in Openers, OpenerStep(o) \/ SharedStep(o), UNCHANGED crashVars
      PROVE  ReservationInv'
  BY <1>1, OpenerPreserves
<1>2. ASSUME NEW m \in Migrators, Run(m) PROVE ReservationInv'
  BY <1>2, MigratorPreserves DEF Run
<1>3. CASE Crash BY <1>3, CrashPreserves
<1>4. CASE UNCHANGED vars
  BY <1>4 DEF vars, crashVars, ReservationInv, ReservationExclusive, MarkerOutlives, Reserving
<1> QED BY <1>1, <1>2, <1>3, <1>4 DEF Next

\* The marker belongs to one migration at a time, however many run, lose the
\* race, fail or die (dxtr_box.dart:246-255, 293-303).
THEOREM ReservationIsExclusive == Spec => []ReservationExclusive
<1>1. ReservationInv => ReservationExclusive BY DEF ReservationInv
<1> QED BY <1>1, InitReservation, ReservationInvariance, PTL DEF Spec

\* No application is ever handed the destination of a migration that died half
\* way (dxtr_box.dart:108, 247-256).
THEOREM HalfMigratedBoxStaysShut == Spec => []NoHalfMigratedBox
<1>1. ReservationInv => NoHalfMigratedBox
  BY DEF ReservationInv, MarkerOutlives, NoHalfMigratedBox
<1> QED BY <1>1, InitReservation, ReservationInvariance, PTL DEF Spec

-----------------------------------------------------------------------------
(* What the migration's file is protected by, as long as no openNew has    *)
(* failed: the engine's count is right, so nobody closes the file under it.*)

LEMMA InitCalm == Init => CalmInv
<1> SUFFICES ASSUME Init PROVE CalmInv OBVIOUS
<1>1. FilesInv
  <2>1. file \in {NoFile, [NewFile(None) EXCEPT !.table = TRUE]} BY DEF Init
  <2>2. file \in Files
    <3>1. NoFile \in Files /\ NewFile(None) \in Files BY DEF NoFile, NewFile, Files
    <3>2. \A f \in Files : [f EXCEPT !.table = TRUE] \in Files BY DEF Files
    <3> QED BY <2>1, <3>1, <3>2
  <2> QED BY <2>2 DEF Init, FilesInv, TypesInv, Files, Results, NotOpen
<1>2. FailureInv BY DEF Init, FailureInv, Actors
<1>3. CountInv
  <2>1. Holders = {} BY DEF Init, Holders, Holding
  <2>2. engine.handles = 0 /\ ~IsOpen BY DEF Init, NotOpen, IsOpen
  <2> QED BY <2>1, <2>2, FS_EmptySet DEF CountInv
<1>4. PrivateInv BY DEF Init, PrivateInv, Actors
<1> QED BY <1>1, <1>2, <1>3, <1>4 DEF CalmInv

\* Types, and that an open file that is linked is there.
LEMMA NativeCallsKeepFiles ==
  ASSUME FilesInv, NEW a \in Actors
  PROVE  /\ NativeOpen(a) /\ UNCHANGED result => FilesInv'
         /\ NativeOpenFails /\ UNCHANGED result => FilesInv'
         /\ NativeClose /\ UNCHANGED file /\ result' \in [Migrators -> Results] => FilesInv'
         /\ NativeWrite(a) /\ UNCHANGED <<engine, result>> => FilesInv'
<1>1. ASSUME NativeOpen(a), UNCHANGED result PROVE FilesInv'
  <2>1. CASE IsOpen BY <1>1, <2>1 DEF FilesInv, TypesInv, Files, Results, NativeOpen, IsOpen
  <2>2. CASE ~IsOpen
    <3> PICK f \in {file, NewFile(a)} : f.exists /\ file' = [f EXCEPT !.table = TRUE]
      BY <1>1, <2>2 DEF NativeOpen, NewFile
    <3>1. NewFile(a) \in Files BY DEF NewFile, Files
    <3>2. f \in Files BY <3>1 DEF FilesInv, TypesInv
    <3>3. file'.exists /\ file' \in Files BY <3>2 DEF Files
    <3>4. engine' = [handles |-> 1, linked |-> TRUE] BY <1>1, <2>2 DEF NativeOpen
    <3> QED BY <1>1, <3>3, <3>4 DEF FilesInv, TypesInv, IsOpen
  <2> QED BY <2>1, <2>2
<1>2. ASSUME NativeOpenFails, UNCHANGED result PROVE FilesInv'
  BY <1>2 DEF FilesInv, TypesInv, Files, Results, NativeOpenFails, IsOpen, NoFile
<1>3. ASSUME NativeClose, UNCHANGED file, result' \in [Migrators -> Results]
      PROVE  FilesInv'
  BY <1>3 DEF FilesInv, TypesInv, Files, Results, NativeClose, IsOpen, NotOpen
<1>4. ASSUME NativeWrite(a), UNCHANGED <<engine, result>> PROVE FilesInv'
  BY <1>4 DEF FilesInv, TypesInv, Files, Results, NativeWrite, IsOpen
<1> QED BY <1>1, <1>2, <1>3, <1>4

\* Nothing but the native calls and the removals touches the file or the engine.
LEMMA StepsKeepFiles ==
  ASSUME FilesInv,
         \/ \E o \in Openers : OpenerStep(o) \/ SharedStep(o)
         \/ \E m \in Migrators : MigratorStep(m) \/ SharedStep(m)
         \/ Crash
  PROVE  FilesInv'
<1>1. CASE \E a \in Actors : SharedStep(a)
  <2> PICK a \in Actors : SharedStep(a) BY <1>1
  <2>1. result' = result BY DEF SharedStep, Open, OpenFails, Setup, SetupFails, Undo
  <2>2. \/ NativeOpen(a) \/ NativeOpenFails
        \/ NativeClose /\ UNCHANGED file
        \/ UNCHANGED <<file, engine>>
    BY DEF SharedStep, Open, OpenFails, Setup, SetupFails, Undo
  <2>3. CASE UNCHANGED <<file, engine>>
    BY <2>1, <2>3 DEF FilesInv, TypesInv, IsOpen
  <2> QED BY <2>1, <2>2, <2>3, NativeCallsKeepFiles DEF FilesInv, TypesInv
<1>2. CASE \E o \in Openers : OpenerStep(o)
  <2> PICK o \in Openers : OpenerStep(o) BY <1>2
  <2>1. result' = result
    BY DEF OpenerStep, CheckMarker, Recheck, Put, CloseBox, OnClose, Again
  <2>2. \/ NativeWrite(o) /\ UNCHANGED engine
        \/ NativeClose /\ UNCHANGED file
        \/ UNCHANGED <<file, engine>>
    BY DEF OpenerStep, CheckMarker, Recheck, Put, CloseBox, OnClose, Again
  <2>3. CASE UNCHANGED <<file, engine>>
    BY <2>1, <2>3 DEF FilesInv, TypesInv, IsOpen
  <2> QED BY <2>1, <2>2, <2>3, NativeCallsKeepFiles DEF FilesInv, TypesInv, Actors
<1>3. CASE \E m \in Migrators : MigratorStep(m)
  <2> PICK m \in Migrators : MigratorStep(m) BY <1>3
  <2>1. CASE CheckAbsent(m) \/ Reserve(m) \/ Verify(m) \/ MigrateFails(m) \/ Release(m)
    BY <2>1 DEF CheckAbsent, Reserve, Verify, MigrateFails, Release, FilesInv, TypesInv, IsOpen
  <2>2. CASE Migrate(m)
    BY <2>2, NativeCallsKeepFiles DEF Migrate, Actors
  <2>3. CASE CloseDestination(m) \/ CleanClose(m)
    <3>1. result' \in [Migrators -> Results]
      BY <2>3 DEF CloseDestination, CleanClose, FilesInv, TypesInv, Files, Results
    <3> QED BY <2>3, <3>1, NativeCallsKeepFiles DEF CloseDestination, CleanClose, Actors
  <2>4. CASE Create(m)
    BY <2>4 DEF Create, FilesInv, TypesInv, Files, Results, IsOpen, NewFile, Actors
  <2>5. CASE AbortDelete(m) \/ CleanDelete(m)
    <3>1. /\ UNCHANGED <<engine, result>>
          /\ file' = file \/ (file' = NoFile /\ ~IsOpen)
      BY <2>5 DEF AbortDelete, CleanDelete
    <3>2. CASE file' = file BY <3>1, <3>2 DEF FilesInv, TypesInv, IsOpen
    <3>3. CASE file' = NoFile /\ ~IsOpen
      <4>1. NoFile \in Files
        BY DEF NoFile, Files
      <4> QED BY <3>1, <3>3, <4>1 DEF FilesInv, TypesInv
    <3> QED BY <3>1, <3>2, <3>3
  <2>6. CASE CleanUnlink(m)
    <3>1. engine' \in [handles : Nat, linked : BOOLEAN] /\ ~engine'.linked
      BY <2>6 DEF CleanUnlink, FilesInv, TypesInv, Files, Results
    <3>2. file' \in Files
      BY <2>6 DEF CleanUnlink, NoFile, Files
    <3> QED BY <2>6, <3>1, <3>2 DEF CleanUnlink, FilesInv, TypesInv
  <2> QED BY <2>1, <2>2, <2>3, <2>4, <2>5, <2>6 DEF MigratorStep
<1>4. CASE Crash
  BY <1>4 DEF Crash, FilesInv, TypesInv, Files, Results, NotOpen
<1> QED BY <1>1, <1>2, <1>3, <1>4 DEF Actors

\* The catch of openNew leaves its mark, and nothing takes it off but a restart.
LEMMA StepsKeepMark ==
  ASSUME FailureInv, TypesInv, pc \in [Actors -> Steps],
         \/ \E o \in Openers : OpenerStep(o) \/ SharedStep(o)
         \/ \E m \in Migrators : MigratorStep(m) \/ SharedStep(m)
  PROVE  FailureInv' /\ (Undisturbed' => Undisturbed)
<1>1. ASSUME NEW o \in Openers, OpenerStep(o) \/ SharedStep(o)
      PROVE  FailureInv' /\ (Undisturbed' => Undisturbed)
  <2>1. result' = result
    BY <1>1 DEF OpenerStep, CheckMarker, Recheck, Put, CloseBox, OnClose, Again,
                SharedStep, Open, OpenFails, Setup, SetupFails, Undo
  <2>2. \A m \in Migrators : pc'[m] = pc[m]
    BY <1>1, MigrationAssumption
    DEF OpenerStep, CheckMarker, Recheck, Put, CloseBox, OnClose, Again,
        SharedStep, Open, OpenFails, Setup, SetupFails, Undo, Goto, Actors
  <2> QED BY <2>1, <2>2 DEF FailureInv, Undisturbed
<1>2. ASSUME NEW m \in Migrators, MigratorStep(m) \/ SharedStep(m)
      PROVE  FailureInv' /\ (Undisturbed' => Undisturbed)
  <2>1. CASE SharedStep(m)
    BY <2>1 DEF SharedStep, Open, OpenFails, Setup, SetupFails, Undo, Goto, AfterOpen,
                AfterSetup, AfterFailure, FailureInv, Undisturbed, Actors
  <2>2. CASE CheckAbsent(m) \/ Reserve(m) \/ Verify(m) \/ Create(m)
    BY <2>2 DEF CheckAbsent, Reserve, Verify, Create, Goto, FailureInv, Undisturbed, Actors
  <2>3. CASE Migrate(m) \/ MigrateFails(m) \/ AbortDelete(m)
    BY <2>3 DEF Migrate, MigrateFails, AbortDelete, Goto, FailureInv, Undisturbed, Actors
  <2>4. CASE CloseDestination(m)
    BY <2>4 DEF CloseDestination, Goto, FailureInv, Undisturbed, TypesInv, Actors
  <2>5. CASE CleanClose(m) \/ CleanDelete(m) \/ CleanUnlink(m) \/ Release(m)
    BY <2>5 DEF CleanClose, CleanDelete, CleanUnlink, Release, Goto, FailureInv, Undisturbed,
                TypesInv, Actors
  <2> QED BY <1>2, <2>1, <2>2, <2>3, <2>4, <2>5 DEF MigratorStep
<1> QED BY <1>1, <1>2

\* One actor moves: the set of the holders gains it, loses it or stays.
LEMMA HoldersMove ==
  ASSUME pc \in [Actors -> Steps], CountInv, NEW a \in Actors, NEW step,
         pc' = [pc EXCEPT ![a] = step]
  PROVE  /\ (a \in Holders <=> step \in Holding) => Holders' = Holders
         /\ a \notin Holders /\ step \in Holding =>
              IsFiniteSet(Holders)' /\ Cardinality(Holders)' = Cardinality(Holders) + 1
         /\ a \in Holders /\ step \notin Holding =>
              /\ IsFiniteSet(Holders)' /\ Cardinality(Holders)' = Cardinality(Holders) - 1
              /\ Cardinality(Holders) > 0
<1>0. IsFiniteSet(Holders) BY DEF CountInv
<1>1. ASSUME a \in Holders <=> step \in Holding PROVE Holders' = Holders
  BY <1>1 DEF Holders
<1>2. ASSUME a \notin Holders, step \in Holding
      PROVE  IsFiniteSet(Holders)' /\ Cardinality(Holders)' = Cardinality(Holders) + 1
  <2>1. Holders' = Holders \cup {a} BY <1>2 DEF Holders
  <2> QED BY <1>0, <1>2, <2>1, FS_AddElement
<1>3. ASSUME a \in Holders, step \notin Holding
      PROVE  /\ IsFiniteSet(Holders)' /\ Cardinality(Holders)' = Cardinality(Holders) - 1
             /\ Cardinality(Holders) > 0
  <2>1. Holders' = Holders \ {a} BY <1>3 DEF Holders
  <2>2. Cardinality(Holders) > 0
    BY <1>0, <1>3, FS_CardinalityType, FS_EmptySet
  <2> QED BY <1>0, <1>3, <2>1, <2>2, FS_RemoveElement
<1> QED BY <1>1, <1>2, <1>3

\* The count through one more handle, one less, or none.
LEMMA CountMoves ==
  ASSUME pc \in [Actors -> Steps], FilesInv, CountInv, NEW a \in Actors, NEW step,
         pc' = [pc EXCEPT ![a] = step],
         \/ (a \in Holders <=> step \in Holding) /\ UNCHANGED engine
         \/ a \notin Holders /\ step \in Holding /\ NativeOpen(a)
         \/ a \in Holders /\ step \notin Holding /\ NativeClose
  PROVE  CountInv'
<1>1. CASE (a \in Holders <=> step \in Holding) /\ UNCHANGED engine
  <2>1. Holders' = Holders BY <1>1, HoldersMove
  <2> QED BY <1>1, <2>1 DEF CountInv, IsOpen
<1>2. CASE a \notin Holders /\ step \in Holding /\ NativeOpen(a)
  <2>1. IsFiniteSet(Holders)' /\ Cardinality(Holders)' = Cardinality(Holders) + 1
    BY <1>2, HoldersMove
  <2>2. engine'.handles = engine.handles + 1 /\ engine'.linked
    BY <1>2 DEF NativeOpen, IsOpen, FilesInv, TypesInv, Files, Results, CountInv
  <2> QED BY <2>1, <2>2 DEF CountInv
<1>3. CASE a \in Holders /\ step \notin Holding /\ NativeClose
  <2>1. /\ IsFiniteSet(Holders)' /\ Cardinality(Holders)' = Cardinality(Holders) - 1
        /\ Cardinality(Holders) > 0
    BY <1>3, HoldersMove
  <2>2. engine.handles > 0 BY <2>1 DEF CountInv
  <2>3. engine'.handles = engine.handles - 1
    BY <1>3, <2>2 DEF NativeClose, NotOpen, FilesInv, TypesInv, Files, Results
  <2>4. IsOpen' => engine'.linked
    BY <1>3, <2>2 DEF NativeClose, NotOpen, FilesInv, TypesInv, Files, Results, CountInv, IsOpen
  <2> QED BY <2>1, <2>3, <2>4 DEF CountInv
<1> QED BY <1>1, <1>2, <1>3

LEMMA StepsKeepCount ==
  ASSUME pc \in [Actors -> Steps], FilesInv, FailureInv, CountInv, Undisturbed, Undisturbed',
         \/ \E o \in Openers : OpenerStep(o) \/ SharedStep(o)
         \/ \E m \in Migrators : MigratorStep(m) \/ SharedStep(m)
  PROVE  CountInv'
<1>1. CASE \E a \in Actors : SharedStep(a)
  <2> PICK a \in Actors : SharedStep(a) BY <1>1
  <2>1. CASE Open(a)
    <3>1. a \notin Holders /\ AfterOpen(a) \in Holding
      BY <2>1 DEF Open, Holders, Holding, AfterOpen
    <3> QED BY <2>1, <3>1, CountMoves DEF Open, Goto
  <2>2. CASE OpenFails(a)
    <3>1. a \notin Holders /\ AfterFailure(a) \notin Holding
      BY <2>2 DEF OpenFails, Holders, Holding, AfterFailure
    <3> QED BY <2>2, <3>1, CountMoves DEF OpenFails, NativeOpenFails, Goto
  <2>3. CASE Setup(a)
    <3>1. a \in Holders /\ AfterSetup(a) \in Holding
      BY <2>3 DEF Setup, Holders, Holding, AfterSetup
    <3> QED BY <2>3, <3>1, CountMoves DEF Setup, Goto
  <2>4. CASE SetupFails(a)
    <3>1. a \in Holders /\ "undo" \in Holding BY <2>4 DEF SetupFails, Holders, Holding
    <3> QED BY <2>4, <3>1, CountMoves DEF SetupFails, Goto
  <2>5. CASE Undo(a)
    <3>1. a \in Holders /\ AfterFailure(a) \notin Holding
      BY <2>5 DEF Undo, Holders, Holding, AfterFailure
    <3> QED BY <2>5, <3>1, CountMoves DEF Undo, Goto
  <2> QED BY <2>1, <2>2, <2>3, <2>4, <2>5 DEF SharedStep
<1>2. CASE \E o \in Openers : OpenerStep(o)
  <2> PICK o \in Openers : OpenerStep(o) BY <1>2
  <2>0. o \in Actors BY DEF Actors
  <2>1. CASE Put(o)
    <3>1. Holders' = Holders BY <2>1 DEF Put, Holders
    <3> QED BY <2>1, <3>1 DEF Put, NativeWrite, CountInv, IsOpen
  <2>2. CASE Recheck(o)
    <3>1. /\ o \in Holders
          /\ \E step \in Holding : pc' = [pc EXCEPT ![o] = step]
      BY <2>0, <2>2 DEF Recheck, Goto, Holders, Holding
    <3> QED BY <2>0, <2>2, <3>1, CountMoves DEF Recheck
  <2>3. CASE CloseBox(o)
    <3>1. o \in Holders /\ "closed" \notin Holding BY <2>0, <2>3 DEF CloseBox, Holders, Holding
    <3> QED BY <2>0, <2>3, <3>1, CountMoves DEF CloseBox, Goto
  <2>4. CASE CheckMarker(o) \/ OnClose(o) \/ Again(o)
    <3>1. /\ o \notin Holders
          /\ \E step \in {"done", "open", "start"} : pc' = [pc EXCEPT ![o] = step]
      BY <2>4 DEF CheckMarker, OnClose, Again, Goto, Holders, Holding
    <3>2. {"done", "open", "start"} \cap Holding = {} BY DEF Holding
    <3> QED BY <2>0, <2>4, <3>1, <3>2, CountMoves DEF CheckMarker, OnClose, Again
  <2> QED BY <2>1, <2>2, <2>3, <2>4 DEF OpenerStep
<1>3. CASE \E m \in Migrators : MigratorStep(m)
  <2> PICK m \in Migrators : MigratorStep(m) BY <1>3
  <2>0. m \in Actors BY DEF Actors
  <2>1. CASE \/ CheckAbsent(m) \/ Reserve(m) \/ Verify(m) \/ Create(m)
             \/ AbortDelete(m) \/ Release(m)
    <3>1. /\ m \notin Holders
          /\ \E step \in Steps \ Holding : pc' = [pc EXCEPT ![m] = step]
      BY <2>1 DEF CheckAbsent, Reserve, Verify, Create, AbortDelete, Release, Goto, Holders,
                  Holding, Steps
    <3>2. UNCHANGED engine
      BY <2>1 DEF CheckAbsent, Reserve, Verify, Create, AbortDelete, Release
    <3> QED BY <2>0, <3>1, <3>2, CountMoves
  <2>2. CASE Migrate(m) \/ MigrateFails(m)
    <3>1. /\ m \in Holders
          /\ \E step \in Holding : pc' = [pc EXCEPT ![m] = step]
      BY <2>0, <2>2 DEF Migrate, MigrateFails, Goto, Holders, Holding
    <3>2. UNCHANGED engine BY <2>2 DEF Migrate, MigrateFails
    <3> QED BY <2>0, <3>1, <3>2, CountMoves
  <2>3. CASE CloseDestination(m)
    <3> DEFINE step == IF pc[m] = "finish" THEN "release" ELSE "abortDelete"
    <3>1. m \in Holders /\ step \notin Holding
      BY <2>0, <2>3 DEF CloseDestination, Holders, Holding
    <3>2. pc' = [pc EXCEPT ![m] = step] /\ NativeClose BY <2>3 DEF CloseDestination, Goto
    <3> HIDE DEF step
    <3> QED BY <2>0, <3>1, <3>2, CountMoves
  <2>4. ~CleanClose(m)
    BY DEF CleanClose, Undisturbed, FilesInv, TypesInv
  <2>5. ~CleanDelete(m) /\ ~CleanUnlink(m)
    BY DEF CleanDelete, CleanUnlink, Undisturbed, FailureInv
  <2> QED BY <2>1, <2>2, <2>3, <2>4, <2>5 DEF MigratorStep
<1> QED BY <1>1, <1>2, <1>3 DEF Actors

\* Opening a box, and failing to, write nothing.
LEMMA OpenAddsNothing ==
  ASSUME FilesInv, NEW a \in Actors, NativeOpen(a) \/ NativeOpenFails
  PROVE  file'.data \subseteq file.data
<1>1. CASE NativeOpenFails BY <1>1 DEF NativeOpenFails, NoFile
<1>2. CASE NativeOpen(a) /\ (IsOpen \/ file.exists)
  BY <1>2 DEF NativeOpen, FilesInv, TypesInv, Files, Results
<1>3. CASE NativeOpen(a) /\ ~IsOpen /\ ~file.exists
  <2>1. file' = [NewFile(a) EXCEPT !.table = TRUE] BY <1>3 DEF NativeOpen
  <2>2. file'.data = {} BY <2>1 DEF NewFile
  <2> QED BY <2>2
<1> QED BY <1>1, <1>2, <1>3

\* An ordinary open is stopped at its second look while a migration holds the
\* marker, and only an open that got past it writes.
LEMMA OpenersKeepPrivate ==
  ASSUME ReservationInv, FilesInv, PrivateInv, NEW o \in Openers, OpenerStep(o) \/ SharedStep(o)
  PROVE  PrivateInv'
<1> SUFFICES ASSUME NEW m \in Migrators
             PROVE  /\ pc'[m] \in {"create", "open", "setup", "migrate", "finish"} =>
                         \A p \in Openers : pc'[p] \notin {"setup", "held"}
                    /\ pc'[m] \in {"open", "setup", "migrate", "finish"} =>
                         file'.data \subseteq {m}
  BY DEF PrivateInv
<1>1. m # o /\ o \notin Migrators /\ m \in Actors /\ o \in Actors
  BY MigrationAssumption DEF Actors
<1>2. \E step : pc' = [pc EXCEPT ![o] = step]
  BY DEF OpenerStep, CheckMarker, Recheck, Put, CloseBox, OnClose, Again, SharedStep, Open,
         OpenFails, Setup, SetupFails, Undo, Goto, ReservationInv
<1>3. pc'[m] = pc[m] BY <1>1, <1>2 DEF ReservationInv
<1>4. ASSUME pc[m] \in {"create", "open", "setup", "migrate", "finish"}
      PROVE  /\ \A p \in Openers : pc'[p] \notin {"setup", "held"}
             /\ file'.data \subseteq file.data
  <2>1. reserved /\ pc[o] \notin {"setup", "held"}
    BY <1>4 DEF ReservationInv, ReservationExclusive, Reserving, PrivateInv
  <2>2. CASE OpenerStep(o)
    <3>1. pc'[o] \notin {"setup", "held"} /\ file' = file
      BY <1>1, <2>1, <2>2 DEF OpenerStep, CheckMarker, Recheck, MustBackOut, Put, CloseBox,
         OnClose, Again, Goto, ReservationInv
    <3> QED BY <1>2, <1>4, <3>1 DEF PrivateInv, ReservationInv, Actors
  <2>3. CASE SharedStep(o)
    <3>1. Open(o) \/ OpenFails(o) \/ Undo(o)
      BY <2>1, <2>3 DEF SharedStep, Setup, SetupFails
    <3>2. pc'[o] \notin {"setup", "held"}
      BY <1>1, <3>1 DEF Open, OpenFails, Undo, Goto, AfterOpen, AfterFailure, ReservationInv
    <3>3. file'.data \subseteq file.data
      BY <1>1, <3>1, OpenAddsNothing DEF Open, OpenFails, Undo
    <3> QED BY <1>2, <1>4, <3>2, <3>3 DEF PrivateInv, ReservationInv, Actors
  <2> QED BY <2>2, <2>3
<1> QED BY <1>3, <1>4 DEF PrivateInv

\* The one migration that holds the marker finds no ordinary open past its second
\* look when it verifies that the destination is absent, for there would be a file.
LEMMA MigratorsKeepPrivate ==
  ASSUME ReservationInv, ReservationInv', FilesInv, CountInv, PrivateInv,
         NEW m \in Migrators, MigratorStep(m) \/ SharedStep(m),
         ~CleanClose(m), ~CleanDelete(m), ~CleanUnlink(m)
  PROVE  PrivateInv'
<1> DEFINE Late == {"open", "setup", "migrate", "finish"}
<1>0. m \in Actors /\ m \notin Openers BY MigrationAssumption DEF Actors
<1>1. \E step : pc' = [pc EXCEPT ![m] = step]
  BY DEF MigratorStep, CheckAbsent, Reserve, Verify, Create, Migrate, MigrateFails,
         CloseDestination, AbortDelete, Release, CleanClose, CleanDelete, CleanUnlink,
         SharedStep, Open, OpenFails, Setup, SetupFails, Undo, Goto
<1>2. \A o \in Openers : pc'[o] = pc[o]
  BY <1>0, <1>1 DEF ReservationInv, Actors
<1>3. \A n \in Migrators \ {m} : pc'[n] = pc[n]
  BY <1>0, <1>1 DEF ReservationInv, Actors
<1>4. ASSUME pc'[m] \in {"create"} \cup Late
      PROVE  /\ \A n \in Migrators \ {m} : pc'[n] \notin {"create"} \cup Late
             /\ \A o \in Openers : pc'[o] \notin {"setup", "held"}
             /\ pc'[m] \in Late => file'.data \subseteq {m}
  <2>1. \A n \in Migrators \ {m} : pc'[n] \notin {"create"} \cup Late
    BY <1>4 DEF ReservationInv, ReservationExclusive, Reserving
  <2>2. Verify(m) \/ Create(m) \/ Open(m) \/ Setup(m) \/ Migrate(m)
    BY <1>0, <1>4
    DEF MigratorStep, CheckAbsent, Reserve, MigrateFails, CloseDestination, AbortDelete,
        Release, CleanClose, CleanDelete, CleanUnlink, SharedStep, OpenFails, SetupFails, Undo,
        Goto, AfterFailure, ReservationInv
  <2>3. CASE Verify(m)
    <3>1. pc'[m] = "create" /\ ~file.exists BY <1>0, <1>4, <2>3 DEF Verify, Goto, ReservationInv
    <3>2. engine.handles = 0 BY <3>1 DEF FilesInv, TypesInv, Files, Results, CountInv, IsOpen
    <3>3. Holders = {} BY <3>2, FS_EmptySet DEF CountInv
    <3>4. \A o \in Openers : pc[o] \notin {"setup", "held"}
      BY <3>3 DEF Holders, Holding, Actors
    <3> QED BY <1>2, <2>1, <3>1, <3>4
  <2>4. CASE Create(m)
    <3>1. ~file.exists /\ pc[m] = "create" BY <1>0, <1>4, <2>4 DEF Create, Goto, ReservationInv
    <3>2. file'.data = {} BY <2>4, <3>1 DEF Create, NewFile
    <3>3. \A o \in Openers : pc[o] \notin {"setup", "held"} BY <3>1 DEF PrivateInv
    <3> QED BY <1>2, <2>1, <3>2, <3>3
  <2>5. CASE Open(m) \/ Setup(m) \/ Migrate(m)
    <3>1. pc[m] \in Late BY <2>5 DEF Open, Setup, Migrate
    <3>2. file.data \subseteq {m} /\ \A o \in Openers : pc[o] \notin {"setup", "held"}
      BY <3>1 DEF PrivateInv
    <3>3. file'.data \subseteq file.data \cup {m}
      <4>1. CASE Open(m) BY <1>0, <4>1, OpenAddsNothing DEF Open
      <4>2. CASE Setup(m) BY <4>2 DEF Setup
      <4>3. CASE Migrate(m) BY <4>3 DEF Migrate, NativeWrite, FilesInv, TypesInv, Files, Results
      <4> QED BY <2>5, <4>1, <4>2, <4>3
    <3> QED BY <1>2, <2>1, <3>2, <3>3
  <2> QED BY <2>2, <2>3, <2>4, <2>5
<1>5. ASSUME NEW n \in Migrators \ {m}, pc'[n] \in {"create"} \cup Late
      PROVE  UNCHANGED file
  <2>1. Reserving(n) BY <1>3, <1>5 DEF Reserving
  <2>2. ~Reserving(m) BY <2>1 DEF ReservationInv, ReservationExclusive
  <2>3. CheckAbsent(m) \/ Reserve(m)
    BY <2>2 DEF Reserving, MigratorStep, Verify, Create, Migrate, MigrateFails,
         CloseDestination, AbortDelete, Release, CleanClose, CleanDelete, CleanUnlink,
         SharedStep, Open, OpenFails, Setup, SetupFails, Undo
  <2> QED BY <2>3 DEF CheckAbsent, Reserve
<1> QED BY <1>2, <1>3, <1>4, <1>5 DEF PrivateInv

LEMMA CrashKeepsCalm == TypesInv /\ FilesInv' /\ Crash => CalmInv'
<1> SUFFICES ASSUME TypesInv, FilesInv', Crash PROVE CalmInv' OBVIOUS
<1>1. FailureInv' BY DEF Crash, FailureInv, Actors
<1>2. Holders' = {} BY DEF Crash, Holders, Holding
<1>3. engine'.handles = 0 BY DEF Crash, NotOpen
<1>4. CountInv' BY <1>2, <1>3, FS_EmptySet DEF CountInv, IsOpen
<1>5. PrivateInv' BY DEF Crash, PrivateInv, Actors
<1> QED BY <1>1, <1>4, <1>5 DEF CalmInv

LEMMA CalmInvariance == ReservationInv /\ ReservationInv' /\ CalmInv /\ [Next]_vars => CalmInv'
<1> SUFFICES ASSUME ReservationInv, ReservationInv', CalmInv, [Next]_vars PROVE CalmInv'
  OBVIOUS
<1>0. pc \in [Actors -> Steps] /\ FilesInv /\ TypesInv /\ FailureInv
  BY DEF CalmInv, FilesInv, ReservationInv
<1>1. ASSUME NEW o \in Openers, OpenerStep(o) \/ SharedStep(o) PROVE CalmInv'
  <2>1. FilesInv' BY <1>0, <1>1, StepsKeepFiles
  <2>2. FailureInv' /\ (Undisturbed' => Undisturbed) BY <1>0, <1>1, StepsKeepMark
  <2>3. ASSUME Undisturbed' PROVE CountInv' /\ PrivateInv'
    BY <1>0, <1>1, <2>2, <2>3, StepsKeepCount, OpenersKeepPrivate DEF CalmInv
  <2> QED BY <2>1, <2>2, <2>3 DEF CalmInv
<1>2. ASSUME NEW m \in Migrators, Run(m) PROVE CalmInv'
  <2>0. MigratorStep(m) \/ SharedStep(m) BY <1>2 DEF Run
  <2>1. FilesInv' BY <1>0, <2>0, StepsKeepFiles
  <2>2. FailureInv' /\ (Undisturbed' => Undisturbed) BY <1>0, <2>0, StepsKeepMark
  <2>3. ASSUME Undisturbed' PROVE CountInv' /\ PrivateInv'
    <3>1. CountInv /\ PrivateInv /\ Undisturbed BY <2>2, <2>3 DEF CalmInv
    <3>2. ~CleanClose(m) BY <1>0, <2>3 DEF CleanClose, Undisturbed, TypesInv
    <3>3. ~CleanDelete(m) /\ ~CleanUnlink(m)
      BY <1>0, <3>1 DEF CleanDelete, CleanUnlink, Undisturbed, FailureInv
    <3> QED BY <1>0, <2>0, <2>3, <3>1, <3>2, <3>3, StepsKeepCount, MigratorsKeepPrivate
  <2> QED BY <2>1, <2>2, <2>3 DEF CalmInv
<1>3. CASE Crash
  BY <1>0, <1>3, StepsKeepFiles, CrashKeepsCalm
<1>4. CASE UNCHANGED vars
  BY <1>4 DEF vars, crashVars, CalmInv, FilesInv, TypesInv, FailureInv, CountInv, PrivateInv,
     Undisturbed, Holders, IsOpen
<1> QED BY <1>1, <1>2, <1>3, <1>4 DEF Next

LEMMA CalmAlways == Spec => [](ReservationInv /\ CalmInv)
  BY InitReservation, ReservationInvariance, InitCalm, CalmInvariance, PTL DEF Spec

\* The destination of a running migration is linked, open, and written by the
\* migration alone, however many ordinary opens come and go, until an openNew
\* fails (dxtr_box.dart:114-128, 235-263).
THEOREM DestinationStaysClean == Spec => []CleanDestination
<1>1. ReservationInv /\ CalmInv => CleanDestination
  <2> SUFFICES ASSUME ReservationInv, CalmInv, Undisturbed, NEW m \in Migrators,
                      pc[m] \in {"migrate", "finish"}
               PROVE  file.exists /\ file.data \subseteq {m} /\ IsOpen /\ engine.linked
    BY DEF CleanDestination
  <2>1. m \in Holders BY DEF Holders, Holding, Actors
  <2>2. Cardinality(Holders) > 0
    BY <2>1, FS_CardinalityType, FS_EmptySet DEF CalmInv, CountInv
  <2>3. IsOpen /\ engine.linked BY <2>2 DEF CalmInv, CountInv, IsOpen
  <2> QED BY <2>3 DEF CalmInv, FilesInv, PrivateInv
<1> QED BY <1>1, CalmAlways, PTL

\* No ordinary Box for the destination reaches the application while a migration
\* writes it (dxtr_box.dart:108-128), until an openNew fails.
THEOREM NobodyEscapes == Spec => []NoEscape
<1>1. CalmInv => NoEscape BY DEF CalmInv, PrivateInv, NoEscape
<1> QED BY <1>1, CalmAlways, PTL
=============================================================================
