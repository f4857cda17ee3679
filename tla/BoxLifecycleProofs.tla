------------------------- MODULE BoxLifecycleProofs -------------------------
(***************************************************************************)
(* The registry and its locks, for any number of threads, boxes, base      *)
(* paths and handles.                                                      *)
(***************************************************************************)
EXTENDS BoxLifecycle, FoldTheorems

-----------------------------------------------------------------------------
(* Initially.                                                              *)

LEMMA InitLifecycle == Init => LifecycleInv
<1> SUFFICES ASSUME Init PROVE LifecycleInv OBVIOUS
<1>1. StateTyped BY DEF Init, StateTyped, Steps, Unregistered, NoDb, Entries, Arcs
<1>2. StepMatchesCall /\ LocksAgree /\ LockedCallsHold
  BY DEF Init, StepMatchesCall, LocksAgree, LockedCallsHold, Critical, EncryptSteps,
         CompactSteps, UseSteps
<1>3. BoxInv
  BY DEF Init, BoxInv, CompactedAside, CompactionAlone, WritesReachRegisteredBox,
         OpenBoxHasFile, HeldInUse, Unregistered, NoDb, CompactSteps
<1> QED BY <1>1, <1>2, <1>3 DEF LifecycleInv, LockInv

-----------------------------------------------------------------------------
(* Types.                                                                  *)

LEMMA CallTyped ==
  ASSUME StateTyped, NEW t \in Threads, NEW op \in Ops, NEW r \in Roots, NEW n \in Names,
         Call(t, op, r, n)
  PROVE  StateTyped'
  BY DEF StateTyped, Call, Goto, FirstStep, registryVars, lockVars, Steps

\* What a call leaves behind is typed.
LEMMA LeaveTyped ==
  ASSUME StateTyped, NEW t \in Threads, Leave(t)
  PROVE  /\ pc' \in [Threads -> Steps]
         /\ task' \in [Threads -> [op : Ops, root : Roots, name : Names] \cup {NoTask}]
         /\ lock' \in [Threads -> Threads \cup {None}]
         /\ path' \in [Threads -> Roots \cup {None}]
         /\ owner' \in [Names \X Threads -> Threads \cup {None}]
         /\ mutationLocks' \in [Names -> Threads \cup {None}]
  BY DEF StateTyped, Leave, Goto, Steps

LEMMA ReturnTyped ==
  ASSUME StateTyped, NEW t \in Threads, Return(t)
  PROVE  arc' \in [Threads -> Arcs]
<1>1. NoDb \in Arcs BY DEF NoDb, Arcs
<1> QED BY <1>1 DEF StateTyped, Return

LEMMA LockStepsTyped ==
  ASSUME StateTyped, LocksAgree, StepMatchesCall, NEW t \in Threads,
         LockRead(t) \/ LockCreate(t) \/ LockAcquire(t)
  PROVE  StateTyped'
<1>1. NameOf(t) \in Names
  BY DEF LockRead, LockCreate, LockAcquire, StepMatchesCall, StateTyped, NameOf
<1>2. CASE LockRead(t)
  BY <1>1, <1>2 DEF LockRead, StateTyped, Goto, registryVars, Steps
<1>3. CASE LockCreate(t)
  BY <1>1, <1>3 DEF LockCreate, StateTyped, Goto, registryVars, Steps
<1>4. CASE LockAcquire(t)
  BY <1>1, <1>4 DEF LockAcquire, StateTyped, LocksAgree, Goto, registryVars, Steps, Calling
<1> QED BY <1>2, <1>3, <1>4

-----------------------------------------------------------------------------
(* Where a step leaves its thread: it waits for a lock, returns, or goes   *)
(* on with another step of its call.                                       *)

\* The steps a call may go on with.
Fits(op, step) ==
  \/ step = "initWrite" /\ op \in {"init", "open"}
  \/ step = "lockRead" /\ op = "open"
  \/ step \in EncryptSteps /\ op = "encrypt"
  \/ step \in CompactSteps /\ op = "compact"
  \/ step \in UseSteps /\ op \in {"read", "write"}

Advance(t, step) ==
  /\ Fits(task[t].op, step)
  /\ step = "initWrite" => pc[t] = "initCheck"
  /\ step = "lockRead" => pc[t] \in {"initCheck", "initWrite"}
  /\ step \notin {"initWrite", "lockRead"} => pc[t] \in {"enter"} \cup EncryptSteps
                                                \cup CompactSteps \cup UseSteps
  /\ pc' = [pc EXCEPT ![t] = step]
  /\ UNCHANGED <<mutationLocks, owner, lock, task, path>>

Proceeds(t) == \E step \in Steps : Advance(t, step)

LEMMA InitShape ==
  ASSUME NEW t \in Threads, InitCheck(t) \/ InitWrite(t), LockInv
  PROVE  Return(t) \/ (Proceeds(t) /\ UNCHANGED arc)
<1>1. task[t].op \in {"init", "open"} /\ pc[t] \in {"initCheck", "initWrite"}
  BY DEF InitCheck, InitWrite, LockInv, StepMatchesCall
<1>2. \/ Return(t)
      \/ /\ Calling(t, "open") /\ Goto(t, "lockRead")
         /\ UNCHANGED <<lockVars, task, path, arc>>
      \/ /\ pc[t] = "initCheck" /\ Goto(t, "initWrite")
         /\ UNCHANGED <<lockVars, task, path, arc>>
  BY DEF InitCheck, InitWrite, AfterInit
<1> QED BY <1>1, <1>2 DEF Goto, Proceeds, Advance, Fits, Calling, lockVars, Steps

LEMMA EncryptShape ==
  ASSUME NEW t \in Threads, EncryptStep(t), LockInv
  PROVE  Return(t) \/ Proceeds(t)
<1>1. task[t].op = "encrypt"
  BY DEF EncryptStep, EncryptEnter, EncryptMark, EncryptOpen, EncryptUnmark, Calling,
         LockInv, StepMatchesCall, EncryptSteps
<1> QED BY <1>1 DEF EncryptStep, EncryptEnter, EncryptMark, EncryptOpen, EncryptUnmark, Goto,
                    Proceeds, Advance, Fits, EncryptSteps, lockVars, Steps

LEMMA CompactShape ==
  ASSUME NEW t \in Threads, CompactStep(t), LockInv
  PROVE  Return(t) \/ Proceeds(t)
<1>1. task[t].op = "compact"
  BY DEF CompactStep, CompactEnter, CompactUnwrap, CompactReinsert, Calling,
         LockInv, StepMatchesCall, CompactSteps
<1> QED BY <1>1 DEF CompactStep, CompactEnter, CompactUnwrap, CompactReinsert, Goto,
                    Proceeds, Advance, Fits, CompactSteps, lockVars, Steps

LEMMA UseShape ==
  ASSUME NEW t \in Threads, UseStep(t), LockInv
  PROVE  Return(t) \/ Proceeds(t)
<1>1. task[t].op \in {"read", "write"}
  BY DEF UseStep, Find, FindCompacting, FindMigrating, Use, LockInv, StepMatchesCall, UseSteps
<1> QED BY <1>1 DEF UseStep, Find, FindCompacting, FindMigrating, Use, Goto,
                    Proceeds, Advance, Fits, UseSteps, lockVars, Steps

LEMMA OpenShape ==
  ASSUME NEW t \in Threads, OpenStep(t)
  PROVE  Leave(t)
  BY DEF OpenStep, OpenShared, OpenFile, OpenFails, Close, Delete, Return

\* A step other than the lock's either ends the call or goes on with it.
LEMMA RunShape ==
  ASSUME NEW t \in Threads, Run(t), LockInv
  PROVE  LockRead(t) \/ LockCreate(t) \/ Leave(t) \/ Proceeds(t)
  BY InitShape, EncryptShape, CompactShape, UseShape, OpenShape DEF Run, Return

-----------------------------------------------------------------------------
(* Types, continued.                                                       *)

LEMMA ControlTyped ==
  ASSUME StateTyped, NEW t \in Threads, Leave(t) \/ Proceeds(t)
  PROVE  /\ pc' \in [Threads -> Steps]
         /\ task' \in [Threads -> [op : Ops, root : Roots, name : Names] \cup {NoTask}]
         /\ lock' \in [Threads -> Threads \cup {None}]
         /\ path' \in [Threads -> Roots \cup {None}]
         /\ owner' \in [Names \X Threads -> Threads \cup {None}]
         /\ mutationLocks' \in [Names -> Threads \cup {None}]
<1>1. CASE Leave(t) BY <1>1, LeaveTyped
<1>2. CASE Proceeds(t) BY <1>2 DEF StateTyped, Proceeds, Advance
<1> QED BY <1>1, <1>2

LEMMA MadeOfTyped ==
  ASSUME StateTyped, NEW n \in Names
  PROVE  /\ Unregistered \in Entries
         /\ Released(databases[n]) \in Entries
         /\ [databases[n] EXCEPT !.handles = @ + 1] \in Entries
         /\ \A r \in Roots \cup {None} :
              /\ [open |-> TRUE, handles |-> 1, root |-> r] \in Entries
              /\ Linked(r) \in Arcs /\ [root |-> r, linked |-> FALSE] \in Arcs
         /\ databases[n].root \in Roots \cup {None}
<1>1. databases[n] \in Entries BY DEF StateTyped
<1> QED BY <1>1 DEF Entries, Arcs, Unregistered, Released, Linked

LEMMA RegistryTyped ==
  ASSUME LockInv, NEW t \in Threads, Run(t)
  PROVE  /\ basePath' \in Roots \cup {None}
         /\ databases' \in [Names -> Entries]
         /\ arc' \in [Threads -> Arcs]
<1> DEFINE n == NameOf(t)
<1>1. /\ pc[t] # "idle"
      /\ task[t] \in [op : Ops, root : Roots, name : Names]
      /\ n \in Names
  <2>1. pc[t] # "idle"
    BY DEF Run, InitCheck, InitWrite, LockRead, LockCreate, OpenStep, EncryptStep, CompactStep,
           UseStep, OpenShared, OpenFile, OpenFails, Close, Delete, EncryptEnter, EncryptMark,
           EncryptOpen, EncryptUnmark, CompactEnter, CompactUnwrap, CompactReinsert, Find,
           FindCompacting, FindMigrating, Use
  <2> QED BY <2>1 DEF LockInv, StateTyped, StepMatchesCall, NameOf
<1>2. /\ basePath \in Roots \cup {None} /\ databases \in [Names -> Entries]
      /\ arc \in [Threads -> Arcs] /\ path[t] \in Roots \cup {None} /\ task[t].root \in Roots
      /\ arc[t].root \in Roots \cup {None}
      /\ Return(t) => arc' \in [Threads -> Arcs]
  BY <1>1, ReturnTyped DEF LockInv, StateTyped, Arcs
<1>3. /\ Unregistered \in Entries /\ Released(databases[n]) \in Entries
      /\ [databases[n] EXCEPT !.handles = @ + 1] \in Entries
      /\ \A r \in Roots \cup {None} :
           /\ [open |-> TRUE, handles |-> 1, root |-> r] \in Entries
           /\ Linked(r) \in Arcs /\ [root |-> r, linked |-> FALSE] \in Arcs
      /\ databases[n].root \in Roots \cup {None}
  BY <1>1, MadeOfTyped DEF LockInv
<1>4. CASE InitCheck(t) \/ InitWrite(t)
  <2>1. Return(t) \/ UNCHANGED arc BY <1>4, InitShape
  <2>2. UNCHANGED databases /\ basePath' \in {basePath, task[t].root}
    BY <1>4 DEF InitCheck, InitWrite, registryVars
  <2> QED BY <1>2, <2>1, <2>2
<1>5. CASE LockRead(t) \/ LockCreate(t)
  BY <1>2, <1>5 DEF LockRead, LockCreate, registryVars
<1>6. CASE OpenStep(t)
  <2>1. UNCHANGED basePath
    BY <1>6 DEF OpenStep, OpenShared, OpenFile, OpenFails, Close, Delete
  <2>2. CASE Delete(t)
    <3>1. UNCHANGED databases BY <2>2 DEF Delete
    <3>2. Unlinked(path[t], n) \in [Threads -> Arcs]
      BY <1>2, <1>3 DEF Unlinked
    <3>3. arc' \in {Unlinked(path[t], n), arc} BY <2>2 DEF Delete
    <3> QED BY <1>2, <2>1, <3>1, <3>2, <3>3
  <2>3. CASE OpenShared(t) \/ OpenFile(t) \/ OpenFails(t) \/ Close(t)
    <3>1. Return(t) BY <2>3 DEF OpenShared, OpenFile, OpenFails, Close
    <3>2. \/ UNCHANGED databases
          \/ databases' = [databases EXCEPT ![n] = [databases[n] EXCEPT !.handles = @ + 1]]
          \/ databases' = [databases EXCEPT ![n] = Released(databases[n])]
          \/ databases' = [databases EXCEPT ![n] =
                             [open |-> TRUE, handles |-> 1, root |-> path[t]]]
      <4>1. CASE OpenShared(t) BY <4>1 DEF OpenShared
      <4>2. CASE OpenFile(t) BY <4>2 DEF OpenFile
      <4>3. CASE OpenFails(t) BY <4>3 DEF OpenFails
      <4>4. CASE Close(t) BY <4>4 DEF Close
      <4> QED BY <2>3, <4>1, <4>2, <4>3, <4>4
    <3> QED BY <1>1, <1>2, <1>3, <2>1, <3>1, <3>2
  <2> QED BY <1>6, <2>2, <2>3 DEF OpenStep
<1>7. CASE EncryptStep(t)
  <2>1. UNCHANGED <<basePath, databases>>
    BY <1>7 DEF EncryptStep, EncryptEnter, EncryptMark, EncryptOpen, EncryptUnmark, registryVars
  <2>2. Return(t) \/ UNCHANGED arc \/ arc' = [arc EXCEPT ![t] = Linked(path[t])]
    BY <1>7 DEF EncryptStep, EncryptEnter, EncryptMark, EncryptOpen, EncryptUnmark
  <2> QED BY <1>2, <1>3, <2>1, <2>2
<1>8. CASE CompactStep(t)
  <2>1. UNCHANGED basePath
    BY <1>8 DEF CompactStep, CompactEnter, CompactUnwrap, CompactReinsert, registryVars
  <2>2. \/ UNCHANGED databases
        \/ databases' = [databases EXCEPT ![n] = Unregistered]
        \/ databases' = [databases EXCEPT ![n] =
                           [open |-> TRUE, handles |-> 1, root |-> arc[t].root]]
    BY <1>8 DEF CompactStep, CompactEnter, CompactUnwrap, CompactReinsert, registryVars
  <2>3. \/ Return(t) \/ UNCHANGED arc
        \/ arc' = [arc EXCEPT ![t] = Linked(databases[n].root)]
    BY <1>8 DEF CompactStep, CompactEnter, CompactUnwrap, CompactReinsert
  <2> QED BY <1>1, <1>2, <1>3, <2>1, <2>2, <2>3
<1>9. CASE UseStep(t)
  <2>1. UNCHANGED <<basePath, databases>>
    BY <1>9 DEF UseStep, Find, FindCompacting, FindMigrating, Use, registryVars
  <2>2. \/ Return(t) \/ UNCHANGED arc
        \/ arc' = [arc EXCEPT ![t] = Linked(databases[n].root)]
    BY <1>9 DEF UseStep, Find, FindCompacting, FindMigrating, Use
  <2> QED BY <1>2, <1>3, <2>1, <2>2
<1> QED BY <1>4, <1>5, <1>6, <1>7, <1>8, <1>9 DEF Run

LEMMA RunTyped ==
  ASSUME LockInv, NEW t \in Threads, Run(t)
  PROVE  StateTyped'
<1>1. CASE LockRead(t) \/ LockCreate(t) BY <1>1, LockStepsTyped DEF LockInv
<1>2. CASE Leave(t) \/ Proceeds(t)
  BY <1>2, RegistryTyped, ControlTyped DEF LockInv, StateTyped
<1> QED BY <1>1, <1>2, RunShape

-----------------------------------------------------------------------------
(* The locks.                                                              *)

LEMMA CallLocks ==
  ASSUME LockInv, NEW t \in Threads, NEW op \in Ops, NEW r \in Roots, NEW n \in Names,
         Call(t, op, r, n)
  PROVE  LockInv'
<1>1. StateTyped' BY CallTyped DEF LockInv
<1>2. /\ pc[t] = "idle" /\ lock[t] = None /\ UNCHANGED <<lock, owner, mutationLocks>>
      /\ task' = [task EXCEPT ![t] = [op |-> op, root |-> r, name |-> n]]
      /\ pc' = [pc EXCEPT ![t] = FirstStep(op)]
  BY DEF Call, Goto, lockVars, LockInv, LocksAgree
<1>3. /\ FirstStep(op) = "initCheck" => op \in {"init", "open"}
      /\ FirstStep(op) = "find" => op = "read"
      /\ FirstStep(op) = "lockRead" => op \in Locked
      /\ FirstStep(op) \in {"initCheck", "find", "lockRead"}
  BY DEF FirstStep, Ops, Locked
<1>4. op # "none" /\ Locked \subseteq Ops BY DEF Ops, Locked
<1>5. StepMatchesCall'
  BY <1>2, <1>3, <1>4 DEF LockInv, StateTyped, StepMatchesCall, NoTask, EncryptSteps,
                          CompactSteps, UseSteps
<1>6. LocksAgree'
  BY <1>2, <1>3 DEF LockInv, StateTyped, LocksAgree, NameOf
<1>7. LockedCallsHold'
  BY <1>2, <1>3 DEF LockInv, StateTyped, LockedCallsHold, Critical, Holds, NameOf, Locked,
                    EncryptSteps, CompactSteps, UseSteps
<1> QED BY <1>1, <1>5, <1>6, <1>7 DEF LockInv

\* A call that ends frees its own lock and no other.
LEMMA LeaveLocks ==
  ASSUME LockInv, NEW t \in Threads, Leave(t), StateTyped'
  PROVE  LockInv'
<1>1. /\ pc' = [pc EXCEPT ![t] = "idle"] /\ task' = [task EXCEPT ![t] = NoTask]
      /\ lock' = [lock EXCEPT ![t] = None] /\ UNCHANGED mutationLocks
  BY DEF Leave, Goto
<1>2. StepMatchesCall'
  BY <1>1 DEF LockInv, StateTyped, StepMatchesCall, EncryptSteps, CompactSteps, UseSteps
<1>3. LocksAgree'
  BY <1>1 DEF LockInv, StateTyped, LocksAgree, NameOf
<1>4. ASSUME NEW u \in Threads, Critical(u)' PROVE Holds(u)'
  <2>1. u # t /\ Critical(u)
    BY <1>1, <1>4 DEF LockInv, StateTyped, Critical, EncryptSteps, CompactSteps, UseSteps
  <2>2. Holds(u) BY <2>1 DEF LockInv, LockedCallsHold
  <2>3. NameOf(u)' = NameOf(u) /\ lock'[u] = lock[u]
    BY <1>1, <2>1 DEF LockInv, StateTyped, NameOf
  <2>4. NameOf(u) \in Names /\ lock[u] \in Threads
    BY <2>1, <2>2 DEF LockInv, StateTyped, StepMatchesCall, Critical, Holds, NameOf, NoTask, Locked,
                      Ops
  <2>5. owner'[<<NameOf(u), lock[u]>>] = owner[<<NameOf(u), lock[u]>>]
    <3>1. CASE ~Holds(t) BY <3>1 DEF Leave
    <3>2. CASE Holds(t)
      <4>1. owner' = [owner EXCEPT ![<<NameOf(t), lock[t]>>] = None] BY <3>2 DEF Leave
      <4>2. owner[<<NameOf(t), lock[t]>>] = t /\ owner[<<NameOf(u), lock[u]>>] = u
        BY <2>2, <3>2 DEF Holds
      <4>3. <<NameOf(u), lock[u]>> # <<NameOf(t), lock[t]>> BY <2>1, <4>2
      <4>4. <<NameOf(u), lock[u]>> \in Names \X Threads BY <2>4
      <4> QED BY <4>1, <4>3, <4>4 DEF LockInv, StateTyped
    <3> QED BY <3>1, <3>2
  <2> QED BY <2>2, <2>3, <2>5 DEF Holds
<1> QED BY <1>2, <1>3, <1>4 DEF LockInv, LockedCallsHold

\* A call that goes on keeps its lock.
LEMMA ProceedLocks ==
  ASSUME LockInv, NEW t \in Threads, Proceeds(t), StateTyped'
  PROVE  LockInv'
<1>1. PICK step \in Steps : Advance(t, step) BY DEF Proceeds
<1>2. /\ pc' = [pc EXCEPT ![t] = step] /\ UNCHANGED <<mutationLocks, owner, lock, task>>
      /\ Fits(task[t].op, step)
  BY <1>1 DEF Advance
<1>3. task[t] # NoTask
  BY <1>2 DEF Fits, NoTask
<1>4. StepMatchesCall'
  BY <1>2, <1>3 DEF LockInv, StateTyped, StepMatchesCall, Fits, EncryptSteps, CompactSteps,
                    UseSteps, Locked, Ops
<1>5. LocksAgree'
  BY <1>1, <1>2 DEF LockInv, StateTyped, LocksAgree, NameOf, Advance, Fits, EncryptSteps,
                    CompactSteps, UseSteps
<1>6. ASSUME NEW u \in Threads, Critical(u)' PROVE Holds(u)'
  <2>1. Critical(u)
    BY <1>1, <1>2, <1>6 DEF LockInv, StateTyped, Critical, Advance, EncryptSteps, CompactSteps,
                            UseSteps
  <2> QED BY <1>2, <2>1 DEF LockInv, LockedCallsHold, Holds, NameOf
<1> QED BY <1>4, <1>5, <1>6 DEF LockInv, LockedCallsHold

\* Fetching the lock, making it when it is not there, and taking it.
LEMMA FetchLocks ==
  ASSUME LockInv, NEW t \in Threads, LockRead(t) \/ LockCreate(t), StateTyped'
  PROVE  LockInv'
<1>1. NameOf(t) \in Names /\ task[t] # NoTask /\ task[t].op \in Locked
  BY DEF LockRead, LockCreate, LockInv, StepMatchesCall, StateTyped, NameOf
<1>2. \E step \in {"lockCreate", "lockAcquire"} : pc' = [pc EXCEPT ![t] = step]
  BY DEF LockRead, LockCreate, Goto
<1>3. UNCHANGED <<owner, task>> BY DEF LockRead, LockCreate
<1>4. lock' = [lock EXCEPT ![t] = mutationLocks'[NameOf(t)]]
  BY DEF LockRead, LockCreate
<1>5. \A n \in Names : mutationLocks[n] # None => mutationLocks'[n] = mutationLocks[n]
  BY <1>1 DEF LockRead, LockCreate, LockInv, StateTyped
<1>6. pc'[t] = "lockAcquire" => lock'[t] # None
  BY <1>1, LifecycleAssumption DEF LockRead, LockCreate, Goto, LockInv, StateTyped
<1>7. StepMatchesCall'
  BY <1>1, <1>2, <1>3 DEF LockInv, StateTyped, StepMatchesCall, EncryptSteps, CompactSteps,
                          UseSteps
<1>8. LocksAgree'
  <2> SUFFICES ASSUME NEW u \in Threads
               PROVE  /\ lock'[u] # None => lock'[u] = mutationLocks'[NameOf(u)]
                      /\ pc'[u] = "lockAcquire" => lock'[u] # None
                      /\ pc'[u] \in {"idle", "initCheck", "initWrite"} => lock'[u] = None
    BY <1>3 DEF LocksAgree, NameOf
  <2>1. CASE u = t
    BY <1>2, <1>4, <1>6, <2>1 DEF LockInv, StateTyped
  <2>2. CASE u # t
    <3>1. lock'[u] = lock[u] /\ pc'[u] = pc[u]
      BY <1>2, <1>4, <2>2 DEF LockInv, StateTyped
    <3>2. lock[u] # None => NameOf(u) \in Names
      BY DEF LockInv, StateTyped, LocksAgree, StepMatchesCall, NameOf
    <3> QED BY <1>5, <3>1, <3>2 DEF LockInv, LocksAgree
  <2> QED BY <2>1, <2>2
<1>9. ASSUME NEW u \in Threads, Critical(u)' PROVE Holds(u)'
  <2>1. u # t /\ Critical(u)
    BY <1>2, <1>3, <1>9 DEF LockInv, StateTyped, Critical, EncryptSteps, CompactSteps, UseSteps
  <2>2. lock'[u] = lock[u] BY <1>4, <2>1 DEF LockInv, StateTyped
  <2> QED BY <1>3, <2>1, <2>2 DEF LockInv, LockedCallsHold, Holds, NameOf
<1> QED BY <1>7, <1>8, <1>9 DEF LockInv, LockedCallsHold

LEMMA AcquireLocks ==
  ASSUME LockInv, NEW t \in Threads, LockAcquire(t), StateTyped'
  PROVE  LockInv'
<1>1. /\ NameOf(t) \in Names /\ lock[t] \in Threads /\ task[t].op \in Locked
      /\ task[t] # NoTask
  BY DEF LockAcquire, LockInv, StepMatchesCall, LocksAgree, StateTyped, NameOf
<1>2. /\ UNCHANGED <<mutationLocks, lock, task>>
      /\ owner[<<NameOf(t), lock[t]>>] = None
      /\ owner' = [owner EXCEPT ![<<NameOf(t), lock[t]>>] = t]
      /\ pc' = [pc EXCEPT ![t] = IF Calling(t, "write") THEN "find" ELSE "enter"]
  BY DEF LockAcquire, Goto
<1>3. StepMatchesCall'
  BY <1>1, <1>2 DEF LockInv, StateTyped, StepMatchesCall, Calling, EncryptSteps, CompactSteps,
                    UseSteps
<1>4. LocksAgree'
  BY <1>1, <1>2 DEF LockInv, StateTyped, LocksAgree, NameOf
<1>5. ASSUME NEW u \in Threads, Critical(u)' PROVE Holds(u)'
  <2>1. CASE u = t
    <3>1. owner'[<<NameOf(t), lock[t]>>] = t
      BY <1>1, <1>2 DEF LockInv, StateTyped
    <3>2. lock[t] # None BY <1>1, LifecycleAssumption
    <3> QED BY <1>2, <2>1, <3>1, <3>2 DEF Holds, NameOf
  <2>2. CASE u # t
    <3>1. Critical(u) BY <1>2, <1>5, <2>2 DEF LockInv, StateTyped, Critical
    <3>2. Holds(u) BY <3>1 DEF LockInv, LockedCallsHold
    <3>3. u # None BY LifecycleAssumption
    <3>4. <<NameOf(u), lock[u]>> # <<NameOf(t), lock[t]>>
      BY <1>2, <3>2, <3>3 DEF Holds
    <3>5. owner'[<<NameOf(u), lock[u]>>] = u
      <4>1. NameOf(u) \in Names /\ lock[u] \in Threads
        BY <3>1, <3>2 DEF LockInv, StateTyped, StepMatchesCall, Critical, Holds, NameOf, NoTask,
                          Locked, Ops
      <4>2. <<NameOf(u), lock[u]>> \in Names \X Threads BY <4>1
      <4> QED BY <1>2, <3>2, <3>4, <4>2 DEF Holds, LockInv, StateTyped
    <3> QED BY <1>2, <3>2, <3>5 DEF Holds, NameOf
  <2> QED BY <2>1, <2>2
<1> QED BY <1>3, <1>4, <1>5 DEF LockInv, LockedCallsHold

LEMMA LockInvariance == LockInv /\ [Next]_vars => LockInv'
<1> SUFFICES ASSUME LockInv, [Next]_vars PROVE LockInv' OBVIOUS
<1>1. ASSUME NEW t \in Threads, NEW op \in Ops, NEW r \in Roots, NEW n \in Names,
             Call(t, op, r, n)
      PROVE  LockInv'
  BY <1>1, CallLocks
<1>2. ASSUME NEW t \in Threads, LockAcquire(t) PROVE LockInv'
  BY <1>2, AcquireLocks, LockStepsTyped DEF LockInv
<1>3. ASSUME NEW t \in Threads, Run(t) PROVE LockInv'
  BY <1>3, RunShape, RunTyped, FetchLocks, LeaveLocks, ProceedLocks
<1>4. CASE UNCHANGED vars
  BY <1>4 DEF vars, registryVars, lockVars, threadVars, LockInv, StateTyped, StepMatchesCall,
              LocksAgree, LockedCallsHold, Critical, Holds, NameOf
<1> QED BY <1>1, <1>2, <1>3, <1>4 DEF Next

\* Two calls that hold a lock of the same box hold the same lock.
LEMMA OneHolder ==
  ASSUME LocksAgree, NEW t \in Threads, NEW u \in Threads, Holds(t), Holds(u),
         NameOf(t) = NameOf(u)
  PROVE  t = u
  BY DEF LocksAgree, Holds

\* At most one locked call runs on a box, however many threads race to create
\* its lock (core.rs:43-66).
THEOREM MutationsExclude == Spec => []MutationExclusive
<1>1. LockInv => MutationExclusive
  BY OneHolder DEF LockInv, MutationExclusive, InSection
<1>2. Init => LockInv BY InitLifecycle DEF LifecycleInv
<1> QED BY <1>1, <1>2, LockInvariance, PTL DEF Spec

-----------------------------------------------------------------------------
(* The boxes.                                                              *)

\* Two calls under the lock of a box are one.
LEMMA Exclusion ==
  ASSUME LockInv, NEW t \in Threads, NEW u \in Threads, Critical(t), Critical(u),
         NameOf(t) = NameOf(u)
  PROVE  t = u
  BY OneHolder DEF LockInv, LockedCallsHold

\* The thread does nothing to the others.
Others(t) ==
  \A u \in Threads \ {t} : pc'[u] = pc[u] /\ task'[u] = task[u] /\ arc'[u] = arc[u]

\* The thread is left without a database on disk.
Departs(t) ==
  Others(t) /\ ~arc'[t].linked /\ pc'[t] \notin CompactSteps \cup {"use"}

\* Entries a step may leave in the registry: neither busy nor without a file.
EntriesSound ==
  \A n \in Names :
    databases'[n].open => n \notin compacting' /\ <<databases'[n].root, n>> \in files'

\* A writer in flight keeps the entry it works on.
WritersKept(t) ==
  \A u \in Threads \ {t} :
    pc[u] = "use" /\ Calling(u, "write") =>
      /\ databases'[NameOf(u)].open = databases[NameOf(u)].open
      /\ databases'[NameOf(u)].root = databases[NameOf(u)].root

\* A box in compaction stays marked and on disk.
CompactorsKept(t) ==
  \A u \in Threads \ {t} :
    pc[u] \in CompactSteps =>
      NameOf(u) \in compacting' /\ <<arc[u].root, NameOf(u)>> \in files'

LEMMA DepartBoxes ==
  ASSUME LockInv, BoxInv, NEW t \in Threads, Departs(t), compacting' \subseteq Names,
         EntriesSound, WritersKept(t), CompactorsKept(t)
  PROVE  BoxInv'
<1>1. \A u \in Threads \ {t} : NameOf(u)' = NameOf(u) BY DEF Departs, Others, NameOf
<1>2. CompactedAside'
  <2>1. ASSUME NEW u \in Threads, pc'[u] \in CompactSteps
        PROVE  /\ NameOf(u)' \in compacting'
               /\ arc'[u].linked /\ <<arc'[u].root, NameOf(u)'>> \in files'
    <3>1. u # t BY <2>1 DEF Departs
    <3> QED BY <1>1, <2>1, <3>1 DEF Departs, Others, CompactorsKept, BoxInv, CompactedAside
  <2> QED BY <2>1 DEF EntriesSound, CompactedAside
<1>3. HeldInUse'
  BY DEF Departs, Others, BoxInv, HeldInUse
<1>4. CompactionAlone'
  <2> SUFFICES ASSUME NEW v \in Threads, pc'[v] \in CompactSteps, NEW u \in Threads \ {v},
                      NameOf(u)' = NameOf(v)'
               PROVE  arc'[u] # arc'[v]
    BY DEF CompactionAlone, CompactSteps
  <2>1. v # t BY DEF Departs
  <2>2. pc[v] \in CompactSteps /\ arc'[v] = arc[v] BY <2>1 DEF Departs, Others
  <2>3. CASE u = t
    BY <2>2, <2>3 DEF Departs, BoxInv, CompactedAside
  <2>4. CASE u # t
    BY <1>1, <2>1, <2>2, <2>4 DEF Departs, Others, BoxInv, CompactionAlone, CompactSteps
  <2> QED BY <2>3, <2>4
<1>5. WritesReachRegisteredBox'
  <2> SUFFICES ASSUME NEW u \in Threads, pc'[u] = "use", Calling(u, "write")'
               PROVE  databases'[NameOf(u)'].open
                      /\ arc'[u] = Linked(databases'[NameOf(u)'].root)
    BY DEF WritesReachRegisteredBox, Linked, NameOf
  <2>1. u # t BY DEF Departs
  <2>2. pc[u] = "use" /\ Calling(u, "write") /\ arc'[u] = arc[u]
    BY <2>1 DEF Departs, Others, Calling
  <2> QED BY <1>1, <2>1, <2>2 DEF WritersKept, BoxInv, WritesReachRegisteredBox, Linked
<1>6. OpenBoxHasFile'
  BY DEF EntriesSound, OpenBoxHasFile
<1> QED BY <1>2, <1>3, <1>4, <1>5, <1>6 DEF BoxInv

\* A step that leaves the boxes as they were, and its thread without a database.
Quiet(t) ==
  /\ \A n \in Names : /\ databases'[n].open = databases[n].open
                      /\ databases'[n].root = databases[n].root
  /\ compacting' = compacting
  /\ files \subseteq files'
  /\ Departs(t)

LEMMA QuietBoxes ==
  ASSUME LockInv, BoxInv, NEW t \in Threads, Quiet(t)
  PROVE  BoxInv'
<1>1. compacting' \subseteq Names BY DEF Quiet, BoxInv, CompactedAside
<1>2. EntriesSound
  BY DEF Quiet, EntriesSound, BoxInv, CompactedAside, OpenBoxHasFile
<1>3. WritersKept(t)
  BY DEF Quiet, WritersKept, LockInv, StateTyped, StepMatchesCall, NameOf
<1>4. CompactorsKept(t)
  BY DEF Quiet, CompactorsKept, BoxInv, CompactedAside
<1> QED BY <1>1, <1>2, <1>3, <1>4, DepartBoxes DEF Quiet

LEMMA ReturnDeparts ==
  ASSUME LockInv, NEW t \in Threads, Return(t)
  PROVE  Departs(t)
  BY DEF Return, Leave, Goto, NoDb, Departs, Others, CompactSteps, LockInv, StateTyped

\* A step that moves its thread on, without a database, and touches no box.
LEMMA GotoDeparts ==
  ASSUME LockInv, BoxInv, NEW t \in Threads, NEW step \in Steps,
         pc[t] \notin {"encUnmark", "use"} \cup CompactSteps,
         step \notin {"use"} \cup CompactSteps,
         Goto(t, step), UNCHANGED <<task, arc>>
  PROVE  Departs(t)
  BY DEF Goto, Departs, Others, LockInv, StateTyped, BoxInv, HeldInUse

-----------------------------------------------------------------------------
(* Steps that leave the boxes alone.                                       *)

LEMMA CallBoxes ==
  ASSUME LockInv, BoxInv, NEW t \in Threads, NEW op \in Ops, NEW r \in Roots, NEW n \in Names,
         Call(t, op, r, n)
  PROVE  BoxInv'
<1>1. Departs(t)
  <2>1. ~arc[t].linked BY DEF Call, BoxInv, HeldInUse, CompactSteps
  <2> QED BY <2>1 DEF Call, Goto, FirstStep, Departs, Others, CompactSteps, LockInv, StateTyped
<1> QED BY <1>1, QuietBoxes DEF Call, Quiet, registryVars

LEMMA WaitBoxes ==
  ASSUME LockInv, BoxInv, NEW t \in Threads, LockRead(t) \/ LockCreate(t) \/ LockAcquire(t)
  PROVE  BoxInv'
<1>1. pc[t] \in {"lockRead", "lockCreate", "lockAcquire"} /\ UNCHANGED <<registryVars, task, arc>>
  BY DEF LockRead, LockCreate, LockAcquire
<1>2. \E step \in {"lockCreate", "lockAcquire", "find", "enter"} : Goto(t, step)
  BY DEF LockRead, LockCreate, LockAcquire, Goto
<1>3. Departs(t) BY <1>1, <1>2, GotoDeparts DEF CompactSteps, Steps
<1> QED BY <1>1, <1>3, QuietBoxes DEF Quiet, registryVars

LEMMA InitBoxes ==
  ASSUME LockInv, BoxInv, NEW t \in Threads, InitCheck(t) \/ InitWrite(t)
  PROVE  BoxInv'
<1>1. pc[t] \in {"initCheck", "initWrite"} /\ UNCHANGED <<databases, compacting, files>>
  BY DEF InitCheck, InitWrite, registryVars
<1>2. \/ Return(t)
      \/ \E step \in {"lockRead", "initWrite"} : Goto(t, step) /\ UNCHANGED <<task, arc>>
  BY DEF InitCheck, InitWrite, AfterInit
<1>3. Departs(t) BY <1>1, <1>2, ReturnDeparts, GotoDeparts DEF CompactSteps, Steps
<1> QED BY <1>1, <1>3, QuietBoxes DEF Quiet

LEMMA EncryptBoxes ==
  ASSUME LockInv, BoxInv, NEW t \in Threads,
         EncryptEnter(t) \/ EncryptMark(t) \/ EncryptUnmark(t)
  PROVE  BoxInv'
<1>1. UNCHANGED <<databases, compacting, files>>
  BY DEF EncryptEnter, EncryptMark, EncryptUnmark, registryVars
<1>2. \/ Return(t)
      \/ /\ pc[t] \in {"enter", "encMark"}
         /\ \E step \in {"encMark", "encOpen"} : Goto(t, step) /\ UNCHANGED <<task, arc>>
  BY DEF EncryptEnter, EncryptMark, EncryptUnmark
<1>3. Departs(t) BY <1>2, ReturnDeparts, GotoDeparts DEF CompactSteps, Steps
<1> QED BY <1>1, <1>3, QuietBoxes DEF Quiet

LEMMA UseBoxes ==
  ASSUME LockInv, BoxInv, NEW t \in Threads, FindCompacting(t) \/ FindMigrating(t) \/ Use(t)
  PROVE  BoxInv'
<1>1. UNCHANGED registryVars BY DEF FindCompacting, FindMigrating, Use
<1>2. \/ Return(t)
      \/ /\ pc[t] = "findCompacting"
         /\ Goto(t, "findMigrating") /\ UNCHANGED <<task, arc>>
  BY DEF FindCompacting, FindMigrating, Use
<1>3. Departs(t) BY <1>2, ReturnDeparts, GotoDeparts DEF CompactSteps, Steps
<1> QED BY <1>1, <1>3, QuietBoxes DEF Quiet, registryVars

-----------------------------------------------------------------------------
(* open and close.                                                         *)

\* A thread at work under the lock of its box shuts out the writers and the
\* compaction of that box.
LEMMA OthersElsewhere ==
  ASSUME LockInv, NEW t \in Threads, Critical(t), pc[t] # "use",
         NEW u \in Threads \ {t},
         pc[u] \in CompactSteps \/ (pc[u] = "use" /\ Calling(u, "write"))
  PROVE  NameOf(u) # NameOf(t) /\ NameOf(u) \in Names
<1>1. Critical(u)
  BY DEF LockInv, StepMatchesCall, Critical, Calling, CompactSteps, UseSteps, Locked, Ops
<1>2. NameOf(u) \in Names
  BY <1>1 DEF LockInv, StateTyped, StepMatchesCall, Critical, NameOf, NoTask, Locked, Ops
<1> QED BY <1>1, <1>2, Exclusion

LEMMA EnterCritical ==
  ASSUME LockInv, NEW t \in Threads, pc[t] \in {"enter"} \cup EncryptSteps \cup CompactSteps
  PROVE  Critical(t) /\ NameOf(t) \in Names /\ pc[t] # "use"
  BY DEF LockInv, StateTyped, StepMatchesCall, Critical, NameOf, EncryptSteps, CompactSteps,
         Locked, Ops, NoTask

LEMMA OpenBoxes ==
  ASSUME LockInv, BoxInv, NEW t \in Threads, OpenShared(t) \/ OpenFile(t) \/ OpenFails(t)
  PROVE  BoxInv'
<1>1. Departs(t) BY ReturnDeparts DEF OpenShared, OpenFile, OpenFails
<1>2. NameOf(t) \in Names BY EnterCritical DEF OpenShared, OpenFile, OpenFails
<1>3. CASE OpenShared(t)
  BY <1>1, <1>2, <1>3, QuietBoxes DEF OpenShared, Quiet, LockInv, StateTyped, Entries
<1>4. CASE OpenFails(t)
  BY <1>1, <1>4, QuietBoxes DEF OpenFails, Quiet
<1>5. CASE OpenFile(t)
  <2>1. /\ NameOf(t) \notin compacting /\ ~databases[NameOf(t)].open
        /\ databases' = [databases EXCEPT ![NameOf(t)] =
                           [open |-> TRUE, handles |-> 1, root |-> path[t]]]
        /\ files' = files \cup {<<path[t], NameOf(t)>>} /\ compacting' = compacting
    BY <1>5 DEF OpenFile, CanCreate, Busy
  <2>2. EntriesSound
    BY <1>2, <2>1 DEF EntriesSound, BoxInv, CompactedAside, OpenBoxHasFile, LockInv, StateTyped
  <2>3. WritersKept(t)
    <3> SUFFICES ASSUME NEW u \in Threads \ {t}, pc[u] = "use", Calling(u, "write")
                 PROVE  databases'[NameOf(u)] = databases[NameOf(u)]
      BY DEF WritersKept
    <3>1. databases[NameOf(u)].open BY DEF BoxInv, WritesReachRegisteredBox
    <3>2. NameOf(u) \in Names BY DEF LockInv, StateTyped, StepMatchesCall, NameOf
    <3> QED BY <2>1, <3>1, <3>2 DEF LockInv, StateTyped
  <2>4. CompactorsKept(t) /\ compacting' \subseteq Names
    BY <2>1 DEF CompactorsKept, BoxInv, CompactedAside
  <2> QED BY <1>1, <2>2, <2>3, <2>4, DepartBoxes
<1> QED BY <1>3, <1>4, <1>5

LEMMA CloseBoxes ==
  ASSUME LockInv, BoxInv, NEW t \in Threads, Close(t)
  PROVE  BoxInv'
<1>1. Departs(t) BY ReturnDeparts DEF Close
<1>2. NameOf(t) \in Names /\ Critical(t) /\ pc[t] # "use" BY EnterCritical DEF Close
<1>3. /\ databases' = [databases EXCEPT ![NameOf(t)] = Released(databases[NameOf(t)])]
      /\ UNCHANGED <<compacting, files>>
  BY DEF Close
<1>4. \A n \in Names : databases'[n].open => databases[n].open
                                             /\ databases'[n].root = databases[n].root
  BY <1>2, <1>3 DEF Released, Unregistered, LockInv, StateTyped, Entries
<1>5. EntriesSound
  BY <1>3, <1>4 DEF EntriesSound, BoxInv, CompactedAside, OpenBoxHasFile
<1>6. WritersKept(t)
  BY <1>2, <1>3, OthersElsewhere DEF WritersKept, LockInv, StateTyped
<1>7. CompactorsKept(t) /\ compacting' \subseteq Names
  BY <1>3 DEF CompactorsKept, BoxInv, CompactedAside
<1> QED BY <1>1, <1>5, <1>6, <1>7, DepartBoxes

-----------------------------------------------------------------------------
(* delete.                                                                 *)

\* The databases of the box that are still in use lose their file.
LEMMA DeleteBoxes ==
  ASSUME LockInv, BoxInv, NEW t \in Threads, Delete(t)
  PROVE  BoxInv'
<1>1. /\ UNCHANGED <<databases, compacting>> /\ NameOf(t) \in Names
      /\ pc[t] = "enter" /\ ~arc[t].linked
  BY EnterCritical DEF Delete, BoxInv, HeldInUse, CompactSteps
<1>2. \A u \in Threads \ {t} : pc'[u] = pc[u] /\ task'[u] = task[u]
  BY DEF Delete, Leave, Goto, LockInv, StateTyped
<1>3. pc'[t] = "idle" BY DEF Delete, Leave, Goto, LockInv, StateTyped
<1>4. CASE ~CanDelete(NameOf(t))
  BY <1>1, <1>2, <1>3, <1>4, QuietBoxes DEF Delete, Quiet, Departs, Others, CompactSteps
<1>5. CASE CanDelete(NameOf(t))
  <2>1. /\ ~databases[NameOf(t)].open /\ NameOf(t) \notin compacting
        /\ files' = files \ {<<path[t], NameOf(t)>>}
        /\ arc' = Unlinked(path[t], NameOf(t))
    BY <1>5 DEF Delete, CanDelete, Busy
  <2>2. \A u \in Threads : /\ arc'[u].linked => arc'[u] = arc[u]
                           /\ NameOf(u) # NameOf(t) => arc'[u] = arc[u]
    BY <2>1 DEF Unlinked
  <2>3. CompactedAside'
    <3>1. ASSUME NEW u \in Threads, pc'[u] \in CompactSteps
          PROVE  /\ NameOf(u)' \in compacting
                 /\ arc'[u].linked /\ <<arc'[u].root, NameOf(u)'>> \in files'
      <4>1. u # t /\ pc[u] \in CompactSteps /\ NameOf(u)' = NameOf(u)
        BY <1>2, <1>3, <3>1 DEF CompactSteps, NameOf
      <4> QED BY <2>1, <2>2, <4>1 DEF BoxInv, CompactedAside
    <3> QED BY <1>1, <3>1 DEF BoxInv, CompactedAside
  <2>4. HeldInUse'
    <3> SUFFICES ASSUME NEW u \in Threads, arc'[u].linked
                 PROVE  pc'[u] \in {"encUnmark", "use"} \cup CompactSteps
      BY DEF HeldInUse
    <3> QED BY <1>1, <1>2, <2>2 DEF BoxInv, HeldInUse
  <2>5. CompactionAlone'
    <3> SUFFICES ASSUME NEW v \in Threads, pc'[v] \in CompactSteps,
                        NEW u \in Threads \ {v}, NameOf(u)' = NameOf(v)'
                 PROVE  arc'[u] # arc'[v]
      BY DEF CompactionAlone, CompactSteps
    <3>1. v # t /\ pc[v] \in CompactSteps /\ NameOf(v)' = NameOf(v)
      BY <1>2, <1>3 DEF CompactSteps, NameOf
    <3>2. NameOf(v) \in compacting /\ arc[v].linked BY <3>1 DEF BoxInv, CompactedAside
    <3>3. arc'[v] = arc[v] BY <2>1, <2>2, <3>2
    <3>4. CASE u = t
      BY <1>1, <2>2, <3>2, <3>3, <3>4
    <3>5. CASE u # t
      <4>1. NameOf(u) = NameOf(v) BY <1>2, <3>1, <3>5 DEF NameOf
      <4>2. arc'[u] = arc[u] BY <2>1, <2>2, <3>2, <4>1
      <4> QED BY <3>1, <3>3, <4>1, <4>2 DEF BoxInv, CompactionAlone, CompactSteps
    <3> QED BY <3>4, <3>5
  <2>6. WritesReachRegisteredBox'
    <3> SUFFICES ASSUME NEW u \in Threads, pc'[u] = "use", Calling(u, "write")'
                 PROVE  databases[NameOf(u)'].open
                        /\ arc'[u] = Linked(databases[NameOf(u)'].root)
      BY <1>1 DEF WritesReachRegisteredBox, Linked, NameOf
    <3>1. u # t /\ pc[u] = "use" /\ Calling(u, "write") /\ NameOf(u)' = NameOf(u)
      BY <1>2, <1>3 DEF Calling, NameOf
    <3>2. databases[NameOf(u)].open /\ arc[u] = Linked(databases[NameOf(u)].root)
      BY <3>1 DEF BoxInv, WritesReachRegisteredBox
    <3> QED BY <2>1, <2>2, <3>1, <3>2
  <2>7. OpenBoxHasFile'
    BY <1>1, <2>1 DEF BoxInv, OpenBoxHasFile
  <2> QED BY <2>3, <2>4, <2>5, <2>6, <2>7 DEF BoxInv
<1> QED BY <1>4, <1>5

-----------------------------------------------------------------------------
(* Steps that take a database.                                             *)

\* The thread takes a database nobody compacts and leaves the registry alone.
Takes(t, db, step) ==
  /\ Others(t) /\ UNCHANGED <<databases, compacting, files, task>>
  /\ pc'[t] = step /\ step \in {"encUnmark", "use"}
  /\ arc'[t] = db
  /\ \A u \in Threads \ {t} :
       pc[u] \in CompactSteps /\ NameOf(u) = NameOf(t) => arc[u] # db

LEMMA TakeBoxes ==
  ASSUME LockInv, BoxInv, NEW t \in Threads, NEW db, NEW step, Takes(t, db, step),
         step = "use" => /\ databases[NameOf(t)].open
                         /\ db = Linked(databases[NameOf(t)].root)
  PROVE  BoxInv'
<1>1. \A u \in Threads : NameOf(u)' = NameOf(u) BY DEF Takes, NameOf
<1>2. \A u \in Threads : pc'[u] \in CompactSteps => u # t BY DEF Takes, CompactSteps
<1>3. CompactedAside'
  BY <1>1, <1>2 DEF Takes, Others, BoxInv, CompactedAside
<1>4. HeldInUse'
  BY DEF Takes, Others, BoxInv, HeldInUse
<1>5. CompactionAlone'
  <2> SUFFICES ASSUME NEW v \in Threads, pc'[v] \in CompactSteps, NEW u \in Threads \ {v},
                      NameOf(u)' = NameOf(v)'
               PROVE  arc'[u] # arc'[v]
    BY DEF CompactionAlone, CompactSteps
  <2>1. v # t /\ pc[v] \in CompactSteps /\ arc'[v] = arc[v] BY <1>2 DEF Takes, Others
  <2>2. CASE u = t
    BY <1>1, <2>1, <2>2 DEF Takes
  <2>3. CASE u # t
    BY <1>1, <2>1, <2>3 DEF Takes, Others, BoxInv, CompactionAlone, CompactSteps
  <2> QED BY <2>2, <2>3
<1>6. WritesReachRegisteredBox'
  <2> SUFFICES ASSUME NEW u \in Threads, pc'[u] = "use", Calling(u, "write")'
               PROVE  databases[NameOf(u)].open
                      /\ arc'[u] = Linked(databases[NameOf(u)].root)
    BY <1>1 DEF Takes, WritesReachRegisteredBox, Linked, NameOf
  <2>1. CASE u = t
    BY <2>1 DEF Takes
  <2>2. CASE u # t
    BY <2>2 DEF Takes, Others, Calling, BoxInv, WritesReachRegisteredBox
  <2> QED BY <2>1, <2>2
<1>7. OpenBoxHasFile'
  BY DEF Takes, BoxInv, OpenBoxHasFile
<1> QED BY <1>3, <1>4, <1>5, <1>6, <1>7 DEF BoxInv

LEMMA EncryptOpenBoxes ==
  ASSUME LockInv, BoxInv, NEW t \in Threads, EncryptOpen(t)
  PROVE  BoxInv'
<1>1. UNCHANGED <<databases, compacting, files, task>> /\ Goto(t, "encUnmark")
      /\ pc[t] = "encOpen"
  BY DEF EncryptOpen, registryVars
<1>2. CASE UNCHANGED arc
  <2>1. Departs(t)
    BY <1>1, <1>2, GotoDeparts DEF CompactSteps, Steps
  <2> QED BY <1>1, <2>1, QuietBoxes DEF Quiet
<1>3. CASE ~FileLocked(path[t], NameOf(t)) /\ arc' = [arc EXCEPT ![t] = Linked(path[t])]
  <2>1. Takes(t, Linked(path[t]), "encUnmark")
    BY <1>1, <1>3 DEF Takes, Others, Goto, FileLocked, LockInv, StateTyped
  <2> QED BY <2>1, TakeBoxes
<1> QED BY <1>2, <1>3 DEF EncryptOpen

LEMMA FindBoxes ==
  ASSUME LockInv, BoxInv, NEW t \in Threads, Find(t)
  PROVE  BoxInv'
<1>1. pc[t] = "find" /\ UNCHANGED <<databases, compacting, files, task>>
  BY DEF Find, registryVars
<1>2. CASE ~databases[NameOf(t)].open
  <2>1. Departs(t) BY <1>1, <1>2, GotoDeparts DEF Find, CompactSteps, Steps
  <2> QED BY <1>1, <2>1, QuietBoxes DEF Quiet
<1>3. CASE databases[NameOf(t)].open
  <2>1. Takes(t, Linked(databases[NameOf(t)].root), "use")
    <3>1. Others(t) /\ pc'[t] = "use" /\ arc'[t] = Linked(databases[NameOf(t)].root)
      BY <1>3 DEF Find, Goto, Others, LockInv, StateTyped
    <3>2. \A u \in Threads : pc[u] \in CompactSteps => NameOf(u) # NameOf(t)
      BY <1>3 DEF BoxInv, CompactedAside
    <3> QED BY <1>1, <3>1, <3>2 DEF Takes
  <2> QED BY <1>3, <2>1, TakeBoxes
<1> QED BY <1>2, <1>3

-----------------------------------------------------------------------------
(* compact.                                                                *)

LEMMA CompactUnwrapBoxes ==
  ASSUME LockInv, BoxInv, NEW t \in Threads, CompactUnwrap(t)
  PROVE  BoxInv'
<1>1. /\ UNCHANGED <<databases, compacting, files, task, arc>>
      /\ \A u \in Threads : (pc'[u] \in CompactSteps <=> pc[u] \in CompactSteps)
                            /\ (pc'[u] = "use" <=> pc[u] = "use")
                            /\ (pc'[u] = "encUnmark" <=> pc[u] = "encUnmark")
  BY DEF CompactUnwrap, Goto, CompactSteps, registryVars, LockInv, StateTyped
<1>2. \A u \in Threads : NameOf(u)' = NameOf(u) BY <1>1 DEF NameOf
<1>3. CompactedAside' /\ HeldInUse'
  BY <1>1, <1>2 DEF BoxInv, CompactedAside, HeldInUse
<1>4. CompactionAlone'
  BY <1>1, <1>2 DEF BoxInv, CompactionAlone, CompactSteps
<1>5. WritesReachRegisteredBox' /\ OpenBoxHasFile'
  BY <1>1, <1>2 DEF BoxInv, WritesReachRegisteredBox, OpenBoxHasFile, Calling, Linked
<1> QED BY <1>3, <1>4, <1>5 DEF BoxInv

\* The entry leaves the registry with its only database.
LEMMA CompactEnterBoxes ==
  ASSUME LockInv, BoxInv, NEW t \in Threads, CompactEnter(t)
  PROVE  BoxInv'
<1>1. /\ NameOf(t) \in Names /\ Critical(t) /\ pc[t] = "enter" /\ files' = files
  BY EnterCritical DEF CompactEnter
<1>2. CASE ~CanCompact(NameOf(t))
  BY <1>1, <1>2, ReturnDeparts, QuietBoxes DEF CompactEnter, Quiet
<1>3. CASE CanCompact(NameOf(t))
  <2> DEFINE n == NameOf(t)
             db == Linked(databases[n].root)
  <2>1. /\ compacting' = compacting \cup {n} /\ task' = task
        /\ databases' = [databases EXCEPT ![n] = Unregistered]
        /\ arc' = [arc EXCEPT ![t] = db]
        /\ Goto(t, "compUnwrap")
        /\ databases[n].open
    BY <1>3 DEF CompactEnter, CanCompact
  <2>2. Others(t) /\ pc'[t] = "compUnwrap" /\ arc'[t] = db
    BY <2>1 DEF Others, Goto, LockInv, StateTyped
  <2>3. \A u \in Threads : NameOf(u)' = NameOf(u) BY <2>1 DEF NameOf
  <2>4. \A u \in Threads : NameOf(u) = n => arc[u] # db
    BY <1>3 DEF CanCompact, Sharers
  <2>5. \A u \in Threads \ {t} :
          pc[u] \in CompactSteps \/ (pc[u] = "use" /\ Calling(u, "write"))
            => NameOf(u) # n /\ NameOf(u) \in Names
    BY <1>1, OthersElsewhere
  <2>6. databases' \in [Names -> Entries] /\ ~databases'[n].open
        /\ \A m \in Names \ {n} : databases'[m] = databases[m]
    BY <1>1, <2>1 DEF Unregistered, Entries, LockInv, StateTyped
  <2>7. CompactedAside'
    <3>1. \A m \in compacting' : m \in Names /\ ~databases'[m].open
      BY <1>1, <2>1, <2>6 DEF BoxInv, CompactedAside
    <3>2. ASSUME NEW u \in Threads, pc'[u] \in CompactSteps
          PROVE  /\ NameOf(u)' \in compacting'
                 /\ arc'[u].linked /\ <<arc'[u].root, NameOf(u)'>> \in files'
      <4>1. CASE u = t
        BY <1>1, <2>1, <2>2, <2>3, <4>1 DEF Linked, BoxInv, OpenBoxHasFile
      <4>2. CASE u # t
        BY <1>1, <2>1, <2>2, <2>3, <3>2, <4>2 DEF Others, BoxInv, CompactedAside
      <4> QED BY <4>1, <4>2
    <3> QED BY <3>1, <3>2 DEF CompactedAside
  <2>8. HeldInUse'
    <3> SUFFICES ASSUME NEW u \in Threads, arc'[u].linked
                 PROVE  pc'[u] \in {"encUnmark", "use"} \cup CompactSteps
      BY DEF HeldInUse
    <3> QED BY <2>2 DEF Others, BoxInv, HeldInUse, CompactSteps
  <2>9. CompactionAlone'
    <3> SUFFICES ASSUME NEW v \in Threads, pc'[v] \in CompactSteps,
                        NEW u \in Threads \ {v}, NameOf(u) = NameOf(v)
                 PROVE  arc'[u] # arc'[v]
      BY <2>3 DEF CompactionAlone, CompactSteps
    <3>1. CASE v = t
      BY <2>2, <2>4, <3>1 DEF Others
    <3>2. CASE v # t
      <4>1. pc[v] \in CompactSteps /\ arc'[v] = arc[v] /\ NameOf(v) # n
        BY <2>2, <2>5, <3>2 DEF Others
      <4>2. u # t /\ arc'[u] = arc[u] BY <2>2, <4>1 DEF Others
      <4> QED BY <4>1, <4>2 DEF BoxInv, CompactionAlone, CompactSteps
    <3> QED BY <3>1, <3>2
  <2>10. WritesReachRegisteredBox'
    <3> SUFFICES ASSUME NEW u \in Threads, pc'[u] = "use", Calling(u, "write")'
                 PROVE  databases'[NameOf(u)].open
                        /\ arc'[u] = Linked(databases'[NameOf(u)].root)
      BY <2>3 DEF WritesReachRegisteredBox, Linked, NameOf
    <3>1. u # t BY <2>2
    <3>2. pc[u] = "use" /\ Calling(u, "write") /\ arc'[u] = arc[u]
      BY <2>2, <3>1 DEF Others, Calling
    <3>3. NameOf(u) \in Names \ {n} BY <2>5, <3>1, <3>2
    <3> QED BY <2>6, <3>2, <3>3 DEF BoxInv, WritesReachRegisteredBox
  <2>11. OpenBoxHasFile'
    BY <1>1, <2>6 DEF BoxInv, OpenBoxHasFile
  <2> QED BY <2>7, <2>8, <2>9, <2>10, <2>11 DEF BoxInv
<1> QED BY <1>2, <1>3

\* The entry goes back; another call cannot have put one in its place.
LEMMA CompactReinsertBoxes ==
  ASSUME LockInv, BoxInv, NEW t \in Threads, CompactReinsert(t)
  PROVE  BoxInv'
<1>1. /\ NameOf(t) \in Names /\ Critical(t) /\ pc[t] # "use" /\ pc[t] \in CompactSteps
  BY EnterCritical DEF CompactReinsert, CompactSteps
<1>2. Departs(t) BY ReturnDeparts DEF CompactReinsert
<1>3. /\ databases' = [databases EXCEPT ![NameOf(t)] =
                         [open |-> TRUE, handles |-> 1, root |-> arc[t].root]]
      /\ compacting' = compacting \ {NameOf(t)} /\ files' = files
  BY DEF CompactReinsert
<1>4. EntriesSound
  BY <1>1, <1>3 DEF EntriesSound, BoxInv, CompactedAside, OpenBoxHasFile, LockInv, StateTyped
<1>5. WritersKept(t)
  BY <1>1, <1>3, OthersElsewhere DEF WritersKept, LockInv, StateTyped
<1>6. CompactorsKept(t)
  BY <1>1, <1>3, OthersElsewhere DEF CompactorsKept, BoxInv, CompactedAside
<1>7. compacting' \subseteq Names BY <1>3 DEF BoxInv, CompactedAside
<1> QED BY <1>2, <1>4, <1>5, <1>6, <1>7, DepartBoxes

-----------------------------------------------------------------------------
LEMMA LifecycleInvariance == LifecycleInv /\ [Next]_vars => LifecycleInv'
<1> SUFFICES ASSUME LockInv, BoxInv, [Next]_vars PROVE BoxInv'
  BY LockInvariance DEF LifecycleInv
<1>1. ASSUME NEW t \in Threads, NEW op \in Ops, NEW r \in Roots, NEW n \in Names,
             Call(t, op, r, n)
      PROVE  BoxInv'
  BY <1>1, CallBoxes
<1>2. ASSUME NEW t \in Threads, LockAcquire(t) PROVE BoxInv'
  BY <1>2, WaitBoxes
<1>3. ASSUME NEW t \in Threads, Run(t) PROVE BoxInv'
  <2>1. CASE InitCheck(t) \/ InitWrite(t) BY <2>1, InitBoxes
  <2>2. CASE LockRead(t) \/ LockCreate(t) BY <2>2, WaitBoxes
  <2>3. CASE OpenStep(t) BY <2>3, OpenBoxes, CloseBoxes, DeleteBoxes DEF OpenStep
  <2>4. CASE EncryptStep(t) BY <2>4, EncryptBoxes, EncryptOpenBoxes DEF EncryptStep
  <2>5. CASE CompactStep(t)
    BY <2>5, CompactEnterBoxes, CompactUnwrapBoxes, CompactReinsertBoxes DEF CompactStep
  <2>6. CASE UseStep(t) BY <2>6, FindBoxes, UseBoxes DEF UseStep
  <2> QED BY <1>3, <2>1, <2>2, <2>3, <2>4, <2>5, <2>6 DEF Run
<1>4. CASE UNCHANGED vars
  <2>1. UNCHANGED <<databases, compacting, files, pc, task, arc>>
    BY <1>4 DEF vars, registryVars, threadVars
  <2>2. \A u \in Threads : NameOf(u)' = NameOf(u) BY <2>1 DEF NameOf
  <2> QED BY <2>1, <2>2 DEF BoxInv, CompactedAside, HeldInUse, CompactionAlone,
                            WritesReachRegisteredBox, OpenBoxHasFile, Calling, Linked
<1> QED BY <1>1, <1>2, <1>3, <1>4 DEF Next

LEMMA LifecycleAlways == Spec => []LifecycleInv
  BY InitLifecycle, LifecycleInvariance, PTL DEF Spec

\* Nobody else holds the database of a box while it is compacted, so the entry
\* can be unwrapped and put back (db.rs:787-849).
THEOREM CompactsAlone == Spec => []CompactionAlone
<1>1. LifecycleInv => CompactionAlone BY DEF LifecycleInv, BoxInv
<1> QED BY <1>1, LifecycleAlways, PTL

\* A mutation commits to the database that is registered for its box at that
\* moment (core.rs:59-66, db.rs:582-785).
THEOREM WritesLand == Spec => []WritesReachRegisteredBox
<1>1. LifecycleInv => WritesReachRegisteredBox BY DEF LifecycleInv, BoxInv
<1> QED BY <1>1, LifecycleAlways, PTL

\* Neither a delete nor a base path that changes underneath takes the file of
\* an open box away (db.rs:378-458).
THEOREM OpenBoxKeepsFile == Spec => []OpenBoxHasFile
<1>1. LifecycleInv => OpenBoxHasFile BY DEF LifecycleInv, BoxInv
<1> QED BY <1>1, LifecycleAlways, PTL

-----------------------------------------------------------------------------
(* Sums over the base paths: what is summed is w[<<r, n>>] of one box n, for *)
(* two ledgers that differ at one place.                                   *)

\* The element a sum takes first.
First(s) == CHOOSE x \in s : TRUE

Ledgers == [Roots \X Names -> Nat]

\* A sum is a fold, whose steps are known.
LEMMA SumUnfolds ==
  ASSUME NEW w \in Ledgers, NEW n \in Names
  PROVE  \E f \in [SUBSET Roots -> Nat] :
           /\ SumOver(w, n) = f[Roots]
           /\ \A s \in SUBSET Roots :
                f[s] = IF s = {} THEN 0 ELSE w[<<First(s), n>>] + f[s \ {First(s)}]
<1> DEFINE IsSum(f) == f = [s \in SUBSET Roots |->
                              IF s = {} THEN 0 ELSE w[<<First(s), n>>] + f[s \ {First(s)}]]
           sum == CHOOSE f : IsSum(f)
<1>0. \A s \in (SUBSET Roots) \ {{}} : First(s) \in s BY DEF First
<1>1. SumOver(w, n) = sum[Roots]
  BY DEF SumOver, MapThenSumSet, MapThenFoldSet, First
<1>2. \E f : IsSum(f)
  <2> DEFINE pick == [s \in (SUBSET Roots) \ {{}} |-> First(s)]
             H == [p \in Roots \X Nat |-> w[<<p[1], n>>] + p[2]]
  <2>1. pick \in Picks(Roots) BY <1>0 DEF Picks
  <2>2. H \in [Roots \X Nat -> Nat] BY DEF Ledgers
  <2>3. PICK f \in [SUBSET Roots -> Nat] : IsFold(f, H, 0, pick, Roots)
    <3> HIDE DEF H, pick
    <3> QED BY <2>1, <2>2, FoldExists, LifecycleAssumption
  <2>4. \A s \in SUBSET Roots :
          f[s] = IF s = {} THEN 0 ELSE w[<<First(s), n>>] + f[s \ {First(s)}]
    BY <1>0, <2>3 DEF IsFold
  <2> QED BY <2>4
<1>3. IsSum(sum) BY <1>2
<1>4. \A s \in SUBSET Roots : sum[s] \in Nat
  <2> DEFINE Q == {s \in SUBSET Roots : sum[s] \in Nat}
  <2>1. {} \in Q
    <3>1. sum[{}] = 0 BY <1>3
    <3> HIDE DEF sum
    <3> QED BY <3>1
  <2>2. ASSUME NEW s \in (SUBSET Roots) \ {{}}, s \ {First(s)} \in Q PROVE s \in Q
    <3>1. sum[s] = w[<<First(s), n>>] + sum[s \ {First(s)}] BY <1>3
    <3> HIDE DEF sum
    <3>2. w[<<First(s), n>>] \in Nat BY <1>0, <2>2 DEF Ledgers
    <3> QED BY <2>2, <3>1, <3>2
  <2> HIDE DEF Q
  <2>3. Inherits(Roots, Q) BY <1>0, <2>2 DEF Inherits
  <2>4. SUBSET Roots \subseteq Q BY <2>1, <2>3, SubsetInduction, LifecycleAssumption
  <2> QED BY <2>4 DEF Q
<1> HIDE DEF sum
<1> QED BY <1>1, <1>3, <1>4

\* Sums over two ledgers that differ in one place differ by as much.
LEMMA SumChanges ==
  ASSUME NEW w \in Ledgers, NEW v \in Ledgers, NEW n \in Names, NEW r \in Roots,
         \A q \in Roots \ {r} : v[<<q, n>>] = w[<<q, n>>]
  PROVE  /\ SumOver(v, n) \in Nat /\ SumOver(w, n) \in Nat
         /\ SumOver(v, n) = SumOver(w, n) + v[<<r, n>>] - w[<<r, n>>]
<1>f. PICK f \in [SUBSET Roots -> Nat] :
           /\ SumOver(w, n) = f[Roots]
           /\ \A s \in SUBSET Roots :
                f[s] = IF s = {} THEN 0 ELSE w[<<First(s), n>>] + f[s \ {First(s)}]
  BY SumUnfolds
<1>g. PICK g \in [SUBSET Roots -> Nat] :
           /\ SumOver(v, n) = g[Roots]
           /\ \A s \in SUBSET Roots :
                g[s] = IF s = {} THEN 0 ELSE v[<<First(s), n>>] + g[s \ {First(s)}]
  BY SumUnfolds
<1> DEFINE Q == {s \in SUBSET Roots :
                   g[s] = f[s] + (IF r \in s THEN v[<<r, n>>] - w[<<r, n>>] ELSE 0)}
<1>1. {} \in Q
  <2>1. f[{}] = 0 /\ g[{}] = 0 BY <1>f, <1>g
  <2> QED BY <2>1
<1>2. ASSUME NEW s \in (SUBSET Roots) \ {{}}, s \ {First(s)} \in Q PROVE s \in Q
  <2> DEFINE x == First(s)
  <2>1. x \in s BY DEF First
  <2>2. g[s] = v[<<x, n>>] + g[s \ {x}] /\ f[s] = w[<<x, n>>] + f[s \ {x}] BY <1>f, <1>g
  <2>3. /\ v[<<x, n>>] \in Nat /\ w[<<x, n>>] \in Nat /\ f[s \ {x}] \in Nat /\ g[s \ {x}] \in Nat
        /\ v[<<r, n>>] \in Nat /\ w[<<r, n>>] \in Nat
    BY <2>1 DEF Ledgers
  <2> HIDE DEF x
  <2>4. CASE x = r
    <3>1. g[s \ {x}] = f[s \ {x}] BY <1>2, <2>4 DEF x
    <3> QED BY <2>1, <2>2, <2>3, <2>4, <3>1
  <2>5. CASE x # r
    <3>1. v[<<x, n>>] = w[<<x, n>>] BY <2>1, <2>5
    <3>2. g[s \ {x}] = f[s \ {x}] + (IF r \in s THEN v[<<r, n>>] - w[<<r, n>>] ELSE 0)
      BY <1>2, <2>5 DEF x
    <3> QED BY <2>1, <2>2, <2>3, <3>1, <3>2
  <2> QED BY <2>4, <2>5
<1>3. \A s \in (SUBSET Roots) \ {{}} : First(s) \in s BY DEF First
<1>4. SUBSET Roots \subseteq Q
  <2> HIDE DEF Q
  <2>1. Inherits(Roots, Q) BY <1>2, <1>3 DEF Inherits
  <2> QED BY <1>1, <2>1, SubsetInduction, LifecycleAssumption
<1>5. v[<<r, n>>] \in Nat /\ w[<<r, n>>] \in Nat BY DEF Ledgers
<1> QED BY <1>4, <1>5, <1>f, <1>g

LEMMA SumZero ==
  ASSUME NEW w \in Ledgers, NEW n \in Names
  PROVE  (\A r \in Roots : w[<<r, n>>] = 0) => SumOver(w, n) = 0
<1>z. SUFFICES ASSUME \A r \in Roots : w[<<r, n>>] = 0 PROVE SumOver(w, n) = 0 OBVIOUS
<1>f. PICK f \in [SUBSET Roots -> Nat] :
           /\ SumOver(w, n) = f[Roots]
           /\ \A s \in SUBSET Roots :
                f[s] = IF s = {} THEN 0 ELSE w[<<First(s), n>>] + f[s \ {First(s)}]
  BY SumUnfolds
<1> DEFINE Q == {s \in SUBSET Roots : f[s] = 0}
<1>1. {} \in Q BY <1>f
<1>2. \A s \in (SUBSET Roots) \ {{}} : First(s) \in s BY DEF First
<1>3. ASSUME NEW s \in (SUBSET Roots) \ {{}}, s \ {First(s)} \in Q PROVE s \in Q
  <2>1. First(s) \in Roots BY <1>2
  <2>2. f[s] = w[<<First(s), n>>] + f[s \ {First(s)}] BY <1>f
  <2> QED BY <1>3, <1>z, <2>1, <2>2
<1>4. SUBSET Roots \subseteq Q
  <2> HIDE DEF Q
  <2>1. Inherits(Roots, Q) BY <1>2, <1>3 DEF Inherits
  <2> QED BY <1>1, <2>1, SubsetInduction, LifecycleAssumption
<1> QED BY <1>4, <1>f

-----------------------------------------------------------------------------
(* The handles that are out.                                               *)

LEMMA OutTyped ==
  ASSUME owned \in Ledgers, NEW n \in Names
  PROVE  /\ Owned(n) \in Nat /\ IsFiniteSet(Closing(n)) /\ Cardinality(Closing(n)) \in Nat
         /\ (Cardinality(Closing(n)) = 0 <=> Closing(n) = {})
<1>1. Owned(n) \in Nat
  <2>1. PICK f \in [SUBSET Roots -> Nat] : SumOver(owned, n) = f[Roots] BY SumUnfolds
  <2> QED BY <2>1 DEF Owned
<1>2. IsFiniteSet(Closing(n))
  <2>1. Closing(n) \subseteq Threads BY DEF Closing
  <2> QED BY <2>1, FS_Subset, LifecycleAssumption
<1> QED BY <1>1, <1>2, FS_CardinalityType, FS_EmptySet

\* A step that ends no close has nobody leave or join those who close.
SameClosers(t) ==
  \/ task' = task
  \/ task' = [task EXCEPT ![t] = NoTask] /\ ~Calling(t, "close")

LEMMA ClosingKept ==
  ASSUME StateTyped, NEW t \in Threads, SameClosers(t), NEW n \in Names
  PROVE  Closing(n)' = Closing(n)
<1>1. \A u \in Threads : task'[u].op = "close" /\ task'[u].name = n
                           <=> task[u].op = "close" /\ task[u].name = n
  BY DEF SameClosers, Calling, StateTyped, NoTask
<1> QED BY <1>1 DEF Closing, Calling, NameOf

\* The handles of a box grow by one when a client opens it.
LEMMA OpenCounts ==
  ASSUME StateTyped, owned \in Ledgers, NEW t \in Threads, NEW r \in Roots, NEW n \in Names,
         owned' = [owned EXCEPT ![<<r, n>>] = @ + 1], SameClosers(t)
  PROVE  /\ owned' \in Ledgers
         /\ \A m \in Names : Out(m)' = Out(m) + (IF m = n THEN 1 ELSE 0)
         /\ \A m \in Names \ {n} : Owned(m)' = Owned(m)
<1>1. owned' \in Ledgers BY DEF Ledgers
<1>2. ASSUME NEW m \in Names PROVE Owned(m)' = Owned(m) + (IF m = n THEN 1 ELSE 0)
  <2>1. \A q \in Roots \ {r} : owned'[<<q, m>>] = owned[<<q, m>>] BY DEF Ledgers
  <2>2. owned'[<<r, m>>] = owned[<<r, m>>] + (IF m = n THEN 1 ELSE 0) BY DEF Ledgers
  <2>3. owned[<<r, m>>] \in Nat BY DEF Ledgers
  <2>4. /\ SumOver(owned', m) \in Nat /\ SumOver(owned, m) \in Nat
        /\ SumOver(owned', m) = SumOver(owned, m) + owned'[<<r, m>>] - owned[<<r, m>>]
    BY <1>1, <2>1, SumChanges
  <2> QED BY <2>2, <2>3, <2>4 DEF Owned
<1>3. ASSUME NEW m \in Names PROVE Out(m)' = Out(m) + (IF m = n THEN 1 ELSE 0)
  <2>1. Closing(m)' = Closing(m) BY ClosingKept
  <2> QED BY <1>2, <2>1, OutTyped DEF Out
<1>4. \A m \in Names \ {n} : Owned(m)' = Owned(m) BY <1>2, OutTyped
<1> QED BY <1>1, <1>3, <1>4

\* A client that starts to close passes its handle to the call.
LEMMA CloseMoves ==
  ASSUME LockInv, owned \in Ledgers, NEW t \in Threads, NEW r \in Roots, NEW n \in Names,
         Call(t, "close", r, n)
  PROVE  /\ owned' \in Ledgers
         /\ \A m \in Names : Out(m)' = Out(m) /\ Owned(m)' <= Owned(m)
<1>1. /\ owned[<<r, n>>] > 0 /\ owned' = [owned EXCEPT ![<<r, n>>] = @ - 1]
      /\ task' = [task EXCEPT ![t] = [op |-> "close", root |-> r, name |-> n]]
      /\ task[t] = NoTask
  BY DEF Call, LockInv, StepMatchesCall
<1>2. owned' \in Ledgers BY <1>1 DEF Ledgers
<1>3. ASSUME NEW m \in Names PROVE Owned(m)' = Owned(m) - (IF m = n THEN 1 ELSE 0)
  <2>1. \A q \in Roots \ {r} : owned'[<<q, m>>] = owned[<<q, m>>] BY <1>1 DEF Ledgers
  <2>2. owned'[<<r, m>>] = owned[<<r, m>>] - (IF m = n THEN 1 ELSE 0) BY <1>1 DEF Ledgers
  <2>3. owned[<<r, m>>] \in Nat BY DEF Ledgers
  <2>4. /\ SumOver(owned', m) \in Nat /\ SumOver(owned, m) \in Nat
        /\ SumOver(owned', m) = SumOver(owned, m) + owned'[<<r, m>>] - owned[<<r, m>>]
    BY <1>2, <2>1, SumChanges
  <2> QED BY <2>2, <2>3, <2>4 DEF Owned
<1>4. ASSUME NEW m \in Names
      PROVE  Closing(m)' = IF m = n THEN Closing(m) \cup {t} ELSE Closing(m)
  <2>1. \A u \in Threads : task'[u].op = "close" /\ task'[u].name = m
                             <=> \/ task[u].op = "close" /\ task[u].name = m
                                 \/ u = t /\ m = n
    BY <1>1 DEF LockInv, StateTyped, NoTask
  <2> QED BY <2>1 DEF Closing, Calling, NameOf
<1>5. ASSUME NEW m \in Names PROVE Out(m)' = Out(m) /\ Owned(m)' <= Owned(m)
  <2>1. /\ Owned(m) \in Nat /\ IsFiniteSet(Closing(m)) /\ Cardinality(Closing(m)) \in Nat
    BY OutTyped
  <2>2. CASE m = n
    <3>1. t \notin Closing(m) BY <1>1 DEF Closing, Calling, NoTask
    <3>2. Cardinality(Closing(m) \cup {t}) = Cardinality(Closing(m)) + 1
      BY <2>1, <3>1, FS_AddElement
    <3>3. Cardinality(Closing(m)') = Cardinality(Closing(m)) + 1 BY <1>4, <2>2, <3>2
    <3> QED BY <1>3, <2>1, <2>2, <3>3 DEF Out
  <2>3. CASE m # n
    BY <1>3, <1>4, <2>1, <2>3 DEF Out
  <2> QED BY <2>2, <2>3
<1> QED BY <1>2, <1>5

\* A close that has got its turn is done with its handle.
LEMMA CloseCounts ==
  ASSUME StateTyped, owned \in Ledgers, NEW t \in Threads, Calling(t, "close"),
         NameOf(t) \in Names, owned' = owned, task' = [task EXCEPT ![t] = NoTask]
  PROVE  /\ Out(NameOf(t)) \in Nat \ {0}
         /\ \A m \in Names : Out(m)' = Out(m) - (IF m = NameOf(t) THEN 1 ELSE 0)
         /\ \A m \in Names : Owned(m)' = Owned(m)
<1>1. \A m \in Names : Owned(m)' = Owned(m) BY DEF Owned
<1>2. ASSUME NEW m \in Names
      PROVE  Closing(m)' = Closing(m) \ {t}
  <2>1. \A u \in Threads : task'[u].op = "close" /\ task'[u].name = m
                             <=> task[u].op = "close" /\ task[u].name = m /\ u # t
    BY DEF StateTyped, NoTask
  <2> QED BY <2>1 DEF Closing, Calling, NameOf
<1>3. ASSUME NEW m \in Names
      PROVE  Out(m)' = Out(m) - (IF m = NameOf(t) THEN 1 ELSE 0)
  <2>1. /\ Owned(m) \in Nat /\ IsFiniteSet(Closing(m)) /\ Cardinality(Closing(m)) \in Nat
    BY OutTyped
  <2>2. CASE m = NameOf(t)
    <3>1. t \in Closing(m) BY <2>2 DEF Closing
    <3>2. Cardinality(Closing(m) \ {t}) = Cardinality(Closing(m)) - 1
      BY <2>1, <3>1, FS_RemoveElement
    <3>3. Cardinality(Closing(m)') = Cardinality(Closing(m)) - 1 BY <1>2, <3>2
    <3> QED BY <1>1, <2>1, <2>2, <3>3 DEF Out
  <2>3. CASE m # NameOf(t)
    <3>1. Closing(m) \ {t} = Closing(m) BY <2>3 DEF Closing
    <3>2. Cardinality(Closing(m)') = Cardinality(Closing(m)) BY <1>2, <3>1
    <3>3. Out(m)' = Out(m) BY <1>1, <3>2 DEF Out
    <3>4. Out(m) \in Nat BY <2>1 DEF Out
    <3> QED BY <2>3, <3>3, <3>4
  <2> QED BY <2>2, <2>3
<1>4. Out(NameOf(t)) \in Nat \ {0}
  <2>1. t \in Closing(NameOf(t)) BY DEF Closing
  <2> QED BY <2>1, OutTyped DEF Out
<1> QED BY <1>1, <1>3, <1>4

-----------------------------------------------------------------------------
(* The handles of the registry.                                            *)

\* A write that has not found its box does not see a client open it.
FindersUndisturbed(t) ==
  /\ \A u \in Threads \ {t} : pc'[u] = pc[u] /\ task'[u] = task[u]
  /\ \A n \in Names : (n = NameOf(t) /\ Critical(t)) \/ Owned(n)' <= Owned(n)
  /\ pc'[t] \in {"findCompacting", "findMigrating"} /\ Calling(t, "write")'
       => Owned(NameOf(t))' = 0

LEMMA FindersServed ==
  ASSUME LockInv, CountInv, NEW t \in Threads, FindersUndisturbed(t), owned' \in Ledgers
  PROVE  WritersFindOwnedBox'
<1> SUFFICES ASSUME NEW u \in Threads, pc'[u] \in {"findCompacting", "findMigrating"},
                    Calling(u, "write")'
             PROVE  Owned(NameOf(u))' = 0
  BY DEF WritersFindOwnedBox
<1>1. CASE u = t BY <1>1 DEF FindersUndisturbed
<1>2. CASE u # t
  <2>1. /\ pc[u] \in {"findCompacting", "findMigrating"} /\ Calling(u, "write")
        /\ task'[u] = task[u]
    BY <1>2 DEF FindersUndisturbed, Calling
  <2>2. Critical(u) /\ NameOf(u) \in Names
    BY <2>1 DEF Critical, Calling, Locked, Ops, UseSteps, LockInv, StateTyped, NameOf, NoTask
  <2>3. Owned(NameOf(u)) = 0 BY <2>1 DEF CountInv, WritersFindOwnedBox
  <2>4. ~(NameOf(u) = NameOf(t) /\ Critical(t)) BY <1>2, <2>2, Exclusion
  <2>5. \A n \in Names : n = NameOf(u) => Owned(n)' = 0
    <3> TAKE n \in Names
    <3> HAVE n = NameOf(u)
    <3>1. Owned(n)' <= Owned(n) BY <2>4 DEF FindersUndisturbed
    <3>2. SumOver(owned', n) \in Nat
      <4>1. PICK f \in [SUBSET Roots -> Nat] : SumOver(owned', n) = f[Roots] BY SumUnfolds
      <4> QED BY <4>1
    <3> QED BY <2>3, <3>1, <3>2 DEF Owned
  <2>6. NameOf(u)' = NameOf(u) BY <2>1 DEF NameOf
  <2> QED BY <2>2, <2>5, <2>6 DEF Owned
<1> QED BY <1>1, <1>2

\* A step of a call that neither opens, closes nor compacts: the registry and
\* the handles that are out stay as they are.
Counted(t) ==
  /\ UNCHANGED <<owned, databases, compacting>>
  /\ \A u \in Threads \ {t} : pc'[u] = pc[u] /\ task'[u] = task[u]
  /\ SameClosers(t)
  /\ pc[t] \in CompactSteps => pc'[t] \in CompactSteps /\ task' = task
  /\ pc'[t] \in {"findCompacting", "findMigrating"} /\ Calling(t, "write")'
       => Owned(NameOf(t))' = 0

\* The thread that compacts a box is still there.
CompactorStays ==
  \A n \in compacting' :
    \E u \in Threads : NameOf(u)' = n /\ pc'[u] \in CompactSteps

LEMMA CountsSame ==
  ASSUME LockInv, BoxInv, CountInv, NEW t \in Threads, Counted(t)
  PROVE  CountInv'
<1>1. owned' \in Ledgers BY DEF Counted, CountInv, Ledgers
<1>2. \A n \in Names : Owned(n)' = Owned(n) /\ Closing(n)' = Closing(n)
  BY ClosingKept DEF Counted, LockInv, Owned
<1>3. \A n \in Names : Out(n)' = Out(n) BY <1>2 DEF Out
<1>4. \A n \in Names : Owned(n) \in Nat BY OutTyped DEF CountInv, Ledgers
<1>5. WritersFindOwnedBox'
  <2>1. FindersUndisturbed(t) BY <1>2, <1>4 DEF Counted, FindersUndisturbed
  <2> QED BY <1>1, <2>1, FindersServed
<1>6. HandlesCounted'
  BY <1>2 DEF Counted, CountInv, HandlesCounted
<1>7. CompactorStays
  <2> SUFFICES ASSUME NEW n \in compacting
               PROVE  \E u \in Threads : NameOf(u)' = n /\ pc'[u] \in CompactSteps
    BY DEF CompactorStays, Counted
  <2>1. PICK u \in Threads : NameOf(u) = n /\ pc[u] \in CompactSteps
    BY DEF CountInv, CompactedForOne
  <2> QED BY <2>1 DEF Counted, NameOf
<1>8. CompactedForOne'
  <2>1. compacting' = compacting /\ compacting \subseteq Names
    BY DEF Counted, BoxInv, CompactedAside
  <2> QED BY <1>3, <1>7, <2>1 DEF CountInv, CompactedForOne, CompactorStays
<1> QED BY <1>1, <1>5, <1>6, <1>8 DEF CountInv, Ledgers

\* A step that changes the entry of its own box, under the box's lock.
Recounted(t, entry, n) ==
  /\ Critical(t) /\ n = NameOf(t) /\ n \in Names
  /\ \A u \in Threads \ {t} : pc'[u] = pc[u] /\ task'[u] = task[u]
  /\ databases' = [databases EXCEPT ![n] = entry]
  /\ compacting' \in {compacting, compacting \cup {n}, compacting \ {n}}
  /\ pc'[t] \notin {"findCompacting", "findMigrating"}
  /\ owned' \in Ledgers
  /\ \A m \in Names \ {n} : Owned(m)' = Owned(m) /\ Out(m)' = Out(m)
  /\ n \notin compacting' => entry.handles = Out(n)' /\ (entry.open <=> entry.handles > 0)
  /\ n \in compacting' =>
       Out(n)' = 1 /\ NameOf(t)' = n /\ pc'[t] \in CompactSteps

LEMMA CountsChange ==
  ASSUME LockInv, BoxInv, CountInv, NEW t \in Threads, NEW entry, NEW n, Recounted(t, entry, n)
  PROVE  CountInv'
<1>1. \A m \in Names : m # n => (m \in compacting' <=> m \in compacting)
                                /\ databases'[m] = databases[m]
  BY DEF Recounted, LockInv, StateTyped
<1>2. databases'[n] = entry BY DEF Recounted, LockInv, StateTyped
<1>3. WritersFindOwnedBox'
  <2>1. \A m \in Names : Owned(m) \in Nat BY OutTyped DEF CountInv, Ledgers
  <2>2. FindersUndisturbed(t) BY <2>1 DEF Recounted, FindersUndisturbed
  <2> QED BY <2>2, FindersServed DEF Recounted
<1>4. HandlesCounted'
  <2> SUFFICES ASSUME NEW m \in Names, m \notin compacting'
               PROVE  /\ databases'[m].handles = Out(m)'
                      /\ databases'[m].open <=> databases'[m].handles > 0
    BY DEF HandlesCounted, Out
  <2>1. CASE m = n BY <1>2, <2>1 DEF Recounted
  <2>2. CASE m # n
    BY <1>1, <2>2 DEF Recounted, CountInv, HandlesCounted, Out
  <2> QED BY <2>1, <2>2
<1>5. CompactedForOne'
  <2> SUFFICES ASSUME NEW m \in compacting'
               PROVE  /\ Out(m)' = 1
                      /\ \E u \in Threads : NameOf(u)' = m /\ pc'[u] \in CompactSteps
    BY DEF CompactedForOne
  <2>1. CASE m = n BY <2>1 DEF Recounted
  <2>2. CASE m # n
    <3>1. m \in compacting /\ m \in Names
      BY <2>2 DEF Recounted, BoxInv, CompactedAside
    <3>2. PICK u \in Threads : NameOf(u) = m /\ pc[u] \in CompactSteps
      BY <3>1 DEF CountInv, CompactedForOne
    <3>3. Out(m)' = 1 BY <2>2, <3>1 DEF Recounted, CountInv, CompactedForOne
    <3>4. u # t BY <2>2, <3>2 DEF Recounted
    <3> QED BY <3>2, <3>3, <3>4 DEF Recounted, NameOf
  <2> QED BY <2>1, <2>2
<1> QED BY <1>3, <1>4, <1>5 DEF CountInv, Recounted, Ledgers

-----------------------------------------------------------------------------
(* Steps that leave the handles alone.                                     *)

LEMMA ReturnCounted ==
  ASSUME LockInv, NEW t \in Threads, Leave(t), ~Calling(t, "close"),
         pc[t] \notin CompactSteps, UNCHANGED <<owned, databases, compacting>>
  PROVE  Counted(t)
  BY DEF Leave, Goto, Counted, SameClosers, LockInv, StateTyped

LEMMA ProceedCounted ==
  ASSUME LockInv, NEW t \in Threads, NEW step \in Steps, Goto(t, step), task' = task,
         pc[t] \in CompactSteps => step \in CompactSteps,
         step \in {"findCompacting", "findMigrating"} /\ Calling(t, "write")
           => Owned(NameOf(t)) = 0,
         UNCHANGED <<owned, databases, compacting>>
  PROVE  Counted(t)
<1>1. /\ pc'[t] = step /\ \A u \in Threads \ {t} : pc'[u] = pc[u]
      /\ Calling(t, "write")' = Calling(t, "write") /\ NameOf(t)' = NameOf(t)
  BY DEF Goto, LockInv, StateTyped, Calling, NameOf
<1>2. Owned(NameOf(t))' = Owned(NameOf(t)) BY <1>1 DEF Owned
<1> QED BY <1>1, <1>2 DEF Counted, SameClosers

LEMMA CallCounts ==
  ASSUME LockInv, BoxInv, CountInv, NEW t \in Threads, NEW op \in Ops, NEW r \in Roots,
         NEW n \in Names, Call(t, op, r, n)
  PROVE  CountInv'
<1>1. /\ pc[t] = "idle" /\ task[t] = NoTask
      /\ pc' = [pc EXCEPT ![t] = FirstStep(op)]
      /\ task' = [task EXCEPT ![t] = [op |-> op, root |-> r, name |-> n]]
      /\ UNCHANGED <<databases, compacting>>
  BY DEF Call, Goto, registryVars, LockInv, StepMatchesCall
<1>2. pc'[t] \notin {"findCompacting", "findMigrating"}
  BY <1>1 DEF FirstStep, LockInv, StateTyped
<1>3. \A u \in Threads \ {t} : pc'[u] = pc[u] /\ task'[u] = task[u]
  BY <1>1 DEF LockInv, StateTyped
<1>4. owned' \in Ledgers /\ \A m \in Names : Out(m)' = Out(m) /\ Owned(m)' <= Owned(m)
  <2>1. CASE op = "close"
    BY <2>1, CloseMoves DEF CountInv, Ledgers
  <2>2. CASE op # "close"
    <3>1. owned' = owned BY <2>2 DEF Call
    <3>2. ASSUME NEW m \in Names PROVE Out(m)' = Out(m) /\ Owned(m)' <= Owned(m)
      <4>1. \A u \in Threads : task'[u].op = "close" /\ task'[u].name = m
                                 <=> task[u].op = "close" /\ task[u].name = m
        BY <1>1, <2>2 DEF LockInv, StateTyped, NoTask
      <4>2. Closing(m)' = Closing(m) BY <4>1 DEF Closing, Calling, NameOf
      <4>3. Owned(m)' = Owned(m) BY <3>1 DEF Owned
      <4>4. Owned(m) \in Nat BY OutTyped DEF CountInv, Ledgers
      <4> QED BY <4>2, <4>3, <4>4 DEF Out
    <3> QED BY <3>1, <3>2 DEF CountInv, Ledgers
  <2> QED BY <2>1, <2>2
<1>5. WritersFindOwnedBox'
  <2>1. FindersUndisturbed(t) BY <1>2, <1>3, <1>4 DEF FindersUndisturbed
  <2> QED BY <1>4, <2>1, FindersServed
<1>6. HandlesCounted'
  BY <1>1, <1>4 DEF CountInv, HandlesCounted, Out
<1>7. CompactedForOne'
  <2> SUFFICES ASSUME NEW m \in compacting
               PROVE  /\ Out(m)' = 1
                      /\ \E u \in Threads : NameOf(u)' = m /\ pc'[u] \in CompactSteps
    BY <1>1 DEF CompactedForOne
  <2>1. PICK u \in Threads : NameOf(u) = m /\ pc[u] \in CompactSteps
    BY DEF CountInv, CompactedForOne
  <2>2. u # t BY <1>1, <2>1 DEF CompactSteps
  <2>3. m \in Names /\ Out(m) = 1 BY DEF BoxInv, CompactedAside, CountInv, CompactedForOne
  <2> QED BY <1>3, <1>4, <2>1, <2>2, <2>3 DEF NameOf
<1> QED BY <1>4, <1>5, <1>6, <1>7 DEF CountInv, Ledgers

LEMMA InitCounts ==
  ASSUME LockInv, NEW t \in Threads, InitCheck(t) \/ InitWrite(t)
  PROVE  Counted(t)
<1>1. /\ UNCHANGED <<owned, databases, compacting>> /\ ~Calling(t, "close")
      /\ pc[t] \notin CompactSteps
  BY DEF InitCheck, InitWrite, registryVars, Calling, CompactSteps, LockInv, StepMatchesCall
<1>2. \/ Return(t)
      \/ Goto(t, "lockRead") /\ task' = task
      \/ Goto(t, "initWrite") /\ task' = task
  BY DEF InitCheck, InitWrite, AfterInit
<1>3. CASE Return(t) BY <1>1, <1>3, ReturnCounted DEF Return
<1>4. CASE Goto(t, "lockRead") /\ task' = task BY <1>1, <1>4, ProceedCounted DEF Steps
<1>5. CASE Goto(t, "initWrite") /\ task' = task BY <1>1, <1>5, ProceedCounted DEF Steps
<1> QED BY <1>2, <1>3, <1>4, <1>5

LEMMA LockCounts ==
  ASSUME LockInv, NEW t \in Threads, LockRead(t) \/ LockCreate(t) \/ LockAcquire(t)
  PROVE  Counted(t)
<1>1. UNCHANGED <<owned, databases, compacting, task>> /\ pc[t] \notin CompactSteps
  BY DEF LockRead, LockCreate, LockAcquire, registryVars, CompactSteps
<1>2. \E step \in Steps \ {"findCompacting", "findMigrating"} : Goto(t, step)
  BY DEF LockRead, LockCreate, LockAcquire, Steps
<1> QED BY <1>1, <1>2, ProceedCounted

LEMMA EncryptCounts ==
  ASSUME LockInv, NEW t \in Threads, EncryptStep(t)
  PROVE  Counted(t)
<1>1. /\ UNCHANGED <<owned, databases, compacting>> /\ ~Calling(t, "close")
      /\ pc[t] \notin CompactSteps
  BY DEF EncryptStep, EncryptEnter, EncryptMark, EncryptOpen, EncryptUnmark, registryVars,
         Calling, CompactSteps, EncryptSteps, LockInv, StepMatchesCall
<1>2. \/ Return(t)
      \/ \E step \in Steps \ {"findCompacting", "findMigrating"} : Goto(t, step) /\ task' = task
  BY DEF EncryptStep, EncryptEnter, EncryptMark, EncryptOpen, EncryptUnmark, Steps
<1> QED BY <1>1, <1>2, ReturnCounted, ProceedCounted DEF Return

LEMMA DeleteCounts ==
  ASSUME LockInv, NEW t \in Threads, Delete(t) \/ OpenFails(t)
  PROVE  Counted(t)
<1>1. /\ UNCHANGED <<owned, databases, compacting>> /\ ~Calling(t, "close") /\ Leave(t)
      /\ pc[t] \notin CompactSteps
  BY DEF Delete, OpenFails, Return, Calling, CompactSteps
<1> QED BY <1>1, ReturnCounted

\* A write that does not find its box has no client left: the box is counted
\* when nobody compacts it, and nobody does, as the write has the lock.
LEMMA UseCounts ==
  ASSUME LockInv, BoxInv, CountInv, NEW t \in Threads, UseStep(t)
  PROVE  Counted(t)
<1>1. /\ UNCHANGED <<owned, databases, compacting>> /\ ~Calling(t, "close")
      /\ pc[t] \notin CompactSteps
  BY DEF UseStep, Find, FindCompacting, FindMigrating, Use, registryVars, Calling,
         CompactSteps, UseSteps, LockInv, StepMatchesCall
<1>2. CASE Return(t) BY <1>1, <1>2, ReturnCounted DEF Return
<1>3. CASE Find(t) /\ databases[NameOf(t)].open
  BY <1>1, <1>3, ProceedCounted DEF Find, Steps
<1>4. CASE Find(t) /\ ~databases[NameOf(t)].open
  <2>1. Goto(t, "findCompacting") /\ task' = task /\ pc[t] = "find" BY <1>4 DEF Find
  <2>2. ASSUME Calling(t, "write") PROVE Owned(NameOf(t)) = 0
    <3>1. Critical(t) /\ NameOf(t) \in Names
      BY <2>1, <2>2 DEF Critical, Calling, Locked, Ops, UseSteps, LockInv, StateTyped, NameOf,
                        NoTask
    <3>2. NameOf(t) \notin compacting
      <4> SUFFICES ASSUME NameOf(t) \in compacting PROVE FALSE OBVIOUS
      <4>1. PICK u \in Threads : NameOf(u) = NameOf(t) /\ pc[u] \in CompactSteps
        BY DEF CountInv, CompactedForOne
      <4>2. Critical(u) /\ u # t BY <2>1, <4>1, EnterCritical DEF CompactSteps
      <4> QED BY <3>1, <4>1, <4>2, Exclusion
    <3>3. Out(NameOf(t)) = databases[NameOf(t)].handles /\ ~(databases[NameOf(t)].handles > 0)
      BY <1>4, <3>1, <3>2 DEF CountInv, HandlesCounted, Out
    <3> QED BY <3>1, <3>3, OutTyped DEF CountInv, Ledgers, Out
  <2> QED BY <1>1, <2>1, <2>2, ProceedCounted DEF Steps
<1>5. CASE FindCompacting(t) /\ ~Return(t)
  <2>1. /\ Goto(t, "findMigrating") /\ task' = task /\ pc[t] = "findCompacting"
    BY <1>5 DEF FindCompacting
  <2>2. Calling(t, "write") => Owned(NameOf(t)) = 0
    BY <2>1 DEF CountInv, WritersFindOwnedBox
  <2> QED BY <1>1, <2>1, <2>2, ProceedCounted DEF Steps
<1> QED BY <1>2, <1>3, <1>4, <1>5 DEF UseStep, FindMigrating, Use

-----------------------------------------------------------------------------
(* Steps that open, close and compact.                                     *)

LEMMA OpenSharedCounts ==
  ASSUME LockInv, BoxInv, CountInv, NEW t \in Threads, OpenShared(t) \/ OpenFile(t)
  PROVE  CountInv'
<1>0. PICK n \in Names : n = NameOf(t) BY EnterCritical DEF OpenShared, OpenFile
<1> DEFINE entry == databases'[n]
<1>1. /\ Critical(t) /\ n \in Names /\ task[t].root \in Roots /\ pc[t] = "enter"
  BY <1>0, EnterCritical DEF OpenShared, OpenFile, LockInv, StateTyped, Critical, NoTask,
                             Locked, Ops
<1>2. /\ n \notin compacting /\ compacting' = compacting /\ Return(t) /\ ~Calling(t, "close")
      /\ owned' = [owned EXCEPT ![<<task[t].root, n>>] = @ + 1]
  BY <1>0 DEF OpenShared, OpenFile, CanCreate, Busy, registryVars, Calling
<1>3. SameClosers(t) /\ \A u \in Threads \ {t} : pc'[u] = pc[u] /\ task'[u] = task[u]
  BY <1>2 DEF Return, Leave, Goto, SameClosers, LockInv, StateTyped
<1>4. /\ owned' \in Ledgers
      /\ \A m \in Names : Out(m)' = Out(m) + (IF m = n THEN 1 ELSE 0)
      /\ \A m \in Names \ {n} : Owned(m)' = Owned(m)
  BY <1>1, <1>2, <1>3, OpenCounts DEF CountInv, Ledgers, LockInv
<1>5. \A m \in Names : Out(m) \in Nat BY OutTyped DEF CountInv, Ledgers, Out
<1>6. /\ databases[n].handles = Out(n) /\ (databases[n].open <=> databases[n].handles > 0)
  BY <1>1, <1>2 DEF CountInv, HandlesCounted, Out
<1>7. /\ databases' = [databases EXCEPT ![n] = entry]
      /\ entry.handles = Out(n) + 1 /\ entry.open
  <2>1. databases[n] \in Entries /\ databases \in [Names -> Entries]
    BY <1>1 DEF LockInv, StateTyped
  <2>2. CASE OpenShared(t)
    BY <1>0, <1>6, <2>1, <2>2 DEF OpenShared, Entries
  <2>3. CASE OpenFile(t)
    BY <1>0, <1>5, <1>6, <2>1, <2>3 DEF OpenFile, CanCreate
  <2> QED BY <2>2, <2>3
<1>8. pc'[t] = "idle" BY <1>2 DEF Return, Leave, Goto, LockInv, StateTyped
<1>9. PICK new : new = entry OBVIOUS
<1> HIDE DEF entry
<1>10. Recounted(t, new, n)
  BY <1>0, <1>1, <1>2, <1>3, <1>4, <1>5, <1>7, <1>8, <1>9 DEF Recounted
<1> QED BY <1>10, CountsChange

LEMMA CloseStepCounts ==
  ASSUME LockInv, BoxInv, CountInv, NEW t \in Threads, Close(t)
  PROVE  CountInv'
<1>0. PICK n \in Names : n = NameOf(t) BY EnterCritical DEF Close
<1> DEFINE entry == Released(databases[n])
<1>1. /\ Critical(t) /\ n \in Names /\ pc[t] = "enter"
  BY EnterCritical DEF Close
<1>2. /\ compacting' = compacting /\ Return(t) /\ Calling(t, "close") /\ owned' = owned
      /\ databases' = [databases EXCEPT ![n] = entry]
  BY <1>0 DEF Close
<1>3. /\ task' = [task EXCEPT ![t] = NoTask] /\ pc'[t] = "idle"
      /\ \A u \in Threads \ {t} : pc'[u] = pc[u] /\ task'[u] = task[u]
  BY <1>2 DEF Return, Leave, Goto, LockInv, StateTyped
<1>4. /\ Out(n) \in Nat \ {0}
      /\ \A m \in Names : Out(m)' = Out(m) - (IF m = n THEN 1 ELSE 0)
      /\ \A m \in Names : Owned(m)' = Owned(m)
  BY <1>0, <1>2, <1>3, CloseCounts DEF CountInv, Ledgers, LockInv
<1>5. n \notin compacting
  <2> SUFFICES ASSUME n \in compacting PROVE FALSE OBVIOUS
  <2>1. PICK u \in Threads : NameOf(u) = n /\ pc[u] \in CompactSteps
    BY DEF CountInv, CompactedForOne
  <2>2. Critical(u) /\ u # t BY <1>1, <2>1, EnterCritical DEF CompactSteps
  <2> QED BY <1>0, <1>1, <2>1, <2>2, Exclusion
<1>6. \A m \in Names : Out(m) \in Nat BY OutTyped DEF CountInv, Ledgers, Out
<1>7. /\ databases[n].handles = Out(n) /\ (databases[n].open <=> databases[n].handles > 0)
  BY <1>1, <1>5 DEF CountInv, HandlesCounted, Out
<1>8. entry.handles = Out(n) - 1 /\ (entry.open <=> entry.handles > 0)
  <2>1. databases[n] \in Entries BY <1>1 DEF LockInv, StateTyped
  <2> QED BY <1>4, <1>7, <2>1 DEF Released, Unregistered, Entries
<1>9. PICK new : new = entry OBVIOUS
<1> HIDE DEF entry
<1>10. Recounted(t, new, n)
  BY <1>0, <1>1, <1>2, <1>3, <1>4, <1>5, <1>6, <1>8, <1>9 DEF Recounted, CountInv, Ledgers
<1> QED BY <1>10, CountsChange

LEMMA CompactCounts ==
  ASSUME LockInv, BoxInv, CountInv, NEW t \in Threads, CompactStep(t)
  PROVE  CountInv'
<1>1. Critical(t) /\ NameOf(t) \in Names /\ ~Calling(t, "close") /\ owned' = owned
  BY EnterCritical DEF CompactStep, CompactEnter, CompactUnwrap, CompactReinsert, CompactSteps,
                       Calling, LockInv, StepMatchesCall
<1>0. PICK n \in Names : n = NameOf(t) BY <1>1
<1>2. CASE CompactEnter(t) /\ ~CanCompact(n)
  <2>1. Return(t) /\ UNCHANGED <<databases, compacting>> /\ pc[t] \notin CompactSteps
    BY <1>0, <1>2 DEF CompactEnter, CompactSteps
  <2> QED BY <1>1, <2>1, ReturnCounted, CountsSame DEF Return
<1>3. CASE CompactUnwrap(t)
  <2>1. Goto(t, "compReinsert") /\ task' = task /\ UNCHANGED <<databases, compacting>>
    BY <1>3 DEF CompactUnwrap, registryVars
  <2>2. Counted(t) BY <1>1, <2>1, ProceedCounted DEF CompactSteps, Steps
  <2> QED BY <2>2, CountsSame
<1>4. ASSUME SameClosers(t), NEW m \in Names
      PROVE  Owned(m)' = Owned(m) /\ Out(m)' = Out(m)
  BY <1>1, <1>4, ClosingKept DEF LockInv, Owned, Out
<1>5. CASE CompactEnter(t) /\ CanCompact(n)
  <2>1. /\ compacting' = compacting \cup {n}
        /\ databases' = [databases EXCEPT ![n] = Unregistered]
        /\ task' = task /\ Goto(t, "compUnwrap")
        /\ databases[n].open /\ databases[n].handles = 1
    BY <1>0, <1>5 DEF CompactEnter, CanCompact
  <2>2. /\ pc'[t] = "compUnwrap" /\ SameClosers(t) /\ NameOf(t)' = n
        /\ \A u \in Threads \ {t} : pc'[u] = pc[u] /\ task'[u] = task[u]
    BY <1>0, <2>1 DEF Goto, SameClosers, NameOf, LockInv, StateTyped
  <2>3. n \notin compacting BY <2>1 DEF BoxInv, CompactedAside
  <2>4. Out(n) = 1 BY <1>1, <2>1, <2>3 DEF CountInv, HandlesCounted, Out
  <2>5. Recounted(t, Unregistered, n)
    BY <1>0, <1>1, <1>4, <2>1, <2>2, <2>4 DEF Recounted, CountInv, Ledgers, CompactSteps
  <2> QED BY <2>5, CountsChange
<1>6. CASE CompactReinsert(t)
  <2> DEFINE entry == [open |-> TRUE, handles |-> 1, root |-> arc[t].root]
  <2>1. /\ compacting' = compacting \ {n} /\ Return(t) /\ pc[t] \in CompactSteps
        /\ databases' = [databases EXCEPT ![n] = entry]
    BY <1>0, <1>6 DEF CompactReinsert, CompactSteps
  <2>2. /\ pc'[t] = "idle" /\ SameClosers(t)
        /\ \A u \in Threads \ {t} : pc'[u] = pc[u] /\ task'[u] = task[u]
    BY <1>1, <2>1 DEF Return, Leave, Goto, SameClosers, LockInv, StateTyped
  <2>3. Out(n) = 1
    BY <1>0, <2>1 DEF BoxInv, CompactedAside, CountInv, CompactedForOne
  <2>4. entry.handles = 1 /\ entry.open OBVIOUS
  <2>5. PICK new : new = entry OBVIOUS
  <2> HIDE DEF entry
  <2>6. Recounted(t, new, n)
    BY <1>0, <1>1, <1>4, <2>1, <2>2, <2>3, <2>4, <2>5 DEF Recounted, CountInv, Ledgers
  <2> QED BY <2>6, CountsChange
<1> QED BY <1>2, <1>3, <1>5, <1>6 DEF CompactStep

-----------------------------------------------------------------------------
LEMMA InitCount == Init => CountInv
<1> SUFFICES ASSUME Init PROVE CountInv OBVIOUS
<1>1. owned \in Ledgers /\ \A x \in Roots \X Names : owned[x] = 0 BY DEF Init, Ledgers
<1>2. \A n \in Names : Owned(n) = 0 BY <1>1, SumZero DEF Owned
<1>3. \A n \in Names : Closing(n) = {}
  BY DEF Init, Closing, Calling, NoTask
<1>4. \A n \in Names : Cardinality(Closing(n)) = 0 BY <1>1, <1>3, OutTyped
<1>5. HandlesCounted BY <1>2, <1>4 DEF Init, HandlesCounted, Unregistered
<1>6. CompactedForOne /\ WritersFindOwnedBox
  BY DEF Init, CompactedForOne, WritersFindOwnedBox
<1> QED BY <1>1, <1>5, <1>6 DEF CountInv, Ledgers

LEMMA CountInvariance == LifecycleInv /\ CountInv /\ [Next]_vars => CountInv'
<1> SUFFICES ASSUME LockInv, BoxInv, CountInv, [Next]_vars PROVE CountInv'
  BY DEF LifecycleInv
<1>1. ASSUME NEW t \in Threads, NEW op \in Ops, NEW r \in Roots, NEW n \in Names,
             Call(t, op, r, n)
      PROVE  CountInv'
  BY <1>1, CallCounts
<1>2. ASSUME NEW t \in Threads, LockAcquire(t) PROVE CountInv'
  BY <1>2, LockCounts, CountsSame
<1>3. ASSUME NEW t \in Threads, Run(t) PROVE CountInv'
  <2>1. CASE InitCheck(t) \/ InitWrite(t) BY <2>1, InitCounts, CountsSame
  <2>2. CASE LockRead(t) \/ LockCreate(t) BY <2>2, LockCounts, CountsSame
  <2>3. CASE OpenStep(t)
    BY <2>3, OpenSharedCounts, CloseStepCounts, DeleteCounts, CountsSame DEF OpenStep
  <2>4. CASE EncryptStep(t) BY <2>4, EncryptCounts, CountsSame
  <2>5. CASE CompactStep(t) BY <2>5, CompactCounts
  <2>6. CASE UseStep(t) BY <2>6, UseCounts, CountsSame
  <2> QED BY <1>3, <2>1, <2>2, <2>3, <2>4, <2>5, <2>6 DEF Run
<1>4. CASE UNCHANGED vars
  <2>1. UNCHANGED <<owned, databases, compacting, pc, task>>
    BY <1>4 DEF vars, registryVars, threadVars
  <2>2. \A n : Owned(n)' = Owned(n) BY <2>1 DEF Owned
  <2>3. \A n : Closing(n)' = Closing(n) BY <2>1 DEF Closing, Calling, NameOf
  <2>4. \A u \in Threads : NameOf(u)' = NameOf(u) BY <2>1 DEF NameOf
  <2>5. WritersFindOwnedBox'
    BY <2>1, <2>2, <2>4 DEF CountInv, WritersFindOwnedBox, Calling
  <2>6. HandlesCounted' /\ CompactedForOne'
    BY <2>1, <2>2, <2>3, <2>4 DEF CountInv, HandlesCounted, CompactedForOne, Out
  <2> QED BY <2>1, <2>5, <2>6 DEF CountInv
<1> QED BY <1>1, <1>2, <1>3, <1>4 DEF Next

LEMMA CountAlways == Spec => []CountInv
  BY InitCount, CountInvariance, LifecycleAlways, PTL DEF Spec

\* The registry counts exactly the handles that are out, and has an entry as
\* long as there is one, for any number of clients (db.rs:372-376, 425-438).
THEOREM HandlesAlwaysCounted == Spec => []HandlesCounted
<1>1. CountInv => HandlesCounted BY DEF CountInv
<1> QED BY <1>1, CountAlways, PTL

\* A mutation that does not find its box has no client left to disappoint: the
\* lock keeps opens, closes and compactions out meanwhile (db.rs:172-183 under
\* core.rs:59-66).
THEOREM WritersServed == Spec => []WritersFindOwnedBox
<1>1. CountInv => WritersFindOwnedBox BY DEF CountInv
<1> QED BY <1>1, CountAlways, PTL
=============================================================================
