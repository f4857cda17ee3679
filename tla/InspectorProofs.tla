-------------------------- MODULE InspectorProofs --------------------------
(***************************************************************************)
(* Every call of the inspector works on its own copy and answers for one   *)
(* content of the box: the steps are sorted by what they do to the         *)
(* temporary directory, to the history of a call and to its reply, and     *)
(* each part of IndInv is kept by every step, given the parts before it.   *)
(***************************************************************************)
EXTENDS Inspector, FiniteSetTheorems, TLAPS

\* What RequireBox and Start decide, as alternatives.
LEMMA StartCases ==
  ASSUME NEW c \in Calls, Start(c)
  PROVE  /\ pc[c] = "idle"
         /\ during' = [during EXCEPT ![c] = {live}]
         /\ UNCHANGED <<live, commits, tmp, counter, line, proc, path, tries, attached, copied>>
         /\ \/ line[c].command = "help" /\ Finish(c, Ok(<<>>))
            \/ line[c].command # "help" /\ ~Parse(line[c]).ok /\ Finish(c, Fail(2))
            \/ line[c].command # "help" /\ Parse(line[c]).ok /\ ~line[c].dir /\ Finish(c, Fail(3))
            \/ Understood(line[c]) /\ Goto(c, "requireBox") /\ UNCHANGED reply
  BY DEF Start, Understood

LEMMA RequireBoxCases ==
  ASSUME NEW c \in Calls, RequireBox(c), Understood(line[c])
  PROVE  /\ pc[c] = "requireBox"
         /\ UNCHANGED tmp /\ Quiet(c)
         /\ \/ Finish(c, Expected(line[c], live))
            \/ Admitted(line[c]) /\ Exists /\ Goto(c, "recheck") /\ UNCHANGED reply
  <1>1. /\ pc[c] = "requireBox"
        /\ UNCHANGED tmp /\ Quiet(c)
    BY DEF RequireBox
  <1>2. CASE line[c].command = "boxes"
    <2>1. Expected(line[c], live) = Ok(IF Exists THEN <<"box">> ELSE <<>>)
      BY <1>2 DEF Expected, Understood, Exists
    <2>2. QED BY <1>1, <1>2, <2>1 DEF RequireBox, Finish
  <1>3. CASE line[c].command # "boxes" /\ Refusal(line[c]) # 0
    <2>1. Expected(line[c], live) = Fail(Refusal(line[c]))
      BY <1>3 DEF Expected, Understood, Exists, Refusal
    <2>2. QED BY <1>1, <1>3, <2>1 DEF RequireBox, Finish
  <1>4. CASE line[c].command # "boxes" /\ Refusal(line[c]) = 0
    <2>1. Admitted(line[c]) /\ Exists
      <3>1. ~Exists => Refusal(line[c]) = 4
        BY DEF Refusal
      <3>2. Exists /\ NeedsFull(line[c]) => Refusal(line[c]) = 6
        BY DEF Refusal
      <3>3. Exists /\ ~NeedsFull(line[c]) /\ LacksSecret(line[c]) => Refusal(line[c]) = 5
        BY DEF Refusal
      <3>4. QED BY <1>4, <3>1, <3>2, <3>3 DEF Admitted
    <2>2. QED BY <1>1, <1>4, <2>1 DEF RequireBox
  <1>5. QED BY <1>2, <1>3, <1>4

-----------------------------------------------------------------------------
(* A step of a call.                                                       *)

CallStep(c) == Start(c) \/ Work(c) \/ Fault(c)

LEMMA NextCases ==
  ASSUME Next
  PROVE  \/ AppStep \/ \E c \in Calls : CallStep(c)
         \/ \E p \in Procs : Kill(p) \/ Restart(p)
  BY DEF Next, CallStep

\* One call's step does not concern the others.
LEMMA OthersRest ==
  ASSUME TypeOK, NEW c \in Calls, CallStep(c)
  PROVE  /\ UNCHANGED <<live, line, proc>>
         /\ \A d \in Calls : d # c =>
              /\ pc'[d] = pc[d] /\ path'[d] = path[d] /\ reply'[d] = reply[d]
              /\ copied'[d] = copied[d] /\ during'[d] = during[d]
  <1>1. CASE Start(c)
    <2>1. /\ UNCHANGED <<live, line, proc, path, copied>> /\ during' = [during EXCEPT ![c] = {live}]
          /\ \E s : Goto(c, s)
          /\ UNCHANGED reply \/ \E r : reply' = [reply EXCEPT ![c] = r]
      BY <1>1, StartCases DEF Finish
    <2>2. QED BY <2>1 DEF TypeOK, Goto
  <1>2. CASE RequireBox(c)
    BY <1>2 DEF RequireBox, TypeOK, Quiet, Environment, Goto, Finish
  <1>3. CASE Recheck(c)
    BY <1>3 DEF Recheck, TypeOK, Quiet, Environment, Goto, Finish
  <1>4. CASE OpenSource(c)
    BY <1>4 DEF OpenSource, TypeOK, Quiet, Environment, Goto, Finish
  <1>5. CASE CreateNew(c)
    BY <1>5 DEF CreateNew, TypeOK, Quiet, Environment, Goto, Finish, NewSnapshot
  <1>6. CASE Copy(c)
    BY <1>6 DEF Copy, TypeOK, Quiet, Environment, Goto, Finish
  <1>7. CASE OpenCopy(c)
    BY <1>7 DEF OpenCopy, TypeOK, Quiet, Environment, Goto, Finish
  <1>8. CASE Read(c)
    BY <1>8 DEF Read, TypeOK, Quiet, Environment, Goto, Finish
  <1>9. CASE Drop(c)
    BY <1>9 DEF Drop, TypeOK, Quiet, Environment, Goto, Finish
  <1>10. CASE Output(c)
    BY <1>10 DEF Output, TypeOK, Quiet, Environment, Goto, Finish
  <1>11. CASE CreateFails(c)
    BY <1>11 DEF CreateFails, TypeOK, Quiet, Environment, Goto, Finish
  <1>12. CASE CopyFails(c)
    BY <1>12 DEF CopyFails, TypeOK, Quiet, Environment, Goto, Finish
  <1>13. CASE ReadFails(c)
    BY <1>13 DEF ReadFails, TypeOK, Quiet, Environment, Goto, Finish
  <1>14. CASE OutputFails(c)
    BY <1>14 DEF OutputFails, TypeOK, Quiet, Environment, Goto, Finish
  <1>15. QED
    BY <1>1, <1>2, <1>3, <1>4, <1>5, <1>6, <1>7, <1>8, <1>9, <1>10, <1>11, <1>12, <1>13, <1>14
    DEF CallStep, Work, Fault

\* The type invariant.
LEMMA SuccessorsTyped ==
  ASSUME NEW f \in Files, f.stage = "absent" => f = NoFile, NEW g \in Successors(f)
  PROVE  g \in Files /\ (g.stage = "absent" => g = NoFile)
  <1> USE DEF File, NoFile, Files, Encrypted, Modes
  <1>1. NoFile \in Files /\ NoFile.stage = "absent"
    OBVIOUS
  <1>2. CASE f.stage = "absent"
    BY <1>2 DEF Successors
  <1>3. CASE f.stage = "zero"
    BY <1>3 DEF Successors
  <1>7. ASSUME NEW h \in Files, h.stage = "ready"
        PROVE  Encrypted(h) \in Files /\ Encrypted(h).stage = "ready"
    BY <1>7
  <1>4. CASE f.stage = "bare"
    <2> DEFINE new == File("ready", "none", Plain)
    <2>1. new \in Files /\ new.stage = "ready"
      OBVIOUS
    <2>2. g \in {NoFile, new, Encrypted(new)}
      BY <1>4 DEF Successors
    <2> HIDE DEF new
    <2>3. QED BY <1>1, <1>7, <2>1, <2>2
  <1>5. CASE f.stage = "ready"
    <2>1. CASE f.mode = "future"
      BY <1>5, <2>1 DEF Successors
    <2>2. CASE f.mode = "legacy"
      BY <1>5, <2>2 DEF Successors
    <2>3. CASE f.mode \notin {"future", "legacy"}
      <3>1. \/ \E k \in Keys, v \in Values \cup {Missing} : g = [f EXCEPT !.data[k] = v]
            \/ \E i \in IndexNames : g = [f EXCEPT !.defs = f.defs \cup {i}]
            \/ g = Encrypted(f) \/ g = NoFile
        BY <1>5, <2>3 DEF Successors
      <3>2. CASE \E k \in Keys, v \in Values \cup {Missing} : g = [f EXCEPT !.data[k] = v]
        BY <1>5, <3>2
      <3>3. CASE \E i \in IndexNames : g = [f EXCEPT !.defs = f.defs \cup {i}]
        BY <1>5, <3>3
      <3>4. QED BY <1>1, <1>5, <1>7, <3>1, <3>2, <3>3
    <2>4. QED BY <2>1, <2>2, <2>3
  <1>6. QED BY <1>2, <1>3, <1>4, <1>5

LEMMA SnapshotPathTyped ==
  ASSUME TypeOK, NEW c \in Calls
  PROVE  <<proc[c], Kind(c)>> \in Procs \X Kinds /\ SnapshotPath(c) \in Paths
  BY InspectorAssumption DEF TypeOK, Kind, Kinds, SnapshotPath, Paths

\* The temporary directory: its files, and whose they are.
LEMMA WithCopyFacts ==
  ASSUME TypeOK, NEW c \in Calls, NEW p
  PROVE  LET u == WithCopy(c, p)
         IN  /\ DOMAIN u = DOMAIN tmp \cup {p}
             /\ u[p].owner = c /\ u \in [DOMAIN u -> Entries]
             /\ \A q \in DOMAIN tmp : q # p => u[q] = tmp[q]
  <1>1. File("zero", "legacy", Plain) \in Files
    BY DEF File, Files, Modes
  <1>2. QED BY <1>1 DEF WithCopy, Entries, TypeOK

LEMMA CopiedFacts ==
  ASSUME TypeOK, NEW p \in DOMAIN tmp, NEW image \in Files \cup {Torn}
  PROVE  LET u == [tmp EXCEPT ![p].image = image]
         IN  /\ DOMAIN u = DOMAIN tmp
             /\ u[p].owner = tmp[p].owner /\ u[p].image = image /\ u \in [DOMAIN u -> Entries]
             /\ \A q \in DOMAIN tmp : q # p => u[q] = tmp[q]
  BY DEF TypeOK, Entries

LEMMA TypeInvariance == TypeOK /\ CopyInv /\ [Next]_vars => TypeOK'
  <1> SUFFICES ASSUME TypeOK, CopyInv, [Next]_vars PROVE TypeOK'
    OBVIOUS
  <1> USE DEF TypeOK, Running, Holding, Ended
  <1>1. ASSUME UNCHANGED vars PROVE TypeOK'
    BY <1>1 DEF vars, callVars
  <1>2. CASE AppStep
    BY <1>2, SuccessorsTyped DEF AppStep
  <1>3. ASSUME NEW p \in Procs, Kill(p) PROVE TypeOK'
    BY <1>3 DEF Kill, CountersReset
  <1>4. ASSUME NEW p \in Procs, Restart(p) PROVE TypeOK'
    BY <1>4 DEF Restart, CountersReset, callVars
  <1>5. ASSUME NEW c \in Calls, CallStep(c) PROVE TypeOK'
    <2> USE DEF Quiet, Environment, Goto, Finish, Unlink
    <2>1. CASE Start(c)
      <3>1. /\ UNCHANGED <<live, tmp, counter, proc, path, tries, attached, copied>>
            /\ during' = [during EXCEPT ![c] = {live}]
            /\ \E s \in {"output", "requireBox"} : pc' = [pc EXCEPT ![c] = s]
            /\ UNCHANGED reply \/ \E r : reply' = [reply EXCEPT ![c] = r]
        BY <2>1, StartCases
      <3>2. QED BY <3>1
    <2>2. CASE RequireBox(c)
      BY <2>2 DEF RequireBox
    <2>3. CASE Recheck(c)
      BY <2>3 DEF Recheck
    <2>4. CASE OpenSource(c)
      <3>1. /\ UNCHANGED <<live, tmp, counter, proc, path, tries, during>>
            /\ UNCHANGED attached \/ attached' = [attached EXCEPT ![c] = TRUE]
            /\ UNCHANGED copied \/ copied' = [copied EXCEPT ![c] = {live}]
            /\ \E s \in {"output", "createNew"} : pc' = [pc EXCEPT ![c] = s]
            /\ UNCHANGED reply \/ \E r : reply' = [reply EXCEPT ![c] = r]
        BY <2>4 DEF OpenSource
      <3>2. copied' \in [Calls -> SUBSET Files]
        <4>1. CASE UNCHANGED copied
          BY <4>1
        <4>2. CASE copied' = [copied EXCEPT ![c] = {live}]
          <5>1. {live} \in SUBSET Files
            OBVIOUS
          <5>2. QED BY <4>2, <5>1
        <4>3. QED BY <3>1, <4>1, <4>2
      <3>6. attached' \in [Calls -> BOOLEAN]
        <4>1. CASE UNCHANGED attached
          BY <4>1
        <4>2. CASE attached' = [attached EXCEPT ![c] = TRUE]
          BY <4>2
        <4>3. QED BY <3>1, <4>1, <4>2
      <3>3. pc' \in [Calls -> {"idle"} \cup Running \cup Ended]
        BY <3>1
      <3>4. DOMAIN reply' = Calls
        BY <3>1
      <3>5. QED BY <3>1, <3>2, <3>3, <3>4, <3>6
    <2>5. CASE CreateNew(c)
      <3>1. /\ UNCHANGED <<live, proc, attached, copied, during>>
            /\ counter' = [counter EXCEPT ![<<proc[c], Kind(c)>>] = @ + 1]
            /\ UNCHANGED tmp \/ \E p : tmp' = WithCopy(c, p)
            /\ UNCHANGED path \/ path' = [path EXCEPT ![c] = SnapshotPath(c)]
            /\ UNCHANGED tries \/ tries' = [tries EXCEPT ![c] = @ + 1]
            /\ \E s \in {"output", "createNew", "copy"} : pc' = [pc EXCEPT ![c] = s]
            /\ UNCHANGED reply \/ \E r : reply' = [reply EXCEPT ![c] = r]
        BY <2>5 DEF CreateNew, NewSnapshot
      <3>2. tmp' \in [DOMAIN tmp' -> Entries]
        <4>1. CASE UNCHANGED tmp
          BY <4>1
        <4>2. ASSUME NEW p, tmp' = WithCopy(c, p) PROVE tmp' \in [DOMAIN tmp' -> Entries]
          <5>1. WithCopy(c, p) \in [DOMAIN WithCopy(c, p) -> Entries]
            BY WithCopyFacts
          <5>2. QED BY <4>2, <5>1
        <4>3. QED BY <3>1, <4>1, <4>2
      <3>3. QED BY <3>1, <3>2, SnapshotPathTyped
    <2>6. CASE Copy(c)
      <3>1. /\ UNCHANGED <<live, counter, proc, path, tries, attached, copied, during, reply>>
            /\ pc' = [pc EXCEPT ![c] = "openCopy"]
            /\ \E image \in copied[c] \cup {Torn} : tmp' = [tmp EXCEPT ![path[c]].image = image]
        BY <2>6 DEF Copy
      <3>2. path[c] \in DOMAIN tmp
        BY <2>6 DEF CopyInv, OwnCopy, Copy
      <3>4. tmp' \in [DOMAIN tmp' -> Entries]
        <4>1. PICK image \in Files \cup {Torn} : tmp' = [tmp EXCEPT ![path[c]].image = image]
          BY <3>1
        <4> DEFINE u == [tmp EXCEPT ![path[c]].image = image]
        <4>2. u \in [DOMAIN u -> Entries]
          BY <3>2, CopiedFacts
        <4>3. tmp' = u
          BY <4>1
        <4> HIDE DEF u
        <4>4. QED BY <4>2, <4>3
      <3>3. QED BY <3>1, <3>4
    <2>7. CASE OpenCopy(c)
      BY <2>7 DEF OpenCopy
    <2>8. CASE Read(c)
      BY <2>8 DEF Read
    <2>9. CASE Drop(c)
      BY <2>9 DEF Drop
    <2>10. CASE Output(c)
      BY <2>10 DEF Output
    <2>11. CASE CreateFails(c)
      BY <2>11, SnapshotPathTyped DEF CreateFails
    <2>12. CASE CopyFails(c)
      BY <2>12 DEF CopyFails
    <2>13. CASE ReadFails(c)
      BY <2>13 DEF ReadFails
    <2>14. CASE OutputFails(c)
      BY <2>14 DEF OutputFails
    <2>15. QED
      BY <1>5, <2>1, <2>2, <2>3, <2>4, <2>5, <2>6, <2>7, <2>8, <2>9, <2>10, <2>11, <2>12, <2>13, <2>14
      DEF CallStep, Work, Fault
  <1>6. QED BY <1>1, <1>2, <1>3, <1>4, <1>5, NextCases

-----------------------------------------------------------------------------
(* What a call does to the temporary directory.                            *)

Rests(c) ==
  /\ UNCHANGED <<tmp, path>>
  /\ pc[c] \in Holding <=> pc'[c] \in Holding
Creates(c) ==
  LET p == SnapshotPath(c) IN
  /\ pc[c] \notin Holding /\ pc'[c] = "copy"
  /\ p \notin DOMAIN tmp /\ tmp' = WithCopy(c, p) /\ path' = [path EXCEPT ![c] = p]
Fills(c) ==
  /\ pc[c] \in Holding /\ pc'[c] \in Holding /\ UNCHANGED path
  /\ \E image \in Files \cup {Torn} : tmp' = [tmp EXCEPT ![path[c]].image = image]
Removes(c) ==
  /\ pc[c] \in Holding /\ pc'[c] \notin Holding /\ UNCHANGED path /\ Unlink(c)

LEMMA DirectorySteps ==
  ASSUME TypeOK, NEW c \in Calls, CallStep(c)
  PROVE  /\ pc[c] # "killed" /\ pc'[c] # "killed"
         /\ Rests(c) \/ Creates(c) \/ Fills(c) \/ Removes(c)
  <1> USE DEF TypeOK, Holding, Quiet, Environment, Goto, Finish
  <1>1. CASE Start(c)
    BY <1>1, StartCases DEF Rests
  <1>2. CASE RequireBox(c)
    BY <1>2 DEF RequireBox, Rests
  <1>3. CASE Recheck(c)
    BY <1>3 DEF Recheck, Rests
  <1>4. CASE OpenSource(c)
    BY <1>4 DEF OpenSource, Rests
  <1>5. CASE CreateNew(c)
    BY <1>5 DEF CreateNew, Rests, Creates, NewSnapshot
  <1>6. CASE Copy(c)
    BY <1>6 DEF Copy, Fills
  <1>7. CASE OpenCopy(c)
    BY <1>7 DEF OpenCopy, Rests, Removes
  <1>8. CASE Read(c)
    BY <1>8 DEF Read, Rests
  <1>9. CASE Drop(c)
    BY <1>9 DEF Drop, Removes
  <1>10. CASE Output(c)
    BY <1>10 DEF Output, Rests
  <1>11. CASE CreateFails(c)
    BY <1>11 DEF CreateFails, Rests
  <1>12. CASE CopyFails(c)
    BY <1>12 DEF CopyFails, Removes
  <1>13. CASE ReadFails(c)
    BY <1>13 DEF ReadFails, Rests
  <1>14. CASE OutputFails(c)
    BY <1>14 DEF OutputFails, Rests
  <1>15. QED
    BY <1>1, <1>2, <1>3, <1>4, <1>5, <1>6, <1>7, <1>8, <1>9, <1>10, <1>11, <1>12, <1>13, <1>14
    DEF CallStep, Work, Fault

LEMMA CreatesFacts ==
  ASSUME TypeOK, NEW c \in Calls, Creates(c)
  PROVE  \E p : /\ p \notin DOMAIN tmp /\ path' = [path EXCEPT ![c] = p]
                /\ DOMAIN tmp' = DOMAIN tmp \cup {p} /\ tmp'[p].owner = c
                /\ \A q \in DOMAIN tmp : q # p => tmp'[q] = tmp[q]
  <1>1. PICK p : p \notin DOMAIN tmp /\ tmp' = WithCopy(c, p) /\ path' = [path EXCEPT ![c] = p]
    BY DEF Creates
  <1>2. /\ DOMAIN WithCopy(c, p) = DOMAIN tmp \cup {p} /\ WithCopy(c, p)[p].owner = c
        /\ \A q \in DOMAIN tmp : q # p => WithCopy(c, p)[q] = tmp[q]
    BY WithCopyFacts
  <1>3. QED BY <1>1, <1>2

\* A call at work finds its copy as it left it, whatever the others do.
LEMMA OthersKeepCopies ==
  ASSUME TypeOK, CopyInv, NEW c \in Calls, CallStep(c), NEW d \in Calls, d # c, pc[d] \in Holding
  PROVE  path[d] \in DOMAIN tmp' /\ tmp'[path[d]] = tmp[path[d]]
  <1>1. path[d] \in DOMAIN tmp /\ tmp[path[d]].owner = d
    BY DEF CopyInv, OwnCopy
  <1>2. CASE Rests(c)
    BY <1>1, <1>2 DEF Rests
  <1>3. CASE Creates(c)
    BY <1>1, <1>3, CreatesFacts
  <1>4. CASE Fills(c)
    BY <1>1, <1>4 DEF Fills, CopyInv, OwnCopy
  <1>5. CASE Removes(c)
    BY <1>1, <1>5 DEF Removes, Unlink, CopyInv, OwnCopy
  <1>6. QED BY <1>2, <1>3, <1>4, <1>5, DirectorySteps

LEMMA CopyInvariance == TypeOK /\ CopyInv /\ [Next]_vars => CopyInv'
  <1> SUFFICES ASSUME TypeOK, CopyInv, [Next]_vars PROVE CopyInv'
    OBVIOUS
  <1>1. ASSUME UNCHANGED <<tmp, path, pc>> PROVE CopyInv'
    BY <1>1 DEF CopyInv, OwnCopy
  <1>2. CASE AppStep \/ UNCHANGED vars
    BY <1>1, <1>2 DEF AppStep, vars, callVars
  <1>3. ASSUME NEW p \in Procs, Kill(p) PROVE CopyInv'
    BY <1>3 DEF Kill, CallsOf, CopyInv, OwnCopy, TypeOK, Entries, Holding
  <1>4. ASSUME NEW p \in Procs, Restart(p) PROVE CopyInv'
    BY <1>1, <1>4 DEF Restart, callVars
  <1>5. ASSUME NEW c \in Calls, CallStep(c) PROVE CopyInv'
    <2>1. \A d \in Calls : d # c => pc'[d] = pc[d] /\ path'[d] = path[d]
      BY <1>5, OthersRest
    <2>2. /\ \A d \in Calls : pc[d] \in Holding =>
               path[d] \in DOMAIN tmp /\ tmp[path[d]].owner = d
          /\ \A q \in DOMAIN tmp :
               /\ tmp[q].owner \in Calls
               /\ pc[tmp[q].owner] \in Holding \cup {"killed"}
               /\ pc[tmp[q].owner] \in Holding => path[tmp[q].owner] = q
      BY DEF CopyInv, OwnCopy, TypeOK, Entries
    <2>3. pc[c] # "killed" /\ pc'[c] # "killed"
      BY <1>5, DirectorySteps
    <2>4. CASE Rests(c)
      BY <2>1, <2>2, <2>3, <2>4 DEF Rests, CopyInv, OwnCopy
    <2>5. CASE Creates(c)
      <3>1. PICK p :
              /\ p \notin DOMAIN tmp /\ path' = [path EXCEPT ![c] = p]
              /\ DOMAIN tmp' = DOMAIN tmp \cup {p} /\ tmp'[p].owner = c
              /\ \A q \in DOMAIN tmp : q # p => tmp'[q] = tmp[q]
        BY <2>5, CreatesFacts
      <3>2. p \notin DOMAIN tmp /\ path'[c] = p /\ pc'[c] \in Holding /\ pc[c] \notin Holding
        BY <2>5, <3>1 DEF Creates, TypeOK, Holding
      <3>3. \A q \in DOMAIN tmp : q # p /\ tmp[q].owner # c
        BY <2>2, <2>3, <3>2
      <3>4. QED BY <2>1, <2>2, <3>1, <3>2, <3>3 DEF CopyInv, OwnCopy
    <2>6. CASE Fills(c)
      <3>1. PICK image \in Files \cup {Torn} : tmp' = [tmp EXCEPT ![path[c]].image = image]
        BY <2>6 DEF Fills
      <3>2. DOMAIN tmp' = DOMAIN tmp /\ \A q \in DOMAIN tmp : tmp'[q].owner = tmp[q].owner
        BY <2>2, <2>6, <3>1, CopiedFacts DEF Fills
      <3>3. QED BY <2>1, <2>2, <2>3, <2>6, <3>2 DEF Fills, CopyInv, OwnCopy
    <2>7. CASE Removes(c)
      <3>1. /\ DOMAIN tmp' = DOMAIN tmp \ {path[c]}
            /\ \A q \in DOMAIN tmp' : tmp'[q] = tmp[q]
        BY <2>7 DEF Removes, Unlink
      <3>2. QED BY <2>1, <2>2, <2>3, <2>7, <3>1 DEF Removes, CopyInv, OwnCopy
    <2>8. QED BY <1>5, <2>4, <2>5, <2>6, <2>7, DirectorySteps
  <1>6. QED BY <1>2, <1>3, <1>4, <1>5, NextCases

-----------------------------------------------------------------------------
(* What a call has lived through.                                          *)

LEMMA Several ==
  ASSUME NEW S, IsFiniteSet(S), NEW f \in S, NEW g \in S, f # g
  PROVE  Cardinality(S) > 1
  <1>1. Cardinality(S) \in Nat /\ Cardinality(S) # 0
    BY FS_CardinalityType, FS_EmptySet
  <1>2. Cardinality(S) # 1
    BY FS_Singleton
  <1>3. QED BY <1>1, <1>2

LEMMA Grows ==
  ASSUME NEW S, IsFiniteSet(S), NEW T, IsFiniteSet(T), S \subseteq T, Cardinality(S) > 1
  PROVE  Cardinality(T) > 1
  BY FS_CardinalityType, FS_Subset

LEMMA OneContent ==
  ASSUME NEW x
  PROVE  IsFiniteSet({x})
  BY FS_Singleton

\* A step of the application adds one content to what the calls see.
LEMMA AppFacts ==
  ASSUME TypeOK, HistoryInv, AppStep
  PROVE  /\ UNCHANGED <<pc, line, path, tmp, reply>>
         /\ \A c \in Calls :
              /\ during[c] \subseteq during'[c] /\ IsFiniteSet(during'[c])
              /\ pc[c] \in Running => live' \in during'[c]
  <1>1. PICK f \in Successors(live) :
          /\ live' = f
          /\ during' = [c \in Calls |-> IF pc[c] \in Running THEN during[c] \cup {f} ELSE during[c]]
          /\ UNCHANGED <<pc, line, path, tmp, reply>>
    BY DEF AppStep
  <1>2. ASSUME NEW c \in Calls
        PROVE  IsFiniteSet(during[c]) /\ IsFiniteSet(during[c] \cup {f})
    BY FS_AddElement DEF HistoryInv
  <1>3. QED BY <1>1, <1>2

\* Once it has begun, a call sees the box change through the application only.
LEMMA RunningSteps ==
  ASSUME TypeOK, NEW c \in Calls, CallStep(c), ~Start(c)
  PROVE  /\ UNCHANGED <<live, line, during>> /\ pc[c] \in Running
         /\ \E s \in (Running \ {"requireBox"}) \cup {"done"} : pc' = [pc EXCEPT ![c] = s]
         /\ OpenSource(c) \/ UNCHANGED copied
  <1> USE DEF Running, Holding, TypeOK, Quiet, Environment, Goto, Finish
  <1>1. CASE RequireBox(c)
    BY <1>1 DEF RequireBox
  <1>2. CASE Recheck(c)
    BY <1>2 DEF Recheck
  <1>3. CASE OpenSource(c)
    BY <1>3 DEF OpenSource
  <1>4. CASE CreateNew(c)
    BY <1>4 DEF CreateNew, NewSnapshot
  <1>5. CASE Copy(c)
    BY <1>5 DEF Copy
  <1>6. CASE OpenCopy(c)
    BY <1>6 DEF OpenCopy
  <1>7. CASE Read(c)
    BY <1>7 DEF Read
  <1>8. CASE Drop(c)
    BY <1>8 DEF Drop
  <1>9. CASE Output(c)
    BY <1>9 DEF Output
  <1>10. CASE CreateFails(c)
    BY <1>10 DEF CreateFails
  <1>11. CASE CopyFails(c)
    BY <1>11 DEF CopyFails
  <1>12. CASE ReadFails(c)
    BY <1>12 DEF ReadFails
  <1>13. CASE OutputFails(c)
    BY <1>13 DEF OutputFails
  <1>14. QED BY <1>1, <1>2, <1>3, <1>4, <1>5, <1>6, <1>7, <1>8, <1>9, <1>10, <1>11, <1>12, <1>13
    DEF CallStep, Work, Fault

LEMMA HistoryInvariance == TypeOK /\ HistoryInv /\ [Next]_vars => HistoryInv'
  <1> SUFFICES ASSUME TypeOK, HistoryInv, [Next]_vars PROVE HistoryInv'
    OBVIOUS
  <1>1. ASSUME UNCHANGED <<live, pc, copied, during>> PROVE HistoryInv'
    BY <1>1 DEF HistoryInv
  <1>2. CASE AppStep
    <2>1. PICK f \in Successors(live) :
            /\ live' = f
            /\ attached' = [c \in Calls |-> pc[c] \in Running /\ attached[c] /\ f # NoFile]
            /\ copied' = [c \in Calls |-> IF attached'[c] THEN copied[c] \cup {f} ELSE copied[c]]
            /\ during' = [c \in Calls |-> IF pc[c] \in Running THEN during[c] \cup {f} ELSE during[c]]
            /\ UNCHANGED pc
      BY <1>2 DEF AppStep
    <2>2. f.stage = "absent" => f = NoFile
      BY SuccessorsTyped DEF TypeOK
    <2>3. ASSUME NEW c \in Calls
          PROVE  /\ copied'[c] \subseteq during'[c]
                 /\ pc[c] = "idle" => copied'[c] = copied[c]
                 /\ \A g \in copied'[c] : g.stage # "absent"
      BY <2>1, <2>2 DEF HistoryInv, Running, Holding
    <2>4. QED BY <1>2, <2>1, <2>3, AppFacts DEF HistoryInv
  <1>3. ASSUME NEW p \in Procs, Kill(p) PROVE HistoryInv'
    <2>1. UNCHANGED <<live, copied, during>>
          /\ \A c \in Calls : pc'[c] = "killed" \/ pc'[c] = pc[c]
      BY <1>3 DEF Kill
    <2>2. QED BY <2>1 DEF HistoryInv, Running, Holding
  <1>4. CASE UNCHANGED vars \/ \E p \in Procs : Restart(p)
    BY <1>1, <1>4 DEF Restart, vars, callVars
  <1>5. ASSUME NEW c \in Calls, CallStep(c) PROVE HistoryInv'
    <2>1. CASE Start(c)
      <3>1. /\ UNCHANGED <<live, copied>> /\ during' = [during EXCEPT ![c] = {live}]
            /\ pc[c] = "idle"
        BY <2>1, StartCases
      <3>2. \A d \in Calls : d # c => pc'[d] = pc[d]
        BY <1>5, OthersRest
      <3>3. IsFiniteSet({live}) /\ during'[c] = {live} /\ copied[c] = {}
        BY <3>1, OneContent DEF TypeOK, HistoryInv
      <3>4. QED BY <3>1, <3>2, <3>3 DEF HistoryInv, TypeOK
    <2>2. CASE OpenSource(c)
      <3>1. /\ UNCHANGED <<live, during>> /\ pc[c] = "openSource"
            /\ pc' = [pc EXCEPT ![c] = "createNew"] \/ pc' = [pc EXCEPT ![c] = "output"]
            /\ \/ UNCHANGED copied
               \/ Exists /\ copied' = [copied EXCEPT ![c] = {live}]
        BY <2>2 DEF OpenSource, Environment, Goto, Finish
      <3>2. QED BY <3>1 DEF HistoryInv, TypeOK, Exists, Running, Holding
    <2>3. CASE ~Start(c) /\ ~OpenSource(c)
      <3>1. /\ UNCHANGED <<live, copied, during>> /\ pc[c] \in Running
            /\ \E s \in (Running \ {"requireBox"}) \cup {"done"} : pc' = [pc EXCEPT ![c] = s]
        BY <1>5, <2>3, RunningSteps
      <3>2. QED BY <3>1 DEF HistoryInv, TypeOK, Running, Holding
    <2>4. QED BY <2>1, <2>2, <2>3
  <1>6. QED BY <1>2, <1>3, <1>4, <1>5, NextCases

-----------------------------------------------------------------------------
(* What a call has been through.                                           *)

Snapshotting == Running \ {"requireBox", "drop", "output"}

\* The ways into and along the taking of a snapshot.
LEMMA SnapshotSteps ==
  ASSUME TypeOK, NEW c \in Calls, CallStep(c), ~Start(c), pc'[c] \in Snapshotting
  PROVE  pc[c] \in Snapshotting \/ RequireBox(c)
  <1> USE DEF Snapshotting, Running, Holding, TypeOK, Quiet, Environment, Goto, Finish
  <1>1. CASE Recheck(c)
    BY <1>1 DEF Recheck
  <1>2. CASE OpenSource(c)
    BY <1>2 DEF OpenSource
  <1>3. CASE CreateNew(c)
    BY <1>3 DEF CreateNew, NewSnapshot
  <1>4. CASE Copy(c)
    BY <1>4 DEF Copy
  <1>5. CASE OpenCopy(c)
    BY <1>5 DEF OpenCopy
  <1>6. CASE Read(c)
    BY <1>6 DEF Read
  <1>7. CASE Drop(c)
    BY <1>7 DEF Drop
  <1>8. CASE Output(c)
    BY <1>8 DEF Output
  <1>9. CASE CreateFails(c)
    BY <1>9 DEF CreateFails
  <1>10. CASE CopyFails(c)
    BY <1>10 DEF CopyFails
  <1>11. CASE ReadFails(c)
    BY <1>11 DEF ReadFails
  <1>12. CASE OutputFails(c)
    BY <1>12 DEF OutputFails
  <1>13. QED BY <1>1, <1>2, <1>3, <1>4, <1>5, <1>6, <1>7, <1>8, <1>9, <1>10, <1>11, <1>12
    DEF CallStep, Work, Fault

LEMMA AdmissionInvariance == TypeOK /\ HistoryInv /\ AdmissionInv /\ [Next]_vars => AdmissionInv'
  <1> SUFFICES ASSUME TypeOK, HistoryInv, AdmissionInv, [Next]_vars PROVE AdmissionInv'
    OBVIOUS
  <1>1. ASSUME UNCHANGED <<line, pc, during>> PROVE AdmissionInv'
    BY <1>1 DEF AdmissionInv
  <1>2. CASE AppStep
    BY <1>2, AppFacts DEF AdmissionInv
  <1>3. ASSUME NEW p \in Procs, Kill(p) PROVE AdmissionInv'
    <2>1. UNCHANGED <<line, during>>
          /\ \A c \in Calls : pc'[c] = "killed" \/ pc'[c] = pc[c]
      BY <1>3 DEF Kill
    <2>2. QED BY <2>1 DEF AdmissionInv, Running, Holding
  <1>4. CASE UNCHANGED vars \/ \E p \in Procs : Restart(p)
    BY <1>1, <1>4 DEF Restart, vars, callVars
  <1>5. ASSUME NEW c \in Calls, CallStep(c) PROVE AdmissionInv'
    <2>1. UNCHANGED <<live, line>>
          /\ \A d \in Calls : d # c => pc'[d] = pc[d] /\ during'[d] = during[d]
      BY <1>5, OthersRest
    <2>2. SUFFICES /\ pc'[c] = "requireBox" => Understood(line[c])
                   /\ pc'[c] \in Snapshotting =>
                        Admitted(line[c]) /\ \E f \in during'[c] : f.stage # "absent"
      BY <2>1 DEF AdmissionInv, Snapshotting
    <2>3. CASE Start(c)
      BY <2>3, StartCases DEF Goto, Finish, TypeOK, Snapshotting, Running, Holding
    <2>4. CASE ~Start(c)
      <3>1. UNCHANGED during /\ pc[c] \in Running
        BY <1>5, <2>4, RunningSteps
      <3>2. pc'[c] # "requireBox"
        BY <1>5, <2>4, RunningSteps DEF TypeOK
      <3>3. CASE RequireBox(c) /\ pc'[c] \in Snapshotting
        <4>1. Understood(line[c]) /\ live \in during[c]
          BY <3>1, <3>3 DEF RequireBox, AdmissionInv, HistoryInv
        <4>2. Admitted(line[c]) /\ Exists
          BY <3>3, <4>1, RequireBoxCases DEF Finish, Goto, Snapshotting, TypeOK
        <4>3. QED BY <3>1, <3>2, <4>1, <4>2 DEF Exists
      <3>4. CASE pc[c] \in Snapshotting
        BY <3>1, <3>2, <3>4 DEF AdmissionInv, Snapshotting
      <3>5. QED BY <1>5, <2>4, <3>2, <3>3, <3>4, SnapshotSteps
    <2>5. QED BY <2>3, <2>4
  <1>6. QED BY <1>2, <1>3, <1>4, <1>5, NextCases

-----------------------------------------------------------------------------
(* What a call has copied.                                                 *)

\* The image of a copy is complete, for a call that has lived through S.
Complete(image, S) ==
  \/ image \in S /\ image.stage # "absent"
  \/ image = Torn /\ \E f, g \in S : f # g

LEMMA CompleteGrows ==
  ASSUME NEW image, NEW S, NEW T, S \subseteq T, Complete(image, S)
  PROVE  Complete(image, T)
  BY DEF Complete

LEMMA ImageSteps ==
  ASSUME TypeOK, CopyInv, HistoryInv, ImageInv,
         NEW c \in Calls, CallStep(c), pc'[c] \in {"openCopy", "read"}
  PROVE  /\ UNCHANGED during
         /\ Complete(tmp'[path'[c]].image, during[c])
         /\ pc'[c] = "read" => Openable(tmp'[path'[c]].image)
  <1> USE DEF Goto, Finish
  <1>1. CASE Copy(c)
    <2>1. PICK image \in copied[c] \cup (IF Cardinality(copied[c]) > 1 THEN {Torn} ELSE {}) :
            tmp' = [tmp EXCEPT ![path[c]].image = image]
      BY <1>1 DEF Copy
    <2>2. UNCHANGED <<during, path>> /\ pc'[c] = "openCopy" /\ pc[c] \in Holding
      BY <1>1 DEF Copy, Quiet, Environment, TypeOK, Holding
    <2>3. tmp'[path'[c]].image = image
      <3>1. path[c] \in DOMAIN tmp
        BY <2>2 DEF CopyInv, OwnCopy
      <3>2. tmp[path[c]] \in Entries
        BY <3>1 DEF TypeOK
      <3>3. QED BY <2>1, <2>2, <3>1, <3>2 DEF Entries
    <2>4. copied[c] \subseteq during[c] /\ \A f \in copied[c] : f.stage # "absent"
      BY DEF HistoryInv
    <2>5. ASSUME Cardinality(copied[c]) > 1 PROVE \E f, g \in during[c] : f # g
      <3>1. SUFFICES ASSUME \A f, g \in copied[c] : f = g PROVE FALSE
        BY <2>4
      <3>2. copied[c] = {} \/ \E f : copied[c] = {f}
        BY <3>1
      <3>3. Cardinality(copied[c]) \in {0, 1}
        BY <3>2, FS_EmptySet, FS_Singleton
      <3>4. QED BY <2>5, <3>3
    <2>6. QED BY <2>1, <2>2, <2>3, <2>4, <2>5 DEF Complete
  <1>2. CASE OpenCopy(c)
    <2>1. UNCHANGED <<during, path>> /\ pc[c] = "openCopy"
      BY <1>2 DEF OpenCopy, Quiet, Environment
    <2>2. Openable(tmp[path[c]].image) /\ UNCHANGED tmp
      BY <1>2 DEF OpenCopy, TypeOK
    <2>3. QED BY <2>1, <2>2 DEF ImageInv, Complete
  <1> USE DEF TypeOK, Quiet, Environment
  <1>3. ~Start(c)
    BY StartCases
  <1>4. ~RequireBox(c)
    BY DEF RequireBox
  <1>5. ~Recheck(c)
    BY DEF Recheck
  <1>6. ~OpenSource(c)
    BY DEF OpenSource
  <1>7. ~CreateNew(c)
    BY DEF CreateNew, NewSnapshot
  <1>8. ~Read(c)
    BY DEF Read
  <1>9. ~Drop(c)
    BY DEF Drop
  <1>10. ~Output(c)
    BY DEF Output
  <1>11. ~CreateFails(c)
    BY DEF CreateFails
  <1>12. ~CopyFails(c)
    BY DEF CopyFails
  <1>13. ~ReadFails(c)
    BY DEF ReadFails
  <1>14. ~OutputFails(c)
    BY DEF OutputFails
  <1>15. QED
    BY <1>1, <1>2, <1>3, <1>4, <1>5, <1>6, <1>7, <1>8, <1>9, <1>10, <1>11, <1>12, <1>13, <1>14
    DEF CallStep, Work, Fault

LEMMA ImageInvariance ==
  TypeOK /\ CopyInv /\ HistoryInv /\ ImageInv /\ [Next]_vars => ImageInv'
  <1> SUFFICES ASSUME TypeOK, CopyInv, HistoryInv, ImageInv, [Next]_vars PROVE ImageInv'
    OBVIOUS
  <1>1. ASSUME UNCHANGED <<tmp, path, pc, during>> PROVE ImageInv'
    BY <1>1 DEF ImageInv
  <1>2. CASE AppStep
    BY <1>2, AppFacts DEF ImageInv
  <1>3. ASSUME NEW p \in Procs, Kill(p) PROVE ImageInv'
    <2>1. UNCHANGED <<tmp, path, during>>
          /\ \A c \in Calls : pc'[c] = "killed" \/ pc'[c] = pc[c]
      BY <1>3 DEF Kill
    <2>2. QED BY <2>1 DEF ImageInv
  <1>4. CASE UNCHANGED vars \/ \E p \in Procs : Restart(p)
    BY <1>1, <1>4 DEF Restart, vars, callVars
  <1>5. ASSUME NEW c \in Calls, CallStep(c) PROVE ImageInv'
    <2>1. ASSUME NEW d \in Calls, pc'[d] \in {"openCopy", "read"}
          PROVE  /\ Complete(tmp'[path'[d]].image, during'[d])
                 /\ pc'[d] = "read" => Openable(tmp'[path'[d]].image)
      <3>1. CASE d = c
        BY <1>5, <2>1, <3>1, ImageSteps
      <3>2. CASE d # c
        <4>1. pc'[d] = pc[d] /\ path'[d] = path[d] /\ during'[d] = during[d]
          BY <1>5, <3>2, OthersRest
        <4>2. tmp'[path[d]] = tmp[path[d]]
          BY <1>5, <2>1, <3>2, <4>1, OthersKeepCopies DEF Holding
        <4>3. QED BY <2>1, <4>1, <4>2 DEF ImageInv, Complete
      <3>3. QED BY <3>1, <3>2
    <2>2. QED BY <2>1 DEF ImageInv, Complete
  <1>6. QED BY <1>2, <1>3, <1>4, <1>5, NextCases

-----------------------------------------------------------------------------
(* What a call answers.                                                    *)

LEMMA AnsweredKept ==
  ASSUME NEW d \in Calls, Answered(d), reply'[d] = reply[d], line' = line,
         during[d] \subseteq during'[d], IsFiniteSet(during[d]), IsFiniteSet(during'[d])
  PROVE  Answered(d)'
  BY Grows DEF Answered

LEMMA AnswersExpected ==
  ASSUME TypeOK, NEW c \in Calls, NEW f \in during'[c],
         Finish(c, Expected(line[c], f)), line' = line
  PROVE  Answered(c)'
  BY DEF Answered, Finish, TypeOK

LEMMA FailsInternally ==
  ASSUME TypeOK, NEW c \in Calls, NEW a, reply' = [reply EXCEPT ![c] = Fail(1)]
  PROVE  Answered(c)'
  BY DEF Answered, Fail, TypeOK

LEMMA FailsBetween ==
  ASSUME TypeOK, HistoryInv, NEW c \in Calls, NEW f \in during[c], NEW g \in during[c], f # g,
         Finish(c, Fail(3)), UNCHANGED during
  PROVE  Answered(c)'
  <1>1. Cardinality(during[c]) > 1
    BY Several DEF HistoryInv
  <1>2. QED BY <1>1 DEF Answered, Finish, Fail, TypeOK

LEMMA StartAnswers ==
  ASSUME TypeOK, NEW c \in Calls, Start(c), pc'[c] # "requireBox"
  PROVE  Answered(c)'
  <1>1. during'[c] = {live} /\ line' = line
    BY StartCases DEF TypeOK
  <1>2. Finish(c, Expected(line[c], live))
    <2>1. CASE line[c].command = "help" /\ Finish(c, Ok(<<>>))
      BY <2>1 DEF Expected, Finish
    <2>2. CASE line[c].command # "help" /\ ~Parse(line[c]).ok /\ Finish(c, Fail(2))
      BY <2>2 DEF Expected, Finish
    <2>3. CASE line[c].command # "help" /\ Parse(line[c]).ok /\ ~line[c].dir /\ Finish(c, Fail(3))
      BY <2>3 DEF Expected, Finish
    <2>4. QED BY <2>1, <2>2, <2>3, StartCases DEF Goto, TypeOK
  <1>3. QED BY <1>1, <1>2, AnswersExpected

LEMMA SnapshotFails ==
  ASSUME TypeOK, HistoryInv, AdmissionInv, NEW c \in Calls,
         pc[c] \in Snapshotting, ~Exists, UNCHANGED <<line, during>>,
         \/ Finish(c, Fail(3))
         \/ Decoding(line[c]) /\ Finish(c, Fail(4))
  PROVE  Answered(c)'
  <1>1. live \in during[c] /\ live.stage = "absent" /\ Admitted(line[c])
        /\ \E f \in during[c] : f.stage # "absent"
    BY DEF HistoryInv, AdmissionInv, Snapshotting, Exists
  <1>2. CASE Finish(c, Fail(3))
    BY <1>1, <1>2, FailsBetween
  <1>3. CASE Finish(c, Fail(4))
    <2>1. Expected(line[c], live) = Fail(4)
      BY <1>1 DEF Expected, Admitted, Understood
    <2>2. Finish(c, Expected(line[c], live))
      BY <1>3, <2>1 DEF Finish
    <2>3. QED BY <1>1, <2>2, AnswersExpected
  <1>4. QED BY <1>2, <1>3

LEMMA CopyRefused ==
  ASSUME TypeOK, HistoryInv, AdmissionInv, ImageInv, NEW c \in Calls, OpenCopy(c), pc'[c] # "read"
  PROVE  Answered(c)'
  <1> DEFINE image == tmp[path[c]].image
  <1>1. /\ pc[c] = "openCopy" /\ UNCHANGED <<line, during>>
        /\ ~Openable(image) /\ Finish(c, Fail(3))
    BY DEF OpenCopy, Quiet, Environment, Goto, TypeOK
  <1>2. Complete(image, during[c]) /\ Admitted(line[c])
    BY <1>1 DEF ImageInv, AdmissionInv, Complete, Running, Holding
  <1> HIDE DEF image
  <1>3. CASE image = Torn /\ \E f, g \in during[c] : f # g
    BY <1>1, <1>3, FailsBetween
  <1>4. CASE image \in during[c] /\ image.stage # "absent"
    <2>1. image # Torn
      BY <1>4, TornAssumption DEF TypeOK
    <2>2. image.stage = "zero"
      BY <1>1, <2>1 DEF Openable
    <2>3. Expected(line[c], image) = Fail(3)
      BY <1>2, <1>4, <2>2 DEF Expected, Admitted, Understood
    <2>4. Finish(c, Expected(line[c], image))
      BY <1>1, <2>3 DEF Finish
    <2>5. QED BY <1>1, <1>4, <2>4, AnswersExpected
  <1>5. QED BY <1>2, <1>3, <1>4 DEF Complete

LEMMA ReadAnswers ==
  ASSUME TypeOK, HistoryInv, AdmissionInv, ImageInv, NEW c \in Calls, Read(c)
  PROVE  Answered(c)'
  <1> DEFINE image == tmp[path[c]].image
  <1>1. /\ pc[c] = "read" /\ UNCHANGED <<line, during>>
        /\ reply' = [reply EXCEPT ![c] = ReadSnapshot(image, line[c])]
    BY DEF Read, Quiet, Environment
  <1>2. Complete(image, during[c]) /\ Openable(image) /\ Admitted(line[c])
    BY <1>1 DEF ImageInv, AdmissionInv, Complete, Running, Holding
  <1> HIDE DEF image
  <1>3. image \in during[c] /\ image.stage # "absent" /\ image.stage # "zero"
    BY <1>2 DEF Complete, Openable
  <1>4. Expected(line[c], image) = ReadSnapshot(image, line[c])
    BY <1>2, <1>3 DEF Expected, Admitted, Understood
  <1>5. QED BY <1>1, <1>3, <1>4 DEF Answered, TypeOK

LEMMA AnswerSteps ==
  ASSUME TypeOK, HistoryInv, AdmissionInv, ImageInv, ReplyInv,
         NEW c \in Calls, CallStep(c), pc'[c] \in {"drop", "output", "done"}
  PROVE  Answered(c)'
  <1> USE DEF Quiet, Environment
  <1>1. CASE Start(c)
    BY <1>1, StartAnswers
  <1>2. CASE RequireBox(c)
    <2>1. Understood(line[c]) /\ live \in during[c]
      BY <1>2 DEF RequireBox, AdmissionInv, HistoryInv, Running
    <2>2. Finish(c, Expected(line[c], live)) /\ UNCHANGED <<line, during>>
      BY <1>2, <2>1, RequireBoxCases DEF Goto, TypeOK
    <2>3. QED BY <2>1, <2>2, AnswersExpected
  <1>3. CASE Recheck(c)
    BY <1>3, SnapshotFails DEF Recheck, Goto, TypeOK, Snapshotting, Running
  <1>4. CASE OpenSource(c)
    BY <1>4, SnapshotFails DEF OpenSource, Goto, TypeOK, Snapshotting, Running
  <1>5. CASE CreateNew(c) \/ CreateFails(c) \/ CopyFails(c) \/ ReadFails(c) \/ OutputFails(c)
    BY <1>5, FailsInternally
       DEF CreateNew, NewSnapshot, CreateFails, CopyFails, ReadFails, OutputFails, Goto, Finish, TypeOK
  <1>6. CASE OpenCopy(c)
    BY <1>6, CopyRefused
  <1>7. CASE Read(c)
    BY <1>7, ReadAnswers
  <1>8. CASE Drop(c) \/ Output(c)
    <2>1. UNCHANGED <<line, during, reply>> /\ Answered(c)
      BY <1>8 DEF Drop, Output, ReplyInv
    <2>2. QED BY <2>1 DEF Answered
  <1>9. ~Copy(c)
    BY DEF Copy, Goto, TypeOK
  <1>10. QED BY <1>1, <1>2, <1>3, <1>4, <1>5, <1>6, <1>7, <1>8, <1>9 DEF CallStep, Work, Fault

LEMMA ReplyInvariance == IndInv /\ [Next]_vars => ReplyInv'
  <1> SUFFICES ASSUME IndInv, [Next]_vars PROVE ReplyInv'
    OBVIOUS
  <1> USE DEF IndInv
  <1>1. ASSUME UNCHANGED <<line, pc, reply, during>> PROVE ReplyInv'
    BY <1>1 DEF ReplyInv, Answered
  <1>2. CASE AppStep
    <2>1. ASSUME NEW c \in Calls, pc'[c] \in {"drop", "output", "done"} PROVE Answered(c)'
      <3>1. /\ pc[c] = pc'[c] /\ reply'[c] = reply[c] /\ line' = line
            /\ during[c] \subseteq during'[c] /\ IsFiniteSet(during'[c])
        BY <1>2, AppFacts
      <3>2. Answered(c) /\ IsFiniteSet(during[c])
        BY <2>1, <3>1 DEF ReplyInv, HistoryInv
      <3>3. QED BY <3>1, <3>2, AnsweredKept
    <2>2. QED BY <2>1 DEF ReplyInv
  <1>3. ASSUME NEW p \in Procs, Kill(p) PROVE ReplyInv'
    <2>1. UNCHANGED <<line, during, reply>>
          /\ \A c \in Calls : pc'[c] = "killed" \/ pc'[c] = pc[c]
      BY <1>3 DEF Kill
    <2>2. QED BY <2>1 DEF ReplyInv, Answered
  <1>4. CASE UNCHANGED vars \/ \E p \in Procs : Restart(p)
    BY <1>1, <1>4 DEF Restart, vars, callVars
  <1>5. ASSUME NEW c \in Calls, CallStep(c) PROVE ReplyInv'
    <2>1. ASSUME NEW d \in Calls, pc'[d] \in {"drop", "output", "done"} PROVE Answered(d)'
      <3>1. CASE d = c
        BY <1>5, <2>1, <3>1, AnswerSteps
      <3>2. CASE d # c
        <4>1. /\ pc'[d] = pc[d] /\ reply'[d] = reply[d] /\ during'[d] = during[d]
              /\ line' = line
          BY <1>5, <3>2, OthersRest
        <4>2. QED BY <2>1, <4>1 DEF ReplyInv, Answered
      <3>3. QED BY <3>1, <3>2
    <2>2. QED BY <2>1 DEF ReplyInv
  <1>6. QED BY <1>2, <1>3, <1>4, <1>5, NextCases

-----------------------------------------------------------------------------
(* The theorems.                                                           *)

LEMMA InitIndInv == Init => IndInv
  <1> SUFFICES ASSUME Init PROVE IndInv
    OBVIOUS
  <1>1. live \in Files /\ (live.stage = "absent" => live = NoFile)
    BY DEF Init, NoFile, Newer, Older, File, Files, Modes
  <1>2. \A c \in Calls : pc[c] = "idle" /\ copied[c] = {} /\ during[c] = {} /\ path[c] = <<>>
    BY DEF Init
  <1>3. TypeOK
    BY <1>1 DEF Init, TypeOK, Paths
  <1>4. CopyInv
    BY <1>2 DEF Init, CopyInv, OwnCopy, Holding
  <1>5. HistoryInv
    BY <1>2, FS_EmptySet DEF HistoryInv, Running, Holding
  <1>6. AdmissionInv /\ ImageInv /\ ReplyInv
    BY <1>2 DEF AdmissionInv, ImageInv, ReplyInv, Running, Holding
  <1>7. QED BY <1>3, <1>4, <1>5, <1>6 DEF IndInv

LEMMA InvariantAlways == Spec => []IndInv
  <1>1. IndInv /\ [Next]_vars => IndInv'
    BY TypeInvariance, CopyInvariance, HistoryInvariance, AdmissionInvariance,
       ImageInvariance, ReplyInvariance DEF IndInv
  <1>2. QED BY <1>1, InitIndInv, PTL DEF Spec

\* However many calls, processes and pids there are, and however often they are
\* killed: a call works on the file it created itself, and leaves none behind
\* unless it is killed.
THEOREM CopiesOwned == Spec => []OwnCopy
  <1>1. IndInv => OwnCopy
    BY DEF IndInv, CopyInv
  <1>2. QED BY <1>1, InvariantAlways, PTL

\* Whatever a call prints is right for one content the box had while it ran;
\* only a failed open or an internal failure may come from the change itself.
THEOREM AnswersRight == Spec => []AnswersOneContent
  <1>1. IndInv => AnswersOneContent
    BY DEF IndInv, ReplyInv, AnswersOneContent
  <1>2. QED BY <1>1, InvariantAlways, PTL
=============================================================================
