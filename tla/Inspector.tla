----------------------------- MODULE Inspector -----------------------------
(***************************************************************************)
(* The read-only inspector (inspector.rs, inspector_decode.rs and the      *)
(* command line bin/dxtr_box_inspect.rs) beside an application that goes   *)
(* on using the box.  A call never opens the box file with redb: it copies *)
(* the file to a new temporary file, opens the copy and removes it.        *)
(*                                                                         *)
(* Calls run in processes: one call each from the command line, several at *)
(* once through the library.  A process may be killed, which leaves its    *)
(* copies in the temporary directory; its successor may have its pid, and  *)
(* two processes in different pid namespaces may share one at any time.    *)
(***************************************************************************)
EXTENDS Integers, FiniteSets, SequencesExt, Functions, TLC

CONSTANTS
  Calls,        \* invocations, each made at most once
  Procs, PidOf, \* processes and their pids, not necessarily distinct
  CommandLines, \* what may be asked: records of CommandLine
  Keys,         \* record keys: numbers, in the order of the strings
  IndexNames,   \* likewise
  Values, Unreadable,  \* payloads, and those decode_record cannot show
  Password,     \* the key the application encrypts with
  DefaultLimit, MaxKeyPageSize,
  MaxAttempts,  \* names a snapshot tries: 16 in the code
  MaxCommits,   \* bound: changes the application makes
  Missing, Plain, None, Torn

ASSUME InspectorAssumption ==
  /\ PidOf \in [Procs -> Nat]
  /\ Unreadable \subseteq Values /\ Missing \notin Values
  /\ Password # "" /\ Plain # Password
  /\ MaxAttempts \in Nat \ {0} /\ MaxKeyPageSize \in Nat \ {0}

-----------------------------------------------------------------------------
(* The box file.  "zero" has no bytes yet and "bare" no tables; a "legacy" *)
(* box has no metadata and a "future" one another format version.          *)

Modes == {"legacy", "none", "chacha20poly1305", "future"}

File(stage, mode, key) ==
  [ stage |-> stage, mode |-> mode, key |-> key,
    data |-> [k \in Keys |-> Missing], defs |-> {} ]

Files ==
  [ stage : {"absent", "zero", "bare", "ready"}, mode : Modes, key : {Plain, Password},
    data : [Keys -> Values \cup {Missing}], defs : SUBSET IndexNames ]

\* A copy that mixes contents is none of them.
ASSUME TornAssumption == Torn \notin Files

NoFile == File("absent", "legacy", Plain)
Older(d) == [File("ready", "legacy", Plain) EXCEPT !.data = d]
Newer    == File("ready", "future", Plain)

Encrypted(f) == [f EXCEPT !.mode = "chacha20poly1305", !.key = Password]

\* The contents the application may leave in one step: open creates, formats
\* and initialises the file or gives up and removes it; a legacy box is first
\* given plain metadata; then writes, indexes, encryption, deletion.
Successors(f) ==
  CASE f.stage = "absent" -> {File("zero", "legacy", Plain)}
    [] f.stage = "zero"   -> {NoFile, File("bare", "legacy", Plain)}
    [] f.stage = "bare"   ->
         LET new == File("ready", "none", Plain) IN {NoFile, new, Encrypted(new)}
    [] f.stage = "ready" /\ f.mode = "future" -> {}
    [] f.stage = "ready" /\ f.mode = "legacy" -> {[f EXCEPT !.mode = "none"]}
    [] OTHER ->
         {[f EXCEPT !.data[k] = v] : k \in Keys, v \in Values \cup {Missing}}
           \cup {[f EXCEPT !.defs = f.defs \cup {i}] : i \in IndexNames}
           \cup {Encrypted(f), NoFile}

-----------------------------------------------------------------------------
(* The command line.  An option value is a number; 0 and 1 are the two     *)
(* formats, and -1 is a missing value or one that does not parse.  dir     *)
(* says whether the path is a readable directory, full whether the program *)
(* was built with the full profile.                                        *)

CommandLine(command, box, key, opts, secret) ==
  [ dir |-> TRUE, full |-> TRUE, command |-> command, box |-> box, key |-> key,
    opts |-> opts, secret |-> secret ]

Defaults == [ok |-> TRUE, offset |-> 0, limit |-> DefaultLimit, raw |-> FALSE, keyStdin |-> FALSE]
Refuse(o) == [o EXCEPT !.ok = FALSE]
IsFormat(a) == a.name = "format" /\ a.value \in {0, 1}

\* parse_key_options: one option at a time, the first bad one decides.
KeyOption(o, a) ==
  CASE ~o.ok -> o
    [] a.name = "offset" /\ a.value >= 0 -> [o EXCEPT !.offset = a.value]
    [] a.name = "limit" /\ a.value \in 1..MaxKeyPageSize -> [o EXCEPT !.limit = a.value]
    [] IsFormat(a) -> o
    [] OTHER -> Refuse(o)

GetOption(o, a) ==
  CASE ~o.ok -> o
    [] a.name = "raw"      -> [o EXCEPT !.raw = TRUE]
    [] a.name = "keyStdin" -> [o EXCEPT !.keyStdin = TRUE]
    [] IsFormat(a) -> o
    [] OTHER -> Refuse(o)

FormatOnly(opts) == opts = <<>> \/ (Len(opts) = 1 /\ IsFormat(opts[1]))

ParseGet(opts) ==
  LET o == FoldLeft(GetOption, Defaults, opts)
  IN  IF o.raw /\ o.keyStdin THEN Refuse(o) ELSE o

\* parse_command
Parse(line) ==
  CASE line.command = "boxes" /\ FormatOnly(line.opts) -> Defaults
    [] line.command = "indexes" /\ line.box /\ FormatOnly(line.opts) -> Defaults
    [] line.command = "keys" /\ line.box -> FoldLeft(KeyOption, Defaults, line.opts)
    [] line.command = "get" /\ line.box /\ line.key # None -> ParseGet(line.opts)
    [] OTHER -> Refuse(Defaults)

Decoding(line) == line.command = "get" /\ ~Parse(line).raw

-----------------------------------------------------------------------------
(* What a command answers from the content f of its snapshot.              *)

Ok(answer) == [code |-> 0, answer |-> answer]
Fail(code) == [code |-> code, answer |-> <<>>]

Sorted(S) == SetToSortSeq(S, <)
Present(f) == {k \in Keys : f.data[k] # Missing}

Page(f, o) ==
  LET ks == Sorted(Present(f))
      last == IF o.offset + o.limit < Len(ks) THEN o.offset + o.limit ELSE Len(ks)
  IN  SubSeq(ks, o.offset + 1, last)

\* resolve_encryption: 0 when the records can be read, or the exit code.
ResolveEncryption(f, line) ==
  LET given == Parse(line).keyStdin
  IN  CASE f.mode = "future" -> 6
        [] f.mode \in {"legacy", "none"} -> IF given THEN 5 ELSE 0
        [] OTHER -> IF given /\ line.secret = f.key THEN 0 ELSE 5

DecodeRecord(f, line) ==
  LET refused == ResolveEncryption(f, line)
  IN  CASE refused # 0       -> Fail(refused)
        [] f.stage = "bare"  -> Fail(1)
        [] f.data[line.key] = Missing       -> Fail(4)
        [] f.data[line.key] \in Unreadable  -> Fail(5)
        [] OTHER -> Ok(<<f.data[line.key]>>)

\* A database that cannot be opened is an invalid input.
Openable(image) == image # Torn /\ image.stage # "zero"

ReadSnapshot(f, line) ==
  CASE Decoding(line) -> DecodeRecord(f, line)
    [] line.command = "indexes" -> Ok(Sorted(f.defs))
    [] f.stage = "bare"  -> Fail(1)
    [] line.command = "keys" -> Ok(Page(f, Parse(line)))
    [] f.data[line.key] = Missing -> Fail(4)
    [] OTHER -> Ok(<<f.key, f.data[line.key]>>)

-----------------------------------------------------------------------------
VARIABLES
  live,      \* the box file of the application
  commits,   \* how often the application changed it
  tmp,       \* the temporary directory: path -> [owner, image]
  counter,   \* the snapshot counters of each process, one per kind of call
  pc, line, proc, path, tries, reply,   \* of each call
  attached,  \* the source file the call has opened is still the live one
  copied,    \* the contents its source file had since the call opened it
  during     \* the contents the box had since the call began

callVars == <<pc, line, proc, path, tries, reply, attached, copied, during>>
vars == <<live, commits, tmp, counter, callVars>>

Kinds == {"inspect", "inspect-decode"}
Kind(c) == IF Decoding(line[c]) THEN "inspect-decode" ELSE "inspect"

Holding == {"copy", "openCopy", "read", "drop"}
Running == {"requireBox", "recheck", "openSource", "createNew", "output"} \cup Holding
Ended   == {"done", "killed"}

Init ==
  /\ live \in {NoFile, Newer} \cup {Older(d) : d \in [Keys -> Values]}
  /\ commits = 0
  /\ tmp = <<>>
  /\ counter = [x \in Procs \X Kinds |-> 0]
  /\ pc = [c \in Calls |-> "idle"]
  /\ line \in [Calls -> CommandLines]
  /\ proc \in [Calls -> Procs]
  /\ path = [c \in Calls |-> <<>>]
  /\ tries = [c \in Calls |-> 0]
  /\ reply = [c \in Calls |-> Fail(0)]
  /\ attached = [c \in Calls |-> FALSE]
  /\ copied = [c \in Calls |-> {}]
  /\ during = [c \in Calls |-> {}]

Goto(c, step) == pc' = [pc EXCEPT ![c] = step]
Finish(c, r) == Goto(c, "output") /\ reply' = [reply EXCEPT ![c] = r]
Unlink(c) == tmp' = [p \in DOMAIN tmp \ {path[c]} |-> tmp[p]]

Environment == <<live, commits, counter, line, proc, during>>
\* What most steps of a call leave alone.
Quiet(c) == UNCHANGED <<Environment, path, tries, attached, copied>>

\* The application changes the file.  A call that has it open sees the new
\* content too, unless the name went to another file.
AppStep ==
  /\ commits < MaxCommits
  /\ \E f \in Successors(live) \ {live} :
       /\ live' = f
       /\ attached' = [c \in Calls |-> pc[c] \in Running /\ attached[c] /\ f # NoFile]
       /\ copied' = [c \in Calls |-> IF attached'[c] THEN copied[c] \cup {f} ELSE copied[c]]
       /\ during' = [c \in Calls |-> IF pc[c] \in Running THEN during[c] \cup {f} ELSE during[c]]
  /\ commits' = commits + 1
  /\ UNCHANGED <<tmp, counter, pc, line, proc, path, tries, reply>>

\* run, Inspector::open: nothing of the directory is read before both succeed.
Start(c) ==
  /\ pc[c] = "idle"
  /\ during' = [during EXCEPT ![c] = {live}]
  /\ CASE line[c].command = "help"  -> Finish(c, Ok(<<>>))
       [] line[c].command # "help" /\ ~Parse(line[c]).ok -> Finish(c, Fail(2))
       [] line[c].command # "help" /\ Parse(line[c]).ok /\ ~line[c].dir -> Finish(c, Fail(3))
       [] OTHER -> Goto(c, "requireBox") /\ UNCHANGED reply
  /\ UNCHANGED <<live, commits, tmp, counter, line, proc, path, tries, attached, copied>>

Exists == live.stage # "absent"

\* Seeded fault: the key is read from stdin before the box is looked for.
RequireBoxLast(c) ==
  /\ pc[c] = "requireBox"
  /\ LET l == line[c] IN
     CASE l.command = "boxes" -> Finish(c, Ok(IF Exists THEN <<"box">> ELSE <<>>))
       [] Decoding(l) /\ l.full /\ Parse(l).keyStdin /\ l.secret = "" -> Finish(c, Fail(5))
       [] OTHER -> Goto(c, "recheck") /\ UNCHANGED reply
  /\ UNCHANGED tmp /\ Quiet(c)

\* A build without the full profile cannot decode; an empty secret is refused.
NeedsFull(l)   == ~l.full /\ (l.command = "indexes" \/ Decoding(l))
LacksSecret(l) == Decoding(l) /\ Parse(l).keyStdin /\ l.secret = ""

\* boxes, require_box, and what execute decides before it takes a snapshot.
Refusal(l) ==
  IF ~Exists THEN 4
  ELSE IF NeedsFull(l) THEN 6
  ELSE IF LacksSecret(l) THEN 5
  ELSE 0

RequireBox(c) ==
  /\ pc[c] = "requireBox"
  /\ IF line[c].command = "boxes" THEN Finish(c, Ok(IF Exists THEN <<"box">> ELSE <<>>))
     ELSE IF Refusal(line[c]) # 0 THEN Finish(c, Fail(Refusal(line[c])))
     ELSE Goto(c, "recheck") /\ UNCHANGED reply
  /\ UNCHANGED tmp /\ Quiet(c)

\* box_exists in open_box_snapshot and in decode_record
Recheck(c) ==
  /\ pc[c] = "recheck"
  /\ IF Exists THEN Goto(c, "openSource") /\ UNCHANGED reply
     ELSE Finish(c, Fail(IF Decoding(line[c]) THEN 4 ELSE 3))
  /\ UNCHANGED tmp /\ Quiet(c)

OpenSource(c) ==
  /\ pc[c] = "openSource"
  /\ IF Exists
     THEN /\ Goto(c, "createNew")
          /\ attached' = [attached EXCEPT ![c] = TRUE]
          /\ copied' = [copied EXCEPT ![c] = {live}]
          /\ UNCHANGED reply
     ELSE Finish(c, Fail(3)) /\ UNCHANGED <<attached, copied>>
  /\ UNCHANGED <<Environment, tmp, path, tries>>

SnapshotPath(c) == <<Kind(c), PidOf[proc[c]], counter[<<proc[c], Kind(c)>>]>>

\* The directory with an empty file of the call at path p.
WithCopy(c, p) ==
  [ q \in DOMAIN tmp \cup {p} |->
      IF q = p THEN [owner |-> c, image |-> File("zero", "legacy", Plain)] ELSE tmp[q] ]

\* Seeded fault: the snapshot is opened with create in place of create_new.
NewSnapshotOverwrites(c, p) ==
  /\ tmp' = WithCopy(c, p)
  /\ path' = [path EXCEPT ![c] = p]
  /\ Goto(c, "copy")
  /\ UNCHANGED <<tries, reply>>

\* Seeded fault: a snapshot a killed process has left is taken for one's own.
NewSnapshotAdopts(c, p) ==
  LET left == p \in DOMAIN tmp /\ pc[tmp[p].owner] = "killed" IN
  /\ left \/ p \notin DOMAIN tmp
  /\ tmp' = IF left THEN [tmp EXCEPT ![p].owner = c] ELSE WithCopy(c, p)
  /\ path' = [path EXCEPT ![c] = p]
  /\ Goto(c, IF left THEN "openCopy" ELSE "copy")
  /\ UNCHANGED <<tries, reply>>

\* Seeded fault: a taken name is waited for, as a lock file would be.
NewSnapshotWaits(c, p) ==
  /\ p \notin DOMAIN tmp
  /\ tmp' = WithCopy(c, p)
  /\ path' = [path EXCEPT ![c] = p]
  /\ Goto(c, "copy")
  /\ UNCHANGED <<tries, reply>>

\* One turn of the loop of create_snapshot_copy, on the path it formats.
NewSnapshot(c, p) ==
  \/ /\ p \notin DOMAIN tmp
     /\ tmp' = WithCopy(c, p)
     /\ path' = [path EXCEPT ![c] = p]
     /\ Goto(c, "copy")
     /\ UNCHANGED <<tries, reply>>
  \/ /\ p \in DOMAIN tmp
     /\ tries' = [tries EXCEPT ![c] = @ + 1]
     /\ IF tries'[c] = MaxAttempts THEN Finish(c, Fail(1)) ELSE UNCHANGED <<pc, reply>>
     /\ UNCHANGED <<tmp, path>>

CreateNew(c) ==
  /\ pc[c] = "createNew"
  /\ counter' = [counter EXCEPT ![<<proc[c], Kind(c)>>] = @ + 1]
  /\ NewSnapshot(c, SnapshotPath(c))
  /\ UNCHANGED <<live, commits, line, proc, during, attached, copied>>

\* The temporary directory refuses a new file.
CreateFails(c) ==
  /\ pc[c] = "createNew"
  /\ Finish(c, Fail(1))
  /\ counter' = [counter EXCEPT ![<<proc[c], Kind(c)>>] = @ + 1]
  /\ UNCHANGED <<live, commits, line, proc, during, tmp, path, tries, attached, copied>>

\* io::copy of a file that changes meanwhile gives what redb repairs to one of
\* the committed contents, or what it refuses to open.
Copy(c) ==
  /\ pc[c] = "copy"
  /\ \E image \in copied[c] \cup (IF Cardinality(copied[c]) > 1 THEN {Torn} ELSE {}) :
       tmp' = [tmp EXCEPT ![path[c]].image = image]
  /\ Goto(c, "openCopy")
  /\ UNCHANGED reply /\ Quiet(c)

CopyFails(c) ==
  /\ pc[c] = "copy"
  /\ Unlink(c) /\ Finish(c, Fail(1))
  /\ Quiet(c)

OpenCopy(c) ==
  /\ pc[c] = "openCopy"
  /\ IF Openable(tmp[path[c]].image)
     THEN Goto(c, "read") /\ UNCHANGED <<tmp, reply>>
     ELSE Unlink(c) /\ Finish(c, Fail(3))
  /\ Quiet(c)

Read(c) ==
  /\ pc[c] = "read"
  /\ reply' = [reply EXCEPT ![c] = ReadSnapshot(tmp[path[c]].image, line[c])]
  /\ Goto(c, "drop")
  /\ UNCHANGED tmp /\ Quiet(c)

ReadFails(c) ==
  /\ pc[c] = "read"
  /\ reply' = [reply EXCEPT ![c] = Fail(1)]
  /\ Goto(c, "drop")
  /\ UNCHANGED tmp /\ Quiet(c)

\* The snapshot is dropped before anything is printed, on every path.
Drop(c) ==
  /\ pc[c] = "drop"
  /\ Unlink(c) /\ Goto(c, "output")
  /\ UNCHANGED reply /\ Quiet(c)

Output(c) ==
  /\ pc[c] = "output"
  /\ Goto(c, "done")
  /\ UNCHANGED <<tmp, reply>> /\ Quiet(c)

\* write_stdout fails; a closed pipe counts as success.
OutputFails(c) ==
  /\ pc[c] = "output" /\ reply[c].code = 0
  /\ Goto(c, "done")
  /\ reply' = [reply EXCEPT ![c] = Fail(1)]
  /\ UNCHANGED tmp /\ Quiet(c)

CallsOf(p) == {c \in Calls : proc[c] = p /\ pc[c] \in Running}
CountersReset(p) == counter' = [x \in DOMAIN counter |-> IF x[1] = p THEN 0 ELSE counter[x]]

\* The process is killed; another one may take its pid.
Kill(p) ==
  /\ CallsOf(p) # {}
  /\ pc' = [c \in Calls |-> IF c \in CallsOf(p) THEN "killed" ELSE pc[c]]
  /\ CountersReset(p)
  /\ UNCHANGED <<live, commits, tmp, line, proc, path, tries, reply, attached, copied, during>>

\* The process exits and another one starts.
Restart(p) ==
  /\ CallsOf(p) = {}
  /\ CountersReset(p) /\ counter' # counter
  /\ UNCHANGED <<live, commits, tmp, callVars>>

Work(c) ==
  \/ RequireBox(c) \/ Recheck(c) \/ OpenSource(c) \/ CreateNew(c)
  \/ Copy(c) \/ OpenCopy(c) \/ Read(c) \/ Drop(c) \/ Output(c)

Fault(c) == CreateFails(c) \/ CopyFails(c) \/ ReadFails(c) \/ OutputFails(c)

Next ==
  \/ AppStep
  \/ \E c \in Calls : Start(c) \/ Work(c) \/ Fault(c)
  \/ \E p \in Procs : Kill(p) \/ Restart(p)

Spec == Init /\ [][Next]_vars

-----------------------------------------------------------------------------
\* The file a call copies into, opens and removes is the one it created
\* itself, although pids are reused and shared and killed calls leave their
\* files behind (create_new and the nonce of create_snapshot_copy); and nobody
\* but a killed call leaves one: every error path removes it
\* (InspectorSnapshot::drop, the two remove_file).
OwnCopy ==
  /\ \A c \in Calls : pc[c] \in Holding =>
       path[c] \in DOMAIN tmp /\ tmp[path[c]].owner = c
  /\ \A p \in DOMAIN tmp : pc[tmp[p].owner] \in Holding \cup {"killed"}

\* What the command line answers about a box that nobody changes.
Expected(l, f) ==
  IF l.command = "help" THEN Ok(<<>>)
  ELSE IF ~Parse(l).ok THEN Fail(2)
  ELSE IF ~l.dir THEN Fail(3)
  ELSE IF l.command = "boxes" THEN Ok(IF f.stage = "absent" THEN <<>> ELSE <<"box">>)
  ELSE IF f.stage = "absent" THEN Fail(4)
  ELSE IF NeedsFull(l) THEN Fail(6)
  ELSE IF LacksSecret(l) THEN Fail(5)
  ELSE IF f.stage = "zero" THEN Fail(3)
  ELSE ReadSnapshot(f, l)

\* Whatever a call prints, and the exit code of docs/INSPECTOR_CLI_12.md it
\* ends with, is right for one content the box had while the call ran: three
\* looks at the directory, a copy of a file that changes and a read of the copy
\* never mix two contents.  Only a failed open (3) or an internal failure (1)
\* may come from the change itself.
Answered(c) ==
  \/ \E f \in during[c] : reply[c] = Expected(line[c], f)
  \/ reply[c].code = 3 /\ Cardinality(during[c]) > 1
  \/ reply[c].code = 1

AnswersOneContent == \A c \in Calls : pc[c] = "done" => Answered(c)

\* Every call ends: it waits for nothing, as whatever the application, other
\* calls and copies left behind do, a running call has a step of its own, and
\* its search for a free name is bounded (create_snapshot_copy).
NeverStuck ==
  \A c \in Calls :
    /\ pc[c] \in Running => ENABLED Work(c)
    /\ tries[c] <= MaxAttempts

-----------------------------------------------------------------------------
(* What every step keeps.                                                  *)

Entries == [owner : Calls, image : Files \cup {Torn}]
Paths == {<<>>} \cup (Kinds \X Nat \X Nat)

TypeOK ==
  /\ live \in Files /\ (live.stage = "absent" => live = NoFile)
  /\ tmp \in [DOMAIN tmp -> Entries]
  /\ pc \in [Calls -> {"idle"} \cup Running \cup Ended]
  /\ counter \in [Procs \X Kinds -> Nat]
  /\ proc \in [Calls -> Procs] /\ path \in [Calls -> Paths]
  /\ tries \in [Calls -> Nat] /\ DOMAIN reply = Calls
  /\ attached \in [Calls -> BOOLEAN]
  /\ copied \in [Calls -> SUBSET Files] /\ during \in [Calls -> SUBSET Files]

\* A call at work on a copy owns no other.
CopyInv ==
  /\ OwnCopy
  /\ \A p \in DOMAIN tmp :
       LET c == tmp[p].owner IN pc[c] \in Holding => path[c] = p

\* The contents a call may have copied are among those it lived through.
HistoryInv ==
  \A c \in Calls :
    /\ IsFiniteSet(during[c])
    /\ pc[c] \in Running => live \in during[c]
    /\ copied[c] \subseteq during[c]
    /\ pc[c] = "idle" => copied[c] = {}
    /\ \A f \in copied[c] : f.stage # "absent"

\* What a call has been through when it takes a snapshot.
Understood(l) == l.command # "help" /\ Parse(l).ok /\ l.dir
Admitted(l) ==
  /\ Understood(l) /\ l.command # "boxes"
  /\ ~NeedsFull(l) /\ ~LacksSecret(l)

AdmissionInv ==
  \A c \in Calls :
    /\ pc[c] = "requireBox" => Understood(line[c])
    /\ pc[c] \in Running \ {"requireBox", "drop", "output"} =>
         Admitted(line[c]) /\ \E f \in during[c] : f.stage # "absent"

\* A copy that is complete is one of those contents, or torn between several.
ImageInv ==
  \A c \in Calls : pc[c] \in {"openCopy", "read"} =>
    LET image == tmp[path[c]].image IN
    /\ \/ image \in during[c] /\ image.stage # "absent"
       \/ image = Torn /\ \E f, g \in during[c] : f # g
    /\ pc[c] = "read" => Openable(image)

ReplyInv == \A c \in Calls : pc[c] \in {"drop", "output", "done"} => Answered(c)

IndInv ==
  TypeOK /\ CopyInv /\ HistoryInv /\ AdmissionInv /\ ImageInv /\ ReplyInv
=============================================================================
