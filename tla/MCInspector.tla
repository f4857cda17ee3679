---------------------------- MODULE MCInspector ----------------------------
(* Command lines that reach every exit code, and two processes that share  *)
(* a pid across namespaces.                                                *)
(*                                                                         *)
(* Either one call with any command line works on any box, or a crowd of   *)
(* calls of one command line, in both processes, on a box of plain records *)
(* that is committed to once: the first has the cases of a call, the other *)
(* those of their race for names.                                          *)
EXTENDS Inspector

MCPidOf == [p \in Procs |-> 1]

\* Calls differ in nothing, nor do processes of one pid.
MCSymmetry == Permutations(Calls) \cup Permutations(Procs)

Opt(name, value) == [name |-> name, value |-> value]
Raw == Opt("raw", 0)
KeyStdin == Opt("keyStdin", 0)
Get(opts, secret) == CommandLine("get", TRUE, 1, opts, secret)

RawGet == Get(<<Raw>>, "")
Decode == Get(<<>>, "")
DecodeWith(secret) == Get(<<KeyStdin, Opt("format", 1)>>, secret)
KeysPage(opts) == CommandLine("keys", TRUE, None, opts, "")

MCEveryCommand ==
  { CommandLine("help", FALSE, None, <<>>, ""),
    CommandLine("boxes", FALSE, None, <<>>, ""),
    CommandLine("boxes", FALSE, None, <<Opt("format", -1)>>, ""),
    CommandLine("indexes", TRUE, None, <<Opt("format", 0)>>, ""),
    [CommandLine("indexes", TRUE, None, <<>>, "") EXCEPT !.full = FALSE],
    [KeysPage(<<>>) EXCEPT !.dir = FALSE],
    KeysPage(<<Opt("offset", 1), Opt("limit", 3), Opt("limit", 1)>>),
    KeysPage(<<Opt("limit", 0), Opt("limit", 1)>>), KeysPage(<<Opt("limit", 3)>>),
    RawGet, [RawGet EXCEPT !.full = FALSE], Decode, [Decode EXCEPT !.full = FALSE],
    DecodeWith(""), DecodeWith("right"), DecodeWith("wrong"),
    Get(<<Raw, KeyStdin>>, "right"), Get(<<Opt("limit", 1)>>, ""),
    CommandLine("get", TRUE, None, <<>>, "") }

-----------------------------------------------------------------------------
Crowd == \A c \in Calls : line[c] = RawGet
Plainly(box) == box.defs = {} /\ \A k \in Keys : box.data[k] \notin Unreadable

MCInit ==
  /\ Init
  /\ IF Crowd THEN Plainly(live)
     ELSE \E c \in Calls, p \in Procs : \A d \in Calls : proc[d] = p /\ (c # d => line[d] = RawGet)

MCNext ==
  /\ Next
  /\ IF Crowd THEN commits' <= 1 /\ Plainly(live')
     ELSE \A c \in Calls : line[c] = RawGet => pc'[c] = "idle"

MCSpec == MCInit /\ [][MCNext]_vars
=============================================================================
