--------------------------- MODULE BoxWatchCalls ---------------------------
(***************************************************************************)
(* The watch, and whether two of its calls or two of its handles have ever *)
(* been in use at once: what Dart code that awaits each call before the    *)
(* next one, on a single handle, may rely on.                              *)
(***************************************************************************)
EXTENDS BoxWatch

VARIABLE together  \* history: two calls, or two handles, at the same time

Overlap ==
  \/ \E c, d \in Calls : c # d /\ call[c].pc # "idle" /\ call[d].pc # "idle"
  \/ \E g, h \in Handles : g # h /\ stage[g] # "closed" /\ stage[h] # "closed"

CallsInit == Init /\ together = FALSE
CallsNext == Next /\ together' = (together \/ Overlap')
CallsSpec == CallsInit /\ [][CallsNext]_<<vars, together>>

\* With one handle and calls made one after another the metadata follows the
\* box, also through close, reopen, deletion and a restart of the isolate
\* (test/box_test.dart:26; box.dart:95-105, 166-197).
SequentialCallsConverge == ~together => MetadataConverges

-----------------------------------------------------------------------------
(* The inductive invariant behind it, beside WatchInv and CatchUpInv.      *)

\* A handle watches from the snapshot until it is closed; an open one is hydrated.
WatchedInv ==
  \A h \in Handles :
    /\ stage[h] \in {"watching", "reading", "open", "closing"} => h \in watchers
    /\ stage[h] = "open" => h \in hydrated

\* As long as nothing overlaps, the keys of the box are those a reply under way
\* leaves alone, and those that the events still to come make of the metadata.
SequentialInv ==
  /\ ~Overlap
  /\ \A c \in Calls : call[c].pc \in {"emit", "reply"} => Replied(c, data) = data
  /\ \A h \in Handles :
       stage[h] = "open" => Replay(metadata, stream[h] \o Unsent) = data

CallsInv ==
  /\ metadata \subseteq Keys /\ together \in BOOLEAN
  /\ WatchedInv
  /\ ~together => SequentialInv
=============================================================================
