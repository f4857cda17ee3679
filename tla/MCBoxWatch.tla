----------------------------- MODULE MCBoxWatch -----------------------------
(* Handles and calls; a restart takes the place of two events in the bound. *)
EXTENDS BoxWatchCalls, TLC

MCNext == CallsNext /\ Len(log') + 2 * restarts' <= MaxEvents
MCSpec == CallsInit /\ [][MCNext]_<<vars, together>>

WatchSymmetry == Permutations(Handles) \cup Permutations(Calls)
=============================================================================
