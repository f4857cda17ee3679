----------------------------- MODULE LogicalBox -----------------------------
(***************************************************************************)
(* What a box promises to its callers: a map from keys to values.  A       *)
(* mutation takes effect at once and as a whole, or not at all; an error   *)
(* reply means it had no effect; a crash loses the reply but never part of *)
(* a batch, and nothing that was acknowledged.  Encryption, indexes, open, *)
(* close and the native profile are invisible here.                        *)
(***************************************************************************)
EXTENDS Naturals, Sequences, FiniteSetsExt

CONSTANTS Keys, Values, Absent

VARIABLES
  kv,      \* the records
  call,    \* the mutation in progress: [op |-> ..., batch |-> ...]
  reply    \* what the last one answered

lvars == <<kv, call, reply>>

Idle     == [op |-> "none", batch |-> <<>>]
Silent   == [status |-> "none",  deleted |-> <<>>]
Done(ks) == [status |-> "ok",    deleted |-> ks]
Failed   == [status |-> "error", deleted |-> <<>>]
Empty    == [k \in Keys |-> Absent]

InitBox ==
  /\ kv \in [Keys -> Values \cup {Absent}]
  /\ call = Idle
  /\ reply = Silent

Mentions(batch, k) == {n \in DOMAIN batch : batch[n][1] = k}

\* The last entry for a key wins.
AfterPut(batch) ==
  [k \in Keys |-> IF Mentions(batch, k) = {} THEN kv[k]
                  ELSE batch[Max(Mentions(batch, k))][2]]

\* Where the caller first names a key.
FirstNamed(batch, k) == Min(Mentions(batch, k))

\* The keys delete_all reports: those that were there, each once, in the
\* order in which the caller first named them.
Reports(ks, batch) ==
  /\ ks \in Seq(Keys)
  /\ {ks[i] : i \in DOMAIN ks} = {k \in Keys : kv[k] # Absent /\ Mentions(batch, k) # {}}
  /\ \A i, j \in DOMAIN ks : i < j => FirstNamed(batch, ks[i]) < FirstNamed(batch, ks[j])

AfterDelete(batch) ==
  [k \in Keys |-> IF Mentions(batch, k) = {} THEN kv[k] ELSE Absent]

Request ==
  /\ call = Idle
  /\ call'.op \in {"put", "delete"}
  /\ reply' = Silent
  /\ UNCHANGED kv

TakeEffect ==
  /\ \/ /\ call.op = "put"
        /\ kv' = AfterPut(call.batch)
        /\ reply'.deleted = <<>>
     \/ /\ call.op = "delete"
        /\ kv' = AfterDelete(call.batch)
        /\ Reports(reply'.deleted, call.batch)
  /\ reply' = Done(reply'.deleted)
  /\ call' = Idle

Fail ==
  /\ call # Idle
  /\ call' = Idle
  /\ reply' = Failed
  /\ UNCHANGED kv

\* The process dies: the request and the reply are lost.
Lose ==
  /\ call' = Idle
  /\ reply' = Silent
  /\ UNCHANGED kv

\* clear, and the removal of the box file.
Erase ==
  /\ call = Idle
  /\ kv' = Empty
  /\ reply' = Silent
  /\ UNCHANGED call

NextBox == Request \/ TakeEffect \/ Fail \/ Lose \/ Erase

SpecBox == InitBox /\ [][NextBox]_lvars
=============================================================================
