------------------------ MODULE BoxStorageRefinement ------------------------
(***************************************************************************)
(* The storage of a box implements the map its callers see.  The mapping   *)
(* reads the committed file: whatever the transactions, the encryption and *)
(* the indexes do to it, its plaintext content is the map.  A call that    *)
(* does not change records (open, encrypt_box) is no call of the map.      *)
(***************************************************************************)
EXTENDS BoxStorage

LogicalCall ==
  IF pc \in {"put", "delete"} THEN [op |-> pc, batch |-> call.batch]
  ELSE [op |-> "none", batch |-> <<>>]

Logical == INSTANCE LogicalBox WITH kv <- file.val, call <- LogicalCall, reply <- reply

\* Every behaviour of the storage is one of the map: a batch is applied as a
\* whole, in order, the last entry for a key winning; an error or a crash
\* leaves the records as they were; delete_all reports exactly the records it
\* removed; encryption and indexes never change a record (db.rs:464-785).
ImplementsLogicalBox == Logical!SpecBox
=============================================================================
