-------------------------- MODULE BoxStorageFaults --------------------------
(***************************************************************************)
(* BoxStorage with one more I/O error: the read with which open asks for   *)
(* the data table fails.  open takes the error for the answer "no", and    *)
(* goes on as if the file were new.                                        *)
(***************************************************************************)
EXTENDS MCBoxStorage

OpenMisread(password) ==
  /\ Closed
  /\ file.exists
  /\ call' = Call("open", password, <<>>)
  /\ fresh' = TRUE
  /\ pc' = "openMeta"
  /\ UNCHANGED <<profile, file, handle, txnVars, reply>>

FaultySpec == Init /\ [][Next \/ \E p \in Ciphers : OpenMisread(p)]_vars

\* A box on disk can be read after a reopen: an open that fails leaves its
\* records in place.  docs/RELEASE_CANDIDATE_EVIDENCE_10.md:32, "existing
\* `dxtr_box/1` databases must remain readable after reopen"; an error of
\* open_table(DATA) counts as a missing table (db.rs:378-380), and when the
\* initialisation that follows fails, the file is removed (db.rs:399-405).
ReopenKeepsRecords ==
  [][(pc \in OpenSteps /\ file.mode # "absent") => file'.val = file.val]_vars
=============================================================================
