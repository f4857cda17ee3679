---------------------------- MODULE MCBoxStorage ----------------------------
(***************************************************************************)
(* A small box: two keys, two indexed fields and a few payloads.  "int"    *)
(* and "float" hold the same number in two MessagePack encodings, so that  *)
(* their plain entries differ and their encrypted tokens do not; "float"   *)
(* has no second field, "list" holds a list in the first one, "bare" has   *)
(* neither and "bad" is not MessagePack.                                   *)
(***************************************************************************)
EXTENDS BoxStorageRefinement

MCIndexScalar ==
  [ v \in Values |->
      [ f \in Fields |->
          CASE v = "int"   -> "1"
            [] v = "float" -> IF f = "age" THEN "1.0" ELSE NoScalar
            [] v = "list"  -> IF f = "age" THEN Unsupported ELSE "1"
            [] OTHER       -> NoScalar ] ]

MCCanon == [s \in Scalars |-> "1"]
=============================================================================
