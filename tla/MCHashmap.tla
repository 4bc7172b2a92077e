----------------------------- MODULE MCHashmap -----------------------------
(***************************************************************************)
(* Four names, two of them of one length, and every hash function into a   *)
(* range larger than the first tables.                                     *)
(***************************************************************************)
EXTENDS HashmapUse, TLC

MCKeys == {"a", "b", "cc", "ddd"}
MCKeySize == "a" :> 2 @@ "b" :> 2 @@ "cc" :> 3 @@ "ddd" :> 4
MCHashes == [Keys -> {0, 1, 2, 3, 5, 7}]
=============================================================================
