---------------------------- MODULE MCSyncShared ----------------------------
(***************************************************************************)
(* Two commands run in parallel on one store, beside a second device.      *)
(* They are interchangeable, hence the symmetry.                           *)
(***************************************************************************)
EXTENDS MCSync

CONSTANTS p1, p2, pb

SharedStore == [p \in {p1, p2, pb} |-> IF p = pb THEN "b" ELSE "a"]
Parallel == Permutations({p1, p2})

\* The other device deletes one of the two tasks.
DeleteT2 == Delete(6, "t2", 1)
SharedOps == {CreateT1, CreateB, DeleteT2}
SharedMintedBy == [op \in SharedOps |-> IF op = CreateT1 THEN "a" ELSE "b"]
=============================================================================
