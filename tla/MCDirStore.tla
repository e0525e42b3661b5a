------------------------------ MODULE MCDirStore ------------------------------
(* Three references, of which two of some fit the limits, and two jobs. *)
EXTENDS DirStore

MCIds == {"small", "medium", "large"}
MCSize == [small |-> 1, medium |-> 2, large |-> 3]
JobSymmetry == Permutations(Jobs)
=============================================================================
