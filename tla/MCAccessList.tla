----------------------------- MODULE MCAccessList -----------------------------
(* Files from empty to larger than the limit. *)
EXTENDS AccessList

MCIds == {"empty", "small", "medium", "medium2", "large"}
MCSize == [empty |-> 0, small |-> 1, medium |-> 2, medium2 |-> 2, large |-> 5]
MCItemSettings == {1, 2, 3}
MCSizeSettings == {2, 4, 6}
=============================================================================
