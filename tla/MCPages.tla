------------------------------ MODULE MCPages ------------------------------
(* Instances of PageCache for TLC. *)
EXTENDS PageCache

(* The whole document, which the backend asks for, its two halves, a range *)
(* that overlaps both, and an empty one.                                   *)
SomeRanges == {<<1, NPages>>, <<1, 2>>, <<3, NPages>>, <<2, 3>>, <<2, 1>>}
=============================================================================
