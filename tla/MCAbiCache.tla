------------------------------ MODULE MCAbiCache ------------------------------
(* TLC instances of AbiCache; the .cfg files choose among these block bodies. *)
EXTENDS AbiCache

\* At most one setabi in a block, with actions before and after it.
OneSetAbi == {<<Use>>, <<Use, 1, Use>>, <<2, Use>>, <<Use, 3>>}

\* A setabi that only one branch holds.
ForkedSetAbi == {<<1>>, <<Use>>}
=============================================================================
