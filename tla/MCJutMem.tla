-------------------------------- MODULE MCJutMem --------------------------------
(* Two threads and two blocks; sizes of nothing, of one that fits a header *)
(* and of one that does not.                                               *)
EXTENDS JutMem, TLC

CONSTANTS t1, t2, a1, a2, nobody

MCThreads == {t1, t2}
MCBlocks == {a1, a2}
MCRequests == {0, 3, 5}
Symmetry == Permutations(MCThreads) \cup Permutations(MCBlocks)
===============================================================================
