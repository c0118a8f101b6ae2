---------------------------- MODULE MCAllocation ----------------------------
(* Two object slots (the local in allocate_single_superpage and the one it *)
(* is moved into), three virtual superpages, two reserved huge pages.      *)
EXTENDS Allocation, TLC

CONSTANTS o1, o2

MCObjs == {o1, o2}
MCSymmetry == Permutations(MCObjs)
=============================================================================
