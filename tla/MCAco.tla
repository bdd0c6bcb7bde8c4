--------------------------------- MODULE MCAco ---------------------------------
(***************************************************************************)
(* Instances of Aco.  The stack instance tells words apart and has two     *)
(* coroutines; the switch instance tells registers apart and has three.    *)
(***************************************************************************)
EXTENDS Aco, TLC

CONSTANTS co1, co2, co3

Two == {co1, co2}
Three == {co1, co2, co3}
TwoSymmetry == Permutations(Two)
ThreeSymmetry == Permutations(Three)

Bits == {0, 1}
Zero == {0}
OneWord == {1}
===============================================================================
