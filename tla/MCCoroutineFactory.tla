-------------------------- MODULE MCCoroutineFactory --------------------------
(* One factory with three keys and three addresses.                        *)
EXTENDS CoroutineFactory, TLC

CONSTANTS a1, a2, a3, k1, k2, k3

MCHandles == {a1, a2, a3}
MCKeys == {k1, k2, k3}
Symmetry == Permutations(MCHandles) \cup Permutations(MCKeys)

Bits == {0, 1}
Zero == {0}
OneWord == {1}
===============================================================================
