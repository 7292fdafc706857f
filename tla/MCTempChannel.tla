---------------------------- MODULE MCTempChannel ----------------------------
(* TempChannel for TLC: nodes are interchangeable.                         *)
EXTENDS TempChannel, TLC

Symmetry == Permutations(Node)
=============================================================================
