----------------------------- MODULE MCHandshake -----------------------------
(* Instances of Handshake for TLC; see the cfg files named handshake_*.     *)
EXTENDS Handshake

\* Nodes are interchangeable: no definition compares or orders them.
Symmetry == Permutations(Node)
=============================================================================
