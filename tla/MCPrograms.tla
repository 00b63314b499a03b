----------------------------- MODULE MCPrograms -----------------------------
(* Programs for TLC: blocks are interchangeable.                           *)
EXTENDS Programs, TLC

BlockSymmetry == Permutations(Nodes)
=============================================================================
