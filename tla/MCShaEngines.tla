---------------------------- MODULE MCShaEngines ----------------------------
(* ShaEngines for TLC: the contexts are interchangeable.                   *)
EXTENDS ShaEngines, TLC

Symmetry == Permutations(Contexts)
=============================================================================
