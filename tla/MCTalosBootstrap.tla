---------------------------- MODULE MCTalosBootstrap ----------------------------
(* TalosBootstrap for TLC: PKIs are interchangeable, and so are the nodes    *)
(* that are not control planes.                                              *)
EXTENDS TalosBootstrap, TLC

CONSTANTS n1, n2, n3, p1, p2, p3

Symmetry == Permutations(Pkis) \union Permutations(Nodes \ ControlPlanes)
=============================================================================
