------------------------- MODULE MCManifestRevisions -------------------------
(* Instances of ManifestRevisions for TLC.                                   *)
EXTENDS ManifestRevisions, TLC

CONSTANTS r1, r2, a, b

MCTemplates == {{a}, {a, b}}
Symmetry == Permutations(Requests)
=============================================================================
