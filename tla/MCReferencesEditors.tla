------------------------- MODULE MCReferencesEditors -------------------------
(* Instance of ReferencesEditors for TLC.                                   *)
EXTENDS ReferencesEditors, TLC

Symmetry == Permutations(CodeEditors) \cup Permutations(Ids)
=============================================================================
