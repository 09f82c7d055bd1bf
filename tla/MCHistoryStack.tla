--------------------------- MODULE MCHistoryStack ---------------------------
(***************************************************************************)
(* HistoryStack with three editors.                                        *)
(***************************************************************************)
EXTENDS HistoryStack, TLC

CONSTANTS e1, e2, e3

Symmetry == Permutations({e1, e2, e3})
=============================================================================
