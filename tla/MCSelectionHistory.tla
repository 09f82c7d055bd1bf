------------------------- MODULE MCSelectionHistory -------------------------
(***************************************************************************)
(* SelectionHistory with two editors and three cursor positions: the first *)
(* two are five lines apart, one too few to be recorded.                   *)
(***************************************************************************)
EXTENDS SelectionHistory, TLC

CONSTANTS e1, e2

At(line) == [start |-> line, end |-> line]

MCRanges == {At(1), At(6), At(12)}

Symmetry == Permutations({e1, e2})
=============================================================================
