------------------------- MODULE MCEditorLifecycle -------------------------
(***************************************************************************)
(* EditorLifecycle with two editors, three panes and two calls at once.    *)
(***************************************************************************)
EXTENDS EditorLifecycle, TLC

CONSTANTS e1, e2, p1, p2, p3, s1, s2

MCIds == {e1, e2}
MCPanes == {p1, p2, p3}
FewPanes == {p1, p2}
MCSlots == {s1, s2}
Symmetry == Permutations(MCIds) \cup Permutations(MCPanes) \cup Permutations(MCSlots)
=============================================================================
