------------------------- MODULE MCCanvasWorkspaces -------------------------
(***************************************************************************)
(* CanvasWorkspaces with two workspaces, one editor group and two clicks.  *)
(***************************************************************************)
EXTENDS CanvasWorkspaces, TLC

CONSTANTS w1, w2, g1, t1, t2

MCIds == {w1, w2}
MCGroups == {g1}
MCCodeGroups == {g1}
MCSlots == {t1, t2}

\* Bounds: one question about unsaved changes at a time, as the dialog is modal, and one
\* click while a new window has still to restore its workspace.
FewClicks ==
  /\ clicks[t1].stage = "asked" => clicks[t2].stage # "asked"
  /\ restoring # NoWorkspace => clicks[t1] = NoClick \/ clicks[t2] = NoClick

MCSymmetry == Permutations(MCIds) \cup Permutations(MCSlots)
=============================================================================
