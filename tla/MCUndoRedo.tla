----------------------------- MODULE MCUndoRedo -----------------------------
(***************************************************************************)
(* UndoRedo on a canvas of two editors.                                    *)
(***************************************************************************)
EXTENDS UndoRedo

CONSTANTS e1, e2, p1, p2, g1

MCEditorIds == {e1, e2}
MCIdentifiers == {p1, p2}
MCGeometries == {g1}

Editor(type, geometry, identifier, isGhost, isDirty) ==
  [type |-> type, geometry |-> geometry, identifier |-> identifier,
   isGhost |-> isGhost, isDirty |-> isDirty]

\* A code editor and a ghost editor whose panes are open and a references editor,
\* each clean or with unsaved text.
MCEditors ==
  {Editor("CODE_EDITOR", g1, p1, FALSE, d) : d \in BOOLEAN} \cup
  {Editor("GHOST_EDITOR", g1, p2, TRUE, d) : d \in BOOLEAN} \cup
  {Editor("REFERENCES_EDITOR", g1, NoIdentifier, FALSE, d) : d \in BOOLEAN}
=============================================================================
