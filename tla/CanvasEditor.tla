---------------------------- MODULE CanvasEditor ----------------------------
(***************************************************************************)
(* The values the workspace store keeps in idToEditorMap, abstracted to    *)
(* what the middlewares tell apart.  A canvas editor is a record: its type,*)
(* its geometry (position and size, one opaque value), the VS Code pane it *)
(* shows (identifier, or NoIdentifier while the pane is still opening), and*)
(* its isGhost and isDirty flags.  An idToEditorMap is a function from the *)
(* identities of the editors on the canvas to such records.                *)
(***************************************************************************)
EXTENDS Naturals, Sequences

CONSTANTS
  EditorIds,     \* the uuids an editor on the canvas may have
  Geometries,    \* the positions and sizes an editor may have
  Identifiers,   \* the VS Code panes (editor and group) that may be open
  NoIdentifier,  \* identifier: null
  Editors        \* the editor records considered

\* enum CanvasEditorType.
CanvasEditorType ==
  {"CODE_EDITOR", "DIFF_EDITOR", "GHOST_EDITOR", "MODAL_EDITOR", "MERGE_EDITOR",
   "REFERENCES_EDITOR", "COPILOT_SETTINGS_EDITOR", "HAYSTACK_KEYBINDINGS_EDITOR"}

\* The types whose pane the close paths of the store close and listen to.
ClosableTypes == {"CODE_EDITOR", "DIFF_EDITOR", "MODAL_EDITOR", "GHOST_EDITOR"}

EditorRecord ==
  [type : CanvasEditorType, geometry : Geometries,
   identifier : Identifiers \cup {NoIdentifier}, isGhost : BOOLEAN, isDirty : BOOLEAN]

\* Flipping isDirty stays within the records considered.
ASSUME EditorsAssumption ==
  /\ Editors \subseteq EditorRecord
  /\ \A x \in Editors, d \in BOOLEAN : [x EXCEPT !.isDirty = d] \in Editors

\* Every idToEditorMap over these identities and records.
EditorMaps == UNION { [S -> Editors] : S \in SUBSET EditorIds }

\* VS Code gives every pane of its own to one editor.
DistinctPanes(map) ==
  \A d, e \in DOMAIN map :
    map[d].identifier = map[e].identifier /\ d # e => map[d].identifier = NoIdentifier

\* new Map().
EmptyMap == [e \in {} |-> NoIdentifier]

\* The map with the identities in S deleted.
Without(map, S) == [e \in DOMAIN map \ S |-> map[e]]
=============================================================================
