------------------------------ MODULE UndoRedo ------------------------------
(***************************************************************************)
(* class UndoRedoMiddleware between the workspace store and its buffer.    *)
(* Every set({idToEditorMap}) of the store runs handleStoreChange before   *)
(* the map is replaced; the key handler runs handleUndo and handleRedo.    *)
(* Undo asks VS Code to close the panes of the editors it takes away and   *)
(* does not wait: the pane closes later, or the user keeps it, and a closed*)
(* pane comes back to the store as respondToEditorClosing.                 *)
(* JavaScript runs each handler to its end, so each is one action.         *)
(***************************************************************************)
EXTENDS UndoRedoBuffer

CONSTANTS
  MaxTime,       \* bound of the clock
  MaxHistory     \* bound of the recorded changes (undo, redo and open batch)

ASSUME BoundsAssumption == MaxTime \in Nat /\ MaxHistory \in Nat

VARIABLES
  idToEditorMap,    \* the store's map
  undoRedoBuffer,   \* the middleware's buffer
  closing,          \* panes undo asked VS Code to close, not answered yet
  now               \* Date.now()

vars == <<idToEditorMap, undoRedoBuffer, closing, now>>

TypeOK ==
  /\ idToEditorMap \in EditorMaps
  /\ undoRedoBuffer \in Buffer
  /\ closing \subseteq Identifiers
  /\ now \in Nat

Init ==
  /\ idToEditorMap = EmptyMap
  /\ undoRedoBuffer = EmptyBuffer
  /\ closing = {}
  /\ now = 0
-----------------------------------------------------------------------------
\* What isNoop compares of an editor.
Look(editor) == <<editor.geometry, editor.type, editor.identifier>>

\* Mutant of isNoop: any new map counts as a change.
isNoopNever(previous, current) == FALSE

isNoop(previous, current) ==
  /\ DOMAIN previous = DOMAIN current
  /\ \A e \in DOMAIN previous : Look(current[e]) = Look(previous[e])

handleStoreChange(b, previous, current, t) ==
  IF isNoop(previous, current) THEN b ELSE push(b, previous, t)

\* Ghost and references editors never come back.
filterGhostAndReferenceEditors(map) ==
  Without(map, {e \in DOMAIN map : map[e].isGhost \/ map[e].type = "REFERENCES_EDITOR"})

\* The panes of the editors on the canvas that are not in the map undo restores.
PanesToClose(map, restored) ==
  {map[e].identifier : e \in {d \in DOMAIN map \ DOMAIN restored :
      map[d].type \in ClosableTypes /\ map[d].identifier # NoIdentifier}}

\* The changes recorded and not yet dropped.
Recorded == Len(undoRedoBuffer.undoBuffer) + Len(undoRedoBuffer.redoBuffer)
              + (IF undoRedoBuffer.dirty THEN 1 ELSE 0)
-----------------------------------------------------------------------------
\* set({idToEditorMap: map}) while the buffer tracks changes.
Set(map) ==
  /\ undoRedoBuffer' = handleStoreChange(undoRedoBuffer, idToEditorMap, map, now)
  /\ idToEditorMap' = map

\* Any store operation that replaces the map.
SetEditors(map) ==
  /\ Recorded < MaxHistory
  /\ DistinctPanes(map)
  /\ Set(map)
  /\ UNCHANGED <<closing, now>>

\* set between setTrackChanges(false) and setTrackChanges(true).
SetUntracked(map) ==
  LET off == setTrackChanges(undoRedoBuffer, FALSE)
      set == handleStoreChange(off, idToEditorMap, map, now)
  IN /\ undoRedoBuffer' = setTrackChanges(set, TRUE)
     /\ idToEditorMap' = map
     /\ UNCHANGED <<closing, now>>

setEditorDirty(e, isDirty) ==
  /\ e \in DOMAIN idToEditorMap
  /\ idToEditorMap[e].isDirty # isDirty
  /\ SetUntracked([idToEditorMap EXCEPT ![e].isDirty = isDirty])

\* The types whose isDirty a save clears.
SavedTypes == {"CODE_EDITOR", "GHOST_EDITOR", "DIFF_EDITOR", "REFERENCES_EDITOR"}

\* S: the editors that show the saved file.
onSaveEditor(S) ==
  SetUntracked([e \in DOMAIN idToEditorMap |->
                  IF e \in S /\ idToEditorMap[e].type \in SavedTypes THEN [idToEditorMap[e] EXCEPT !.isDirty = FALSE]
                             ELSE idToEditorMap[e]])

commitAction ==
  /\ undoRedoBuffer' = commit(undoRedoBuffer, now)
  /\ UNCHANGED <<idToEditorMap, closing, now>>

handleUndo ==
  LET u == undo(undoRedoBuffer, idToEditorMap, now)
      restored == filterGhostAndReferenceEditors(u.item)
  IN /\ undoRedoBuffer' = u.buffer
     /\ \/ /\ u.item # NoMap
           /\ idToEditorMap' = restored
           /\ closing' = closing \cup PanesToClose(idToEditorMap, restored)
        \/ /\ u.item = NoMap
           /\ UNCHANGED <<idToEditorMap, closing>>
     /\ UNCHANGED now

handleRedo ==
  LET r == redo(undoRedoBuffer, idToEditorMap)
  IN /\ undoRedoBuffer' = r.buffer
     /\ \/ /\ r.item # NoMap
           /\ idToEditorMap' = filterGhostAndReferenceEditors(r.item)
        \/ /\ r.item = NoMap
           /\ UNCHANGED idToEditorMap
     /\ UNCHANGED <<closing, now>>

\* The editors that show pane i.
Showing(map, i) == {e \in DOMAIN map : map[e].type \in ClosableTypes /\ map[e].identifier = i}

\* respondToEditorClosing: VS Code has closed pane i.  Of the editors that show it, the
\* ones in gone respond; an editor that a reload has told not to respond stays, and only
\* shouldRespondToCloseEvents, at which isNoop does not look, changes.
PaneClosed(i) ==
  /\ i \in closing
  /\ closing' = closing \ {i}
  /\ \E gone \in SUBSET Showing(idToEditorMap, i) :
       /\ Recorded < MaxHistory \/ gone = {}
       /\ Set(Without(idToEditorMap, gone))
  /\ UNCHANGED now

\* The user keeps the pane: nothing comes back.
CloseRefused(i) ==
  /\ i \in closing
  /\ closing' = closing \ {i}
  /\ UNCHANGED <<idToEditorMap, undoRedoBuffer, now>>

Tick ==
  /\ now < MaxTime
  /\ now' = now + 1
  /\ UNCHANGED <<idToEditorMap, undoRedoBuffer, closing>>

Next ==
  \/ \E map \in EditorMaps : SetEditors(map)
  \/ \E e \in EditorIds, d \in BOOLEAN : setEditorDirty(e, d)
  \/ \E S \in SUBSET EditorIds : onSaveEditor(S)
  \/ commitAction
  \/ handleUndo
  \/ handleRedo
  \/ \E i \in Identifiers : PaneClosed(i) \/ CloseRefused(i)
  \/ Tick

Spec == Init /\ [][Next]_vars
-----------------------------------------------------------------------------
\* An open batch (currentBatch holds a map, dirty) never coexists with something
\* to redo: push clears redoBuffer when it opens the batch, and undo commits the
\* batch before it fills redoBuffer.  redo() itself does not commit, so this is
\* what keeps it from recording the map out of order.
OpenBatchHasNoRedo ==
  /\ undoRedoBuffer.dirty <=> undoRedoBuffer.currentBatch # NoMap
  /\ undoRedoBuffer.dirty => undoRedoBuffer.redoBuffer = << >>

\* Pressing undo and then redo, wherever the buffer stands, returns to the map
\* the undo left (without its ghost and references editors) and keeps every older
\* undo step and every older redo step.
UndoThenRedoReturns ==
  LET u == undo(undoRedoBuffer, idToEditorMap, now)
      r == redo(u.buffer, filterGhostAndReferenceEditors(u.item))
  IN u.item # NoMap =>
       /\ r.item = idToEditorMap
       /\ r.buffer.redoBuffer = undoRedoBuffer.redoBuffer
       /\ Popped(r.buffer.undoBuffer) = Popped(commit(undoRedoBuffer, now).undoBuffer)

\* The late close of a pane whose editor undo took off the canvas is invisible to
\* the history: unless the editor is back on the canvas, respondToEditorClosing
\* neither adds an undo step nor drops what could be redone.
LateClose ==
  \A i \in Identifiers :
    PaneClosed(i) /\ Showing(idToEditorMap, i) = {} => UNCHANGED undoRedoBuffer

LateCloseKeepsHistory == [][LateClose]_vars

\* The undo stack with the open batch on top, the map, and the redo stack are a
\* line of states with a cursor.
TL == INSTANCE Timeline WITH
        States <- EditorMaps, Start <- EmptyMap,
        Restored <- filterGhostAndReferenceEditors, LooksLike <- isNoop,
        past <- IF undoRedoBuffer.dirty
                  THEN Append(undoRedoBuffer.undoBuffer, undoRedoBuffer.currentBatch)
                  ELSE undoRedoBuffer.undoBuffer,
        present <- idToEditorMap,
        future <- undoRedoBuffer.redoBuffer

\* The middleware and its buffer implement the line of states: every visible
\* change of the map can be undone, a batch is undone as one, commits are
\* invisible, and moving along the line loses nothing.
ImplementsTimeline == TL!Spec
=============================================================================
