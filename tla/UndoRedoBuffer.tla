--------------------------- MODULE UndoRedoBuffer ---------------------------
(***************************************************************************)
(* class UndoRedoBuffer: the undo and redo stacks of the canvas.  The only *)
(* key the middleware ever pushes is idToEditorMap, so an item is one map. *)
(* Changes are grouped: currentBatch holds the map from before the first   *)
(* change of the open group, and becomes an item when it is committed.     *)
(* A method is an operator from the buffer (and the current time) to the   *)
(* buffer it leaves; undo and redo also return the item they popped.       *)
(***************************************************************************)
EXTENDS CanvasEditor, Integers

CONSTANTS
  NoMap,        \* the key is absent (== null)
  BatchWindow   \* 250 ms, in ticks of the clock

ASSUME BufferAssumption == NoMap \notin EditorMaps /\ BatchWindow \in Nat

Buffer ==
  [currentBatch : EditorMaps \cup {NoMap}, timestamp : Int, undoBuffer : Seq(EditorMaps),
   redoBuffer : Seq(EditorMaps), trackChanges : BOOLEAN, dirty : BOOLEAN]

EmptyBuffer ==
  [currentBatch |-> NoMap, timestamp |-> -1, undoBuffer |-> << >>,
   redoBuffer |-> << >>, trackChanges |-> TRUE, dirty |-> FALSE]

\* pop(): the stack without its top.
Popped(stack) == SubSeq(stack, 1, Len(stack) - 1)

\* Mutant of commit: the early return on a clean buffer is dropped.
commitUnguarded(b, now) ==
  [b EXCEPT !.undoBuffer = Append(@, b.currentBatch), !.currentBatch = NoMap,
            !.timestamp = now, !.dirty = FALSE]

commit(b, now) ==
  IF b.dirty
    THEN [b EXCEPT !.undoBuffer = Append(@, b.currentBatch), !.currentBatch = NoMap,
                   !.timestamp = now, !.dirty = FALSE]
    ELSE b

\* The open batch is too old to take another change.
BatchExpired(b, now) ==
  b.dirty /\ b.timestamp # -1 /\ now - b.timestamp > BatchWindow

\* Mutant of Record: redoBuffer is not cleared.
RecordKeepingRedo(b, map, now) ==
  IF b.currentBatch = NoMap
    THEN [b EXCEPT !.currentBatch = map, !.timestamp = now, !.dirty = TRUE]
    ELSE b

\* Mutant of Record: every change of the batch overwrites the key.
RecordLatest(b, map, now) ==
  [b EXCEPT !.currentBatch = map, !.timestamp = now, !.dirty = TRUE, !.redoBuffer = << >>]

\* The first change of a batch records the map from before it and drops what
\* could be redone; the later ones find the key taken.
Record(b, map, now) ==
  IF b.currentBatch = NoMap
    THEN [b EXCEPT !.currentBatch = map, !.timestamp = now, !.dirty = TRUE,
                   !.redoBuffer = << >>]
    ELSE b

push(b, map, now) ==
  IF b.trackChanges
    THEN Record(IF BatchExpired(b, now) THEN commit(b, now) ELSE b, map, now)
    ELSE b

\* Mutant of undo: the open batch is not committed first.
undoUncommitted(b, current, now) ==
  IF b.undoBuffer = << >>
    THEN [buffer |-> b, item |-> NoMap]
    ELSE [buffer |-> [b EXCEPT !.undoBuffer = Popped(@), !.redoBuffer = Append(@, current)],
          item   |-> b.undoBuffer[Len(b.undoBuffer)]]

\* current is the idToEditorMap of the store when the method runs.
undo(b, current, now) ==
  LET c == commit(b, now) IN
  IF c.undoBuffer = << >>
    THEN [buffer |-> c, item |-> NoMap]
    ELSE [buffer |-> [c EXCEPT !.undoBuffer = Popped(@), !.redoBuffer = Append(@, current)],
          item   |-> c.undoBuffer[Len(c.undoBuffer)]]

redo(b, current) ==
  IF b.redoBuffer = << >>
    THEN [buffer |-> b, item |-> NoMap]
    ELSE [buffer |-> [b EXCEPT !.redoBuffer = Popped(@), !.undoBuffer = Append(@, current)],
          item   |-> b.redoBuffer[Len(b.redoBuffer)]]

setTrackChanges(b, track) == [b EXCEPT !.trackChanges = track]
=============================================================================
