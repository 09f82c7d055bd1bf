--------------------------- MODULE UndoRedoProofs ---------------------------
(***************************************************************************)
(* Proofs about UndoRedo, for every set of editors, window and bound.      *)
(***************************************************************************)
EXTENDS UndoRedo, SequenceTheorems, TLAPS

USE EditorsAssumption, BufferAssumption, BoundsAssumption

\* EditorMaps, from the inside and from the outside.
LEMMA MapIntro ==
  ASSUME NEW S \in SUBSET EditorIds, NEW f \in [S -> Editors]
  PROVE  f \in EditorMaps
  <1>1. [S -> Editors] \in {[T -> Editors] : T \in SUBSET EditorIds}
    OBVIOUS
  <1> QED BY <1>1, Zenon DEF EditorMaps

LEMMA MapElim ==
  ASSUME NEW map \in EditorMaps
  PROVE  DOMAIN map \subseteq EditorIds /\ map \in [DOMAIN map -> Editors]
  <1>1. PICK S \in SUBSET EditorIds : map \in [S -> Editors]
    BY Zenon DEF EditorMaps
  <1> QED BY <1>1

\* Deleting identities from a map gives a map.
LEMMA WithoutType ==
  ASSUME NEW map \in EditorMaps, NEW S
  PROVE  Without(map, S) \in EditorMaps
  <1>1. Without(map, S) \in [DOMAIN map \ S -> Editors]
    BY MapElim DEF Without
  <1>2. DOMAIN map \ S \in SUBSET EditorIds
    BY MapElim
  <1> QED BY <1>1, <1>2, MapIntro

\* The map of a new canvas is a map.
LEMMA EmptyMapType == EmptyMap \in EditorMaps
  <1>1. EmptyMap \in [{} -> Editors]
    BY DEF EmptyMap
  <1> QED BY <1>1, MapIntro

\* What undo and redo restore of a map is a map.
LEMMA FilterType ==
  ASSUME NEW map \in EditorMaps
  PROVE  filterGhostAndReferenceEditors(map) \in EditorMaps
  BY WithoutType DEF filterGhostAndReferenceEditors

\* The top of a nonempty stack and the stack without it have their types.
LEMMA PopType ==
  ASSUME NEW s \in Seq(EditorMaps), s # << >>
  PROVE  s[Len(s)] \in EditorMaps /\ Popped(s) \in Seq(EditorMaps)
  <1>1. s[Len(s)] \in EditorMaps
    OBVIOUS
  <1>2. SubSeq(s, 1, Len(s) - 1) \in Seq(EditorMaps)
    OBVIOUS
  <1> QED BY <1>1, <1>2 DEF Popped

\* Popping what was just appended gives the stack back.
LEMMA PopAppend ==
  ASSUME NEW s \in Seq(EditorMaps), NEW m \in EditorMaps
  PROVE  /\ Append(s, m) \in Seq(EditorMaps)
         /\ Append(s, m) # << >>
         /\ Append(s, m)[Len(Append(s, m))] = m
         /\ Popped(Append(s, m)) = s
  <1>1. Append(s, m) \in Seq(EditorMaps) /\ Append(s, m) # << >>
    OBVIOUS
  <1>2. Len(Append(s, m)) = Len(s) + 1 /\ Append(s, m)[Len(s) + 1] = m
    OBVIOUS
  <1>3. SubSeq(Append(s, m), 1, Len(s)) = s
    OBVIOUS
  <1>4. (Len(s) + 1) - 1 = Len(s)
    OBVIOUS
  <1> QED BY <1>1, <1>2, <1>3, <1>4 DEF Popped

\* A batch is open exactly when it holds a map, and then nothing can be redone.
Consistent(b) ==
  /\ b.dirty <=> b.currentBatch # NoMap
  /\ b.dirty => b.redoBuffer = << >>

\* commit keeps the buffer typed and consistent and leaves no open batch.
LEMMA CommitType ==
  ASSUME NEW b \in Buffer, Consistent(b), NEW t \in Int
  PROVE  /\ commit(b, t) \in Buffer
         /\ Consistent(commit(b, t))
         /\ ~ commit(b, t).dirty
         /\ commit(b, t).redoBuffer = b.redoBuffer
         /\ commit(b, t).trackChanges = b.trackChanges
         /\ commit(b, t).undoBuffer = IF b.dirty THEN Append(b.undoBuffer, b.currentBatch)
                                                 ELSE b.undoBuffer
  <1>1. CASE ~ b.dirty
    BY <1>1 DEF commit
  <1>2. CASE b.dirty
    <2> DEFINE x == Append(b.undoBuffer, b.currentBatch)
               c == commit(b, t)
    <2>1. x \in Seq(EditorMaps)
      BY <1>2 DEF Buffer, Consistent
    <2> HIDE DEF x
    <2>2. c = [b EXCEPT !.undoBuffer = x, !.currentBatch = NoMap, !.timestamp = t, !.dirty = FALSE]
      BY <1>2 DEF commit, x
    <2>3. c \in Buffer
      BY <2>1, <2>2 DEF Buffer
    <2>4. c.dirty = FALSE /\ c.currentBatch = NoMap /\ c.undoBuffer = x
          /\ c.redoBuffer = b.redoBuffer /\ c.trackChanges = b.trackChanges
      BY <2>2 DEF Buffer
    <2> QED BY <1>2, <2>3, <2>4 DEF Consistent, x
  <1> QED BY <1>1, <1>2

\* What Record does, as facts about the fields.
LEMMA RecordType ==
  ASSUME NEW b \in Buffer, Consistent(b), NEW m \in EditorMaps, NEW t \in Int
  PROVE  /\ Record(b, m, t) \in Buffer
         /\ Consistent(Record(b, m, t))
         /\ Record(b, m, t).dirty
         /\ Record(b, m, t).undoBuffer = b.undoBuffer
         /\ Record(b, m, t).redoBuffer = << >>
         /\ Record(b, m, t).trackChanges = b.trackChanges
         /\ Record(b, m, t).currentBatch = IF b.dirty THEN b.currentBatch ELSE m
  <1> DEFINE d == Record(b, m, t)
  <1>1. CASE b.currentBatch = NoMap
    <2>1. d = [b EXCEPT !.currentBatch = m, !.timestamp = t, !.dirty = TRUE, !.redoBuffer = << >>]
      BY <1>1 DEF Record
    <2>2. << >> \in Seq(EditorMaps)
      OBVIOUS
    <2>3. d \in Buffer
      BY <2>1, <2>2 DEF Buffer
    <2>4. d.dirty = TRUE /\ d.currentBatch = m /\ d.redoBuffer = << >>
          /\ d.undoBuffer = b.undoBuffer /\ d.trackChanges = b.trackChanges
      BY <2>1 DEF Buffer
    <2>5. ~ b.dirty
      BY <1>1 DEF Consistent
    <2> QED BY <2>3, <2>4, <2>5 DEF Consistent
  <1>2. CASE b.currentBatch # NoMap
    BY <1>2 DEF Record, Consistent
  <1> QED BY <1>1, <1>2

\* push keeps the buffer typed and consistent.
LEMMA PushType ==
  ASSUME NEW b \in Buffer, Consistent(b), NEW m \in EditorMaps, NEW t \in Int
  PROVE  /\ push(b, m, t) \in Buffer
         /\ Consistent(push(b, m, t))
         /\ push(b, m, t).trackChanges = b.trackChanges
  <1> DEFINE c == IF BatchExpired(b, t) THEN commit(b, t) ELSE b
  <1>1. c \in Buffer /\ Consistent(c) /\ c.trackChanges = b.trackChanges
    BY CommitType
  <1>2. /\ Record(c, m, t) \in Buffer
        /\ Consistent(Record(c, m, t))
        /\ Record(c, m, t).trackChanges = b.trackChanges
    <2> HIDE DEF c
    <2> QED BY <1>1, RecordType
  <1> QED BY <1>2 DEF push

\* undo pops a map, if there is one, and keeps the buffer typed and consistent.
LEMMA UndoType ==
  ASSUME NEW b \in Buffer, Consistent(b), NEW m \in EditorMaps, NEW t \in Int
  PROVE  /\ undo(b, m, t).buffer \in Buffer
         /\ Consistent(undo(b, m, t).buffer)
         /\ undo(b, m, t).item \in EditorMaps \cup {NoMap}
         /\ ~ undo(b, m, t).buffer.dirty
         /\ undo(b, m, t).buffer.trackChanges = b.trackChanges
         /\ undo(b, m, t).item # NoMap <=> commit(b, t).undoBuffer # << >>
         /\ undo(b, m, t).item # NoMap =>
              /\ undo(b, m, t).item = commit(b, t).undoBuffer[Len(commit(b, t).undoBuffer)]
              /\ undo(b, m, t).buffer.undoBuffer = Popped(commit(b, t).undoBuffer)
              /\ undo(b, m, t).buffer.redoBuffer = Append(b.redoBuffer, m)
         /\ undo(b, m, t).item = NoMap => undo(b, m, t).buffer = commit(b, t)
  <1> DEFINE c == commit(b, t)
             u == undo(b, m, t)
  <1>1. c \in Buffer /\ Consistent(c) /\ ~ c.dirty /\ c.redoBuffer = b.redoBuffer
        /\ c.trackChanges = b.trackChanges
    BY CommitType
  <1>2. CASE c.undoBuffer = << >>
    <2>1. u = [buffer |-> c, item |-> NoMap]
      BY <1>2 DEF undo
    <2> HIDE DEF c, u
    <2> QED BY <1>1, <1>2, <2>1 DEF c, u
  <1>3. CASE c.undoBuffer # << >>
    <2> DEFINE x == Popped(c.undoBuffer)
               y == Append(c.redoBuffer, m)
               z == c.undoBuffer[Len(c.undoBuffer)]
    <2>1. u = [buffer |-> [c EXCEPT !.undoBuffer = x, !.redoBuffer = y], item |-> z]
      BY <1>3 DEF undo
    <2>2. c.undoBuffer \in Seq(EditorMaps) /\ c.redoBuffer \in Seq(EditorMaps)
      BY <1>1 DEF Buffer
    <2>3. x \in Seq(EditorMaps) /\ y \in Seq(EditorMaps) /\ z \in EditorMaps
      BY <1>3, <2>2, PopType, PopAppend
    <2> HIDE DEF x, y, z, c, u
    <2>4. u.buffer \in Buffer
      BY <1>1, <2>1, <2>3 DEF Buffer
    <2>5. u.buffer.undoBuffer = x /\ u.buffer.redoBuffer = y /\ u.buffer.dirty = c.dirty
          /\ u.buffer.currentBatch = c.currentBatch /\ u.item = z
          /\ u.buffer.trackChanges = c.trackChanges
      BY <1>1, <2>1 DEF Buffer
    <2>6. Consistent(u.buffer) /\ ~ u.buffer.dirty
      BY <1>1, <2>5 DEF Consistent
    <2> QED BY <1>1, <1>3, <2>3, <2>4, <2>5, <2>6 DEF x, y, z, c, u
  <1> QED BY <1>2, <1>3

\* So does redo.
LEMMA RedoType ==
  ASSUME NEW b \in Buffer, Consistent(b), NEW m \in EditorMaps
  PROVE  /\ redo(b, m).buffer \in Buffer
         /\ Consistent(redo(b, m).buffer)
         /\ redo(b, m).item \in EditorMaps \cup {NoMap}
         /\ redo(b, m).buffer.trackChanges = b.trackChanges
         /\ redo(b, m).item # NoMap <=> b.redoBuffer # << >>
         /\ redo(b, m).item # NoMap =>
              /\ ~ b.dirty /\ ~ redo(b, m).buffer.dirty
              /\ redo(b, m).item = b.redoBuffer[Len(b.redoBuffer)]
              /\ redo(b, m).buffer.redoBuffer = Popped(b.redoBuffer)
              /\ redo(b, m).buffer.undoBuffer = Append(b.undoBuffer, m)
         /\ redo(b, m).item = NoMap => redo(b, m).buffer = b
  <1> DEFINE u == redo(b, m)
  <1>1. CASE b.redoBuffer = << >>
    BY <1>1 DEF redo
  <1>2. CASE b.redoBuffer # << >>
    <2> DEFINE x == Popped(b.redoBuffer)
               y == Append(b.undoBuffer, m)
               z == b.redoBuffer[Len(b.redoBuffer)]
    <2>1. u = [buffer |-> [b EXCEPT !.redoBuffer = x, !.undoBuffer = y], item |-> z]
      BY <1>2 DEF redo
    <2>2. b.undoBuffer \in Seq(EditorMaps) /\ b.redoBuffer \in Seq(EditorMaps)
      BY DEF Buffer
    <2>3. x \in Seq(EditorMaps) /\ y \in Seq(EditorMaps) /\ z \in EditorMaps
      BY <1>2, <2>2, PopType, PopAppend
    <2> HIDE DEF x, y, z, u
    <2>4. u.buffer \in Buffer
      BY <2>1, <2>3 DEF Buffer
    <2>5. u.buffer.redoBuffer = x /\ u.buffer.undoBuffer = y /\ u.buffer.dirty = b.dirty
          /\ u.buffer.currentBatch = b.currentBatch /\ u.item = z
          /\ u.buffer.trackChanges = b.trackChanges
      BY <2>1 DEF Buffer
    <2>6. ~ b.dirty
      BY <1>2 DEF Consistent
    <2>7. Consistent(u.buffer) /\ ~ u.buffer.dirty
      BY <2>5, <2>6 DEF Consistent
    <2> QED BY <1>2, <2>3, <2>4, <2>5, <2>6, <2>7 DEF x, y, z, u
  <1> QED BY <1>1, <1>2

\* The tracking switch is on between two handlers: setEditorDirty and onSaveEditor
\* turn it off and on again within one.
Tracking == undoRedoBuffer.trackChanges = TRUE

\* The inductive invariant.
IInv == TypeOK /\ OpenBatchHasNoRedo /\ Tracking

\* A change of the store keeps the buffer typed and consistent.
LEMMA StoreChangeType ==
  ASSUME NEW b \in Buffer, Consistent(b), NEW m \in EditorMaps, NEW n \in EditorMaps,
         NEW t \in Int
  PROVE  /\ handleStoreChange(b, m, n, t) \in Buffer
         /\ Consistent(handleStoreChange(b, m, n, t))
         /\ handleStoreChange(b, m, n, t).trackChanges = b.trackChanges
  BY PushType DEF handleStoreChange

\* With the switch off nothing is recorded.
LEMMA UntrackedChange ==
  ASSUME NEW b \in Buffer, b.trackChanges = TRUE, NEW m \in EditorMaps, NEW n \in EditorMaps,
         NEW t \in Int
  PROVE  setTrackChanges(handleStoreChange(setTrackChanges(b, FALSE), m, n, t), TRUE) = b
  <1> DEFINE off == [b EXCEPT !.trackChanges = FALSE]
  <1>1. off.trackChanges = FALSE
    BY DEF Buffer
  <1>2. push(off, m, t) = off
    BY <1>1 DEF push
  <1>3. handleStoreChange(off, m, n, t) = off
    BY <1>2 DEF handleStoreChange
  <1>4. [off EXCEPT !.trackChanges = TRUE] = b
    BY DEF Buffer
  <1> QED BY <1>3, <1>4 DEF setTrackChanges

\* The map setEditorDirty and onSaveEditor leave: a map that looks the same.
LEMMA DirtyFlagMap ==
  ASSUME NEW map \in EditorMaps, NEW d \in BOOLEAN, NEW S,
         NEW n, n = [e \in DOMAIN map |-> IF e \in S THEN [map[e] EXCEPT !.isDirty = d] ELSE map[e]]
  PROVE  n \in EditorMaps /\ isNoop(map, n)
  <1>1. map \in [DOMAIN map -> Editors] /\ DOMAIN map \subseteq EditorIds
    BY MapElim
  <1>2. \A e \in DOMAIN map : map[e] \in EditorRecord
    BY <1>1
  <1>3. \A e \in DOMAIN map : [map[e] EXCEPT !.isDirty = d] \in Editors
    BY <1>1
  <1>4. n \in [DOMAIN map -> Editors]
    BY <1>1, <1>3
  <1>5. \A e \in DOMAIN map : Look([map[e] EXCEPT !.isDirty = d]) = Look(map[e])
    BY <1>2 DEF Look, EditorRecord
  <1>6. isNoop(map, n)
    BY <1>5 DEF isNoop
  <1> QED BY <1>1, <1>4, <1>6, MapIntro

LEMMA SetEditorDirtyMap ==
  ASSUME TypeOK, NEW e \in DOMAIN idToEditorMap, NEW d \in BOOLEAN
  PROVE  /\ [idToEditorMap EXCEPT ![e].isDirty = d] \in EditorMaps
         /\ isNoop(idToEditorMap, [idToEditorMap EXCEPT ![e].isDirty = d])
  <1> DEFINE n == [x \in DOMAIN idToEditorMap |->
                     IF x \in {e} THEN [idToEditorMap[x] EXCEPT !.isDirty = d]
                                  ELSE idToEditorMap[x]]
  <1>1. idToEditorMap \in [DOMAIN idToEditorMap -> Editors]
    BY MapElim DEF TypeOK
  <1>2. [idToEditorMap EXCEPT ![e].isDirty = d] = n
    BY <1>1
  <1> HIDE DEF n
  <1>3. n \in EditorMaps /\ isNoop(idToEditorMap, n)
    BY DirtyFlagMap DEF TypeOK, n
  <1> QED BY <1>2, <1>3

LEMMA OnSaveEditorMap ==
  ASSUME TypeOK, NEW S
  PROVE  LET n == [e \in DOMAIN idToEditorMap |->
                     IF e \in S /\ idToEditorMap[e].type \in SavedTypes
                       THEN [idToEditorMap[e] EXCEPT !.isDirty = FALSE]
                       ELSE idToEditorMap[e]]
         IN n \in EditorMaps /\ isNoop(idToEditorMap, n)
  <1> DEFINE T == {e \in DOMAIN idToEditorMap : e \in S /\ idToEditorMap[e].type \in SavedTypes}
             m == [e \in DOMAIN idToEditorMap |->
                     IF e \in T THEN [idToEditorMap[e] EXCEPT !.isDirty = FALSE]
                                ELSE idToEditorMap[e]]
  <1>1. m \in EditorMaps /\ isNoop(idToEditorMap, m)
    <2> HIDE DEF T
    <2> QED BY DirtyFlagMap DEF TypeOK
  <1>2. m = [e \in DOMAIN idToEditorMap |->
                     IF e \in S /\ idToEditorMap[e].type \in SavedTypes
                       THEN [idToEditorMap[e] EXCEPT !.isDirty = FALSE]
                       ELSE idToEditorMap[e]]
    OBVIOUS
  <1> HIDE DEF m
  <1> QED BY <1>1, <1>2

\* The panes undo asks to close are panes.
LEMMA PanesType ==
  ASSUME NEW map \in EditorMaps, NEW restored \in EditorMaps
  PROVE  PanesToClose(map, restored) \subseteq Identifiers
  <1>1. \A e \in DOMAIN map : map[e] \in EditorRecord
    BY MapElim
  <1> QED BY <1>1 DEF PanesToClose, EditorRecord

\* The initial state satisfies the inductive invariant.
LEMMA InitInv == Init => IInv
  <1> SUFFICES ASSUME Init PROVE IInv
    OBVIOUS
  <1>1. EmptyBuffer \in Buffer
    <2>1. << >> \in Seq(EditorMaps) /\ -1 \in Int
      OBVIOUS
    <2> QED BY <2>1 DEF EmptyBuffer, Buffer
  <1>2. TypeOK
    BY <1>1, EmptyMapType DEF Init, TypeOK
  <1>3. OpenBatchHasNoRedo
    BY DEF Init, EmptyBuffer, OpenBatchHasNoRedo
  <1>4. Tracking
    BY DEF Init, EmptyBuffer, Tracking
  <1> QED BY <1>2, <1>3, <1>4 DEF IInv

\* The inductive invariant, spelled out for the lemmas on the buffer.
Fits ==
  /\ undoRedoBuffer \in Buffer
  /\ Consistent(undoRedoBuffer)
  /\ undoRedoBuffer.trackChanges = TRUE
  /\ idToEditorMap \in EditorMaps
  /\ closing \subseteq Identifiers
  /\ now \in Nat

LEMMA InvFits == IInv <=> Fits
  BY DEF IInv, TypeOK, OpenBatchHasNoRedo, Consistent, Tracking, Fits

LEMMA InvFitsNext == IInv' <=> Fits'
  BY DEF IInv, TypeOK, OpenBatchHasNoRedo, Consistent, Tracking, Fits

\* Replacing the map keeps the buffer right, recorded or not.
LEMMA SetFits ==
  ASSUME Fits, NEW map \in EditorMaps, Set(map), closing' \subseteq Identifiers, now' \in Nat
  PROVE  Fits'
  <1>1. now \in Int
    BY DEF Fits
  <1> QED BY <1>1, StoreChangeType DEF Fits, Set

LEMMA SetUntrackedFits ==
  ASSUME Fits, NEW map \in EditorMaps, SetUntracked(map)
  PROVE  Fits' /\ undoRedoBuffer' = undoRedoBuffer
  <1>1. now \in Int
    BY DEF Fits
  <1>2. undoRedoBuffer' = undoRedoBuffer
    BY <1>1, UntrackedChange DEF Fits, SetUntracked
  <1> QED BY <1>2 DEF Fits, SetUntracked

\* Every step preserves the inductive invariant.
LEMMA NextInv == IInv /\ [Next]_vars => IInv'
  <1> SUFFICES ASSUME IInv, Fits, [Next]_vars PROVE Fits'
    BY InvFits, InvFitsNext
  <1>0. now \in Int /\ now \in Nat
    BY DEF Fits
  <1>1. ASSUME NEW map \in EditorMaps, SetEditors(map)
        PROVE  Fits'
    <2>1. Set(map) /\ closing' \subseteq Identifiers /\ now' \in Nat
      BY <1>1 DEF SetEditors, Fits
    <2> QED BY <2>1, SetFits
  <1>2. ASSUME NEW e \in EditorIds, NEW d \in BOOLEAN, setEditorDirty(e, d)
        PROVE  Fits'
    <2> DEFINE map == [idToEditorMap EXCEPT ![e].isDirty = d]
    <2>1. map \in EditorMaps
      BY <1>2, SetEditorDirtyMap DEF setEditorDirty, IInv
    <2>2. SetUntracked(map)
      BY <1>2 DEF setEditorDirty
    <2> HIDE DEF map
    <2> QED BY <2>1, <2>2, SetUntrackedFits
  <1>3. ASSUME NEW S \in SUBSET EditorIds, onSaveEditor(S)
        PROVE  Fits'
    <2> DEFINE map == [e \in DOMAIN idToEditorMap |->
                         IF e \in S /\ idToEditorMap[e].type \in SavedTypes
                           THEN [idToEditorMap[e] EXCEPT !.isDirty = FALSE]
                           ELSE idToEditorMap[e]]
    <2>1. map \in EditorMaps
      BY OnSaveEditorMap DEF IInv
    <2>2. SetUntracked(map)
      BY <1>3 DEF onSaveEditor
    <2> HIDE DEF map
    <2> QED BY <2>1, <2>2, SetUntrackedFits
  <1>4. ASSUME commitAction PROVE Fits'
    <2>1. LET c == commit(undoRedoBuffer, now)
          IN c \in Buffer /\ Consistent(c) /\ c.trackChanges = undoRedoBuffer.trackChanges
      BY <1>0, CommitType DEF Fits
    <2> QED BY <1>4, <2>1 DEF commitAction, Fits
  <1>5. ASSUME handleUndo PROVE Fits'
    <2> DEFINE u == undo(undoRedoBuffer, idToEditorMap, now)
               restored == filterGhostAndReferenceEditors(u.item)
    <2>1. u.buffer \in Buffer /\ Consistent(u.buffer) /\ u.item \in EditorMaps \cup {NoMap}
          /\ u.buffer.trackChanges = undoRedoBuffer.trackChanges
      BY <1>0, UndoType DEF Fits
    <2>2. /\ undoRedoBuffer' = u.buffer /\ now' = now
          /\ \/ /\ u.item # NoMap
                /\ idToEditorMap' = restored
                /\ closing' = closing \cup PanesToClose(idToEditorMap, restored)
             \/ u.item = NoMap /\ UNCHANGED <<idToEditorMap, closing>>
      BY <1>5 DEF handleUndo
    <2> HIDE DEF u
    <2>3. CASE u.item # NoMap
      <3>1. restored \in EditorMaps
        BY <2>1, <2>3, FilterType
      <3>2. PanesToClose(idToEditorMap, restored) \subseteq Identifiers
        BY <3>1, PanesType DEF Fits
      <3> HIDE DEF restored
      <3> QED BY <2>1, <2>2, <2>3, <3>1, <3>2 DEF Fits
    <2>4. CASE u.item = NoMap
      BY <2>1, <2>2, <2>4 DEF Fits
    <2> QED BY <2>3, <2>4
  <1>6. ASSUME handleRedo PROVE Fits'
    <2> DEFINE r == redo(undoRedoBuffer, idToEditorMap)
    <2>1. r.buffer \in Buffer /\ Consistent(r.buffer) /\ r.item \in EditorMaps \cup {NoMap}
          /\ r.buffer.trackChanges = undoRedoBuffer.trackChanges
      BY RedoType DEF Fits
    <2>2. /\ undoRedoBuffer' = r.buffer /\ UNCHANGED <<closing, now>>
          /\ \/ r.item # NoMap /\ idToEditorMap' = filterGhostAndReferenceEditors(r.item)
             \/ r.item = NoMap /\ UNCHANGED idToEditorMap
      BY <1>6 DEF handleRedo
    <2> HIDE DEF r
    <2>3. idToEditorMap' \in EditorMaps
      BY <2>1, <2>2, FilterType DEF Fits
    <2> QED BY <2>1, <2>2, <2>3 DEF Fits
  <1>7. ASSUME NEW i \in Identifiers, PaneClosed(i) PROVE Fits'
    <2>1. \A gone : Without(idToEditorMap, gone) \in EditorMaps
      BY WithoutType DEF Fits
    <2>2. closing' \subseteq Identifiers /\ now' \in Nat
      BY <1>7 DEF PaneClosed, Fits
    <2> QED BY <1>7, <2>1, <2>2, SetFits DEF PaneClosed
  <1>8. ASSUME NEW i \in Identifiers, CloseRefused(i) PROVE Fits'
    BY <1>8 DEF CloseRefused, Fits
  <1>9. ASSUME Tick PROVE Fits'
    BY <1>9 DEF Tick, Fits
  <1>10. ASSUME UNCHANGED vars PROVE Fits'
    BY <1>10 DEF vars, Fits
  <1> QED BY <1>1, <1>2, <1>3, <1>4, <1>5, <1>6, <1>7, <1>8, <1>9, <1>10 DEF Next

\* UndoRedo always satisfies the inductive invariant.
THEOREM InductiveInvariant == Spec => []IInv
  BY InitInv, NextInv, PTL DEF Spec

\* The buffer, the map and the panes always have their types.
THEOREM TypeCorrect == Spec => []TypeOK
  <1>1. IInv => TypeOK
    BY DEF IInv
  <1> QED BY <1>1, InductiveInvariant, PTL

\* redo never meets an open batch: while changes are being grouped there is
\* nothing to redo.
THEOREM OpenBatchSafe == Spec => []OpenBatchHasNoRedo
  <1>1. IInv => OpenBatchHasNoRedo
    BY DEF IInv
  <1> QED BY <1>1, InductiveInvariant, PTL

\* Undo and then redo returns to the map the undo left, from every reachable
\* state.
THEOREM UndoRedoRoundTrip == Spec => []UndoThenRedoReturns
  <1>1. IInv => UndoThenRedoReturns
    <2> SUFFICES ASSUME Fits PROVE UndoThenRedoReturns
      BY InvFits
    <2> DEFINE u == undo(undoRedoBuffer, idToEditorMap, now)
               c == commit(undoRedoBuffer, now)
               back == filterGhostAndReferenceEditors(u.item)
               r == redo(u.buffer, back)
    <2> SUFFICES ASSUME u.item # NoMap
                 PROVE  /\ r.item = idToEditorMap
                        /\ r.buffer.redoBuffer = undoRedoBuffer.redoBuffer
                        /\ Popped(r.buffer.undoBuffer) = Popped(c.undoBuffer)
      BY DEF UndoThenRedoReturns
    <2>1. now \in Int
      BY DEF Fits
    <2>2. /\ u.buffer \in Buffer /\ Consistent(u.buffer)
          /\ u.item \in EditorMaps
          /\ u.buffer.undoBuffer = Popped(c.undoBuffer)
          /\ u.buffer.redoBuffer = Append(undoRedoBuffer.redoBuffer, idToEditorMap)
      BY <2>1, UndoType DEF Fits
    <2>3. back \in EditorMaps
      BY <2>2, FilterType
    <2>4. undoRedoBuffer.redoBuffer \in Seq(EditorMaps) /\ idToEditorMap \in EditorMaps
      BY DEF Fits, Buffer
    <2>5. u.buffer.undoBuffer \in Seq(EditorMaps)
      BY <2>2 DEF Buffer
    <2> HIDE DEF u, c, back
    <2>6. /\ r.item = u.buffer.redoBuffer[Len(u.buffer.redoBuffer)]
          /\ r.buffer.redoBuffer = Popped(u.buffer.redoBuffer)
          /\ r.buffer.undoBuffer = Append(u.buffer.undoBuffer, back)
      <3>1. u.buffer.redoBuffer # << >>
        BY <2>2, <2>4, PopAppend
      <3> QED BY <2>2, <2>3, <3>1, RedoType
    <2> HIDE DEF r
    <2> QED BY <2>2, <2>3, <2>4, <2>5, <2>6, PopAppend
  <1> QED BY <1>1, InductiveInvariant, PTL

\* A close event of a pane no editor shows leaves the history as it was.
THEOREM LateCloseSafe == Spec => LateCloseKeepsHistory
  <1>1. ASSUME NEW i \in Identifiers, PaneClosed(i), Showing(idToEditorMap, i) = {}, Fits
        PROVE  UNCHANGED undoRedoBuffer
    <2>1. Without(idToEditorMap, {}) = idToEditorMap
      BY <1>1, MapElim DEF Without, Fits
    <2>2. isNoop(idToEditorMap, idToEditorMap)
      BY DEF isNoop
    <2> QED BY <1>1, <2>1, <2>2 DEF PaneClosed, Set, handleStoreChange
  <1>2. IInv /\ [Next]_vars => [LateClose]_vars
    BY <1>1, InvFits DEF LateClose
  <1> QED BY <1>2, InductiveInvariant, PTL DEF Spec, LateCloseKeepsHistory

\* The undo stack with the open batch on top.
Past(b) == IF b.dirty THEN Append(b.undoBuffer, b.currentBatch) ELSE b.undoBuffer

\* Recording a change opens an entry on top of the stack, or finds one open.
LEMMA RecordPast ==
  ASSUME NEW b \in Buffer, Consistent(b), NEW m \in EditorMaps, NEW t \in Int
  PROVE  /\ Past(Record(b, m, t)) = IF b.dirty THEN Past(b) ELSE Append(Past(b), m)
         /\ Record(b, m, t).redoBuffer = << >>
  <1> DEFINE d == Record(b, m, t)
  <1>1. d.dirty
    BY RecordType
  <1>2. d.undoBuffer = b.undoBuffer
    BY RecordType
  <1>3. d.redoBuffer = << >>
    BY RecordType
  <1>4. d.currentBatch = IF b.dirty THEN b.currentBatch ELSE m
    BY RecordType
  <1> HIDE DEF d
  <1>5. Past(d) = IF b.dirty THEN Past(b) ELSE Append(Past(b), m)
    BY <1>1, <1>2, <1>4 DEF Past
  <1> QED BY <1>3, <1>5 DEF d

\* A push adds an entry to the line, or joins the one that is open.
LEMMA PushPast ==
  ASSUME NEW b \in Buffer, Consistent(b), b.trackChanges, NEW m \in EditorMaps, NEW t \in Int
  PROVE  /\ push(b, m, t).redoBuffer = << >>
         /\ \/ Past(push(b, m, t)) = Append(Past(b), m)
            \/ b.dirty /\ Past(push(b, m, t)) = Past(b)
  <1> DEFINE c == IF BatchExpired(b, t) THEN commit(b, t) ELSE b
  <1>1. c \in Buffer /\ Consistent(c)
    BY CommitType
  <1>2. Past(c) = Past(b) /\ (c.dirty => b.dirty)
    BY CommitType DEF Past
  <1>3. push(b, m, t) = Record(c, m, t)
    BY DEF push
  <1> HIDE DEF c
  <1>4. /\ Past(Record(c, m, t)) = IF c.dirty THEN Past(c) ELSE Append(Past(c), m)
        /\ Record(c, m, t).redoBuffer = << >>
    BY <1>1, RecordPast
  <1> QED BY <1>2, <1>3, <1>4

\* Replacing the map is a change of the line of states.
LEMMA SetMoves ==
  ASSUME Fits, NEW map \in EditorMaps, Set(map)
  PROVE  TL!NewEntry(map) \/ TL!Join(map) \/ TL!Touch(map)
  <1> DEFINE b == undoRedoBuffer
             p == push(b, idToEditorMap, now)
  <1>0. now \in Int /\ b \in Buffer /\ Consistent(b) /\ idToEditorMap' = map
        /\ b.trackChanges /\ idToEditorMap \in EditorMaps
    BY DEF Fits, Set
  <1>1. CASE isNoop(idToEditorMap, map)
    BY <1>0, <1>1 DEF Set, handleStoreChange, TL!Touch
  <1>2. CASE ~ isNoop(idToEditorMap, map)
    <2>1. undoRedoBuffer' = p
      BY <1>2 DEF Set, handleStoreChange
    <2>2. /\ p.redoBuffer = << >>
          /\ \/ Past(p) = Append(Past(b), idToEditorMap)
             \/ b.dirty /\ Past(p) = Past(b)
      BY <1>0, PushPast
    <2> HIDE DEF p
    <2>3. CASE Past(p) = Append(Past(b), idToEditorMap)
      BY <1>0, <2>1, <2>2, <2>3 DEF TL!NewEntry, Past
    <2>4. CASE b.dirty /\ Past(p) = Past(b)
      <3>1. b.undoBuffer \in Seq(EditorMaps) /\ b.currentBatch \in EditorMaps
            /\ b.redoBuffer = << >>
        BY <1>0, <2>4 DEF Buffer, Consistent
      <3>2. Past(b) # << >>
        BY <2>4, <3>1, PopAppend DEF Past
      <3> QED BY <1>0, <2>1, <2>2, <2>4, <3>1, <3>2 DEF TL!Join, Past
    <2> QED BY <2>2, <2>3, <2>4
  <1> QED BY <1>1, <1>2

\* A change of isDirty flags does not move along the line.
LEMMA SetUntrackedMoves ==
  ASSUME Fits, NEW map \in EditorMaps, SetUntracked(map), isNoop(idToEditorMap, map)
  PROVE  TL!Touch(map)
  <1>1. undoRedoBuffer' = undoRedoBuffer /\ idToEditorMap' = map
    BY SetUntrackedFits DEF SetUntracked
  <1> QED BY <1>1 DEF TL!Touch

\* Every step moves along the line, or is invisible to it.
LEMMA NextMoves == IInv /\ [Next]_vars => [TL!Move]_TL!timeline
  <1> SUFFICES ASSUME IInv, Fits, [Next]_vars PROVE [TL!Move]_TL!timeline
    BY InvFits
  <1> DEFINE Stays == Past(undoRedoBuffer') = Past(undoRedoBuffer)
                        /\ undoRedoBuffer'.redoBuffer = undoRedoBuffer.redoBuffer
                        /\ idToEditorMap' = idToEditorMap
  <1>S. Stays => UNCHANGED TL!timeline
    BY DEF TL!timeline, Past
  <1>0. now \in Int /\ undoRedoBuffer \in Buffer /\ Consistent(undoRedoBuffer)
        /\ idToEditorMap \in EditorMaps
    BY DEF Fits
  <1>1. ASSUME NEW map \in EditorMaps, SetEditors(map)
        PROVE  TL!Move
    BY <1>1, SetMoves DEF SetEditors, TL!Move
  <1>2. ASSUME NEW e \in EditorIds, NEW d \in BOOLEAN, setEditorDirty(e, d)
        PROVE  TL!Move
    <2> DEFINE map == [idToEditorMap EXCEPT ![e].isDirty = d]
    <2>1. map \in EditorMaps /\ isNoop(idToEditorMap, map)
      BY <1>2, SetEditorDirtyMap DEF setEditorDirty, IInv
    <2>2. SetUntracked(map)
      BY <1>2 DEF setEditorDirty
    <2> HIDE DEF map
    <2> QED BY <2>1, <2>2, SetUntrackedMoves DEF TL!Move
  <1>3. ASSUME NEW S \in SUBSET EditorIds, onSaveEditor(S)
        PROVE  TL!Move
    <2> DEFINE map == [e \in DOMAIN idToEditorMap |->
                         IF e \in S /\ idToEditorMap[e].type \in SavedTypes
                           THEN [idToEditorMap[e] EXCEPT !.isDirty = FALSE]
                           ELSE idToEditorMap[e]]
    <2>1. map \in EditorMaps /\ isNoop(idToEditorMap, map)
      BY OnSaveEditorMap DEF IInv
    <2>2. SetUntracked(map)
      BY <1>3 DEF onSaveEditor
    <2> HIDE DEF map
    <2> QED BY <2>1, <2>2, SetUntrackedMoves DEF TL!Move
  <1>4. ASSUME commitAction PROVE Stays
    <2> DEFINE c == commit(undoRedoBuffer, now)
    <2>1. ~ c.dirty /\ c.redoBuffer = undoRedoBuffer.redoBuffer
          /\ c.undoBuffer = Past(undoRedoBuffer)
      BY <1>0, CommitType DEF Past
    <2>2. undoRedoBuffer' = c /\ idToEditorMap' = idToEditorMap
      BY <1>4 DEF commitAction
    <2> HIDE DEF c
    <2> QED BY <2>1, <2>2 DEF Past
  <1>5. ASSUME handleUndo PROVE TL!Move \/ Stays
    <2> DEFINE u == undo(undoRedoBuffer, idToEditorMap, now)
               c == commit(undoRedoBuffer, now)
    <2>1. ~ c.dirty /\ c.undoBuffer = Past(undoRedoBuffer)
          /\ c.redoBuffer = undoRedoBuffer.redoBuffer
      BY <1>0, CommitType DEF Past
    <2>2. /\ ~ u.buffer.dirty
          /\ u.item # NoMap <=> c.undoBuffer # << >>
          /\ u.item # NoMap =>
               /\ u.item = c.undoBuffer[Len(c.undoBuffer)]
               /\ u.buffer.undoBuffer = Popped(c.undoBuffer)
               /\ u.buffer.redoBuffer = Append(undoRedoBuffer.redoBuffer, idToEditorMap)
          /\ u.item = NoMap => u.buffer = c
      BY <1>0, UndoType
    <2>3. /\ undoRedoBuffer' = u.buffer
          /\ \/ u.item # NoMap /\ idToEditorMap' = filterGhostAndReferenceEditors(u.item)
             \/ u.item = NoMap /\ UNCHANGED idToEditorMap
      BY <1>5 DEF handleUndo
    <2> HIDE DEF u, c
    <2>4. CASE u.item = NoMap
      BY <2>1, <2>2, <2>3, <2>4 DEF Past
    <2>5. CASE u.item # NoMap
      <3>1. /\ Past(undoRedoBuffer) # << >>
            /\ u.item = TL!Top(Past(undoRedoBuffer))
            /\ Past(undoRedoBuffer') = TL!Rest(Past(undoRedoBuffer))
        BY <2>1, <2>2, <2>3, <2>5 DEF Past, TL!Top, TL!Rest, Popped
      <3>2. TL!Back
        BY <2>2, <2>3, <2>5, <3>1 DEF TL!Back, Past
      <3> QED BY <3>2 DEF TL!Move
    <2> QED BY <2>4, <2>5
  <1>6. ASSUME handleRedo PROVE TL!Move \/ Stays
    <2> DEFINE r == redo(undoRedoBuffer, idToEditorMap)
    <2>2. /\ r.item # NoMap <=> undoRedoBuffer.redoBuffer # << >>
          /\ r.item # NoMap =>
               /\ ~ undoRedoBuffer.dirty /\ ~ r.buffer.dirty
               /\ r.item = undoRedoBuffer.redoBuffer[Len(undoRedoBuffer.redoBuffer)]
               /\ r.buffer.redoBuffer = Popped(undoRedoBuffer.redoBuffer)
               /\ r.buffer.undoBuffer = Append(undoRedoBuffer.undoBuffer, idToEditorMap)
          /\ r.item = NoMap => r.buffer = undoRedoBuffer
      BY <1>0, RedoType
    <2>3. /\ undoRedoBuffer' = r.buffer
          /\ \/ r.item # NoMap /\ idToEditorMap' = filterGhostAndReferenceEditors(r.item)
             \/ r.item = NoMap /\ UNCHANGED idToEditorMap
      BY <1>6 DEF handleRedo
    <2> HIDE DEF r
    <2>4. CASE r.item = NoMap
      BY <2>2, <2>3, <2>4
    <2>5. CASE r.item # NoMap
      <3>1. /\ Past(undoRedoBuffer) = undoRedoBuffer.undoBuffer
            /\ Past(undoRedoBuffer') = Append(Past(undoRedoBuffer), idToEditorMap)
            /\ r.item = TL!Top(undoRedoBuffer.redoBuffer)
            /\ undoRedoBuffer'.redoBuffer = TL!Rest(undoRedoBuffer.redoBuffer)
        BY <2>2, <2>3, <2>5 DEF Past, TL!Top, TL!Rest, Popped
      <3>2. TL!Forth
        BY <2>2, <2>3, <2>5, <3>1 DEF TL!Forth, Past
      <3> QED BY <3>2 DEF TL!Move
    <2> QED BY <2>4, <2>5
  <1>7. ASSUME NEW i \in Identifiers, PaneClosed(i) PROVE TL!Move
    <2>1. \A gone : Without(idToEditorMap, gone) \in EditorMaps
      BY <1>0, WithoutType
    <2> QED BY <1>7, <2>1, SetMoves DEF PaneClosed, TL!Move
  <1>8. ASSUME NEW i \in Identifiers, CloseRefused(i) PROVE Stays
    BY <1>8 DEF CloseRefused
  <1>9. ASSUME Tick PROVE Stays
    BY <1>9 DEF Tick
  <1>10. ASSUME UNCHANGED vars PROVE Stays
    BY <1>10 DEF vars
  <1> HIDE DEF Stays
  <1> QED BY <1>S, <1>1, <1>2, <1>3, <1>4, <1>5, <1>6, <1>7, <1>8, <1>9, <1>10 DEF Next

\* The buffer and its middleware implement the line of states with a cursor.
THEOREM Refinement == Spec => ImplementsTimeline
  <1>1. Init => TL!Begin
    BY DEF Init, EmptyBuffer, TL!Begin
  <1> QED BY <1>1, NextMoves, InductiveInvariant, PTL DEF Spec, ImplementsTimeline, TL!Spec

=============================================================================
