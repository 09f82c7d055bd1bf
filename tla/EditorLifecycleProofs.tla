------------------------ MODULE EditorLifecycleProofs ------------------------
(***************************************************************************)
(* Proofs about EditorLifecycle for every number of editors, panes and     *)
(* calls in progress: what holds of all its operations (StaleSpec), and    *)
(* what holds without those that write back a copied map (Spec).           *)
(***************************************************************************)
EXTENDS EditorLifecycle, FiniteSetTheorems, TLAPS

USE LifecycleAssumption

\* Maps, from the inside and from the outside.
LEMMA MapIntro ==
  ASSUME NEW S \in SUBSET Ids, NEW f \in [S -> EditorRecord]
  PROVE  f \in Maps
  <1>1. [S -> EditorRecord] \in {[T -> EditorRecord] : T \in SUBSET Ids}
    OBVIOUS
  <1> QED BY <1>1, Zenon DEF Maps

LEMMA MapElim ==
  ASSUME NEW map \in Maps
  PROVE  DOMAIN map \subseteq Ids /\ map \in [DOMAIN map -> EditorRecord]
  <1>1. PICK S \in SUBSET Ids : map \in [S -> EditorRecord]
    BY Zenon DEF Maps
  <1> QED BY <1>1

LEMMA EmptyMapType == EmptyMap \in Maps /\ DOMAIN EmptyMap = {}
  <1>1. EmptyMap \in [{} -> EditorRecord]
    BY DEF EmptyMap
  <1> QED BY <1>1, MapIntro

LEMMA WithoutType ==
  ASSUME NEW map \in Maps, NEW S
  PROVE  /\ Without(map, S) \in Maps
         /\ DOMAIN Without(map, S) = DOMAIN map \ S
         /\ \A e \in DOMAIN map \ S : Without(map, S)[e] = map[e]
  <1>1. Without(map, S) \in [DOMAIN map \ S -> EditorRecord]
    BY MapElim DEF Without
  <1>2. DOMAIN map \ S \in SUBSET Ids
    BY MapElim
  <1>3. Without(map, S) \in Maps
    BY <1>1, <1>2, MapIntro
  <1> QED BY <1>3 DEF Without

LEMMA WithType ==
  ASSUME NEW map \in Maps, NEW e \in Ids, NEW x \in EditorRecord
  PROVE  /\ With(map, e, x) \in Maps
         /\ DOMAIN With(map, e, x) = DOMAIN map \cup {e}
         /\ With(map, e, x)[e] = x
         /\ \A d \in DOMAIN map \ {e} : With(map, e, x)[d] = map[d]
  <1>1. With(map, e, x) \in [DOMAIN map \cup {e} -> EditorRecord]
    BY MapElim DEF With
  <1>2. DOMAIN map \cup {e} \in SUBSET Ids
    BY MapElim
  <1>3. With(map, e, x) \in Maps
    BY <1>1, <1>2, MapIntro
  <1> QED BY <1>3 DEF With

\* Replacing one editor of a map.
LEMMA ExceptType ==
  ASSUME NEW map \in Maps, NEW e \in DOMAIN map, NEW x \in EditorRecord
  PROVE  /\ [map EXCEPT ![e] = x] \in Maps
         /\ DOMAIN [map EXCEPT ![e] = x] = DOMAIN map
         /\ [map EXCEPT ![e] = x][e] = x
         /\ \A d \in DOMAIN map \ {e} : [map EXCEPT ![e] = x][d] = map[d]
  <1>1. [map EXCEPT ![e] = x] \in [DOMAIN map -> EditorRecord]
    BY MapElim
  <1>2. [map EXCEPT ![e] = x] \in Maps
    BY <1>1, MapElim, MapIntro
  <1> QED BY <1>2

\* The fields of an editor can be replaced.
LEMMA RecordType ==
  ASSUME NEW x \in EditorRecord
  PROVE  /\ \A p \in Panes : [x EXCEPT !.pane = p] \in EditorRecord /\ [x EXCEPT !.pane = p].pane = p
         /\ \A b \in BOOLEAN : /\ [x EXCEPT !.shouldRespondToCloseEvents = b] \in EditorRecord
                               /\ [x EXCEPT !.shouldRespondToCloseEvents = b].pane = x.pane
         /\ [x EXCEPT !.isPinned = ~ @] \in EditorRecord /\ [x EXCEPT !.isPinned = ~ @].pane = x.pane
         /\ x.type \in CanvasTypes /\ x.pane \in Panes \cup {NoPane}
  BY DEF EditorRecord

\* A close event keeps the editors it does not remove, with their panes.
LEMMA RespondType ==
  ASSUME NEW map \in Maps, NEW p
  PROVE  /\ respondToEditorClosing(map, p) \in Maps
         /\ DOMAIN respondToEditorClosing(map, p) \subseteq DOMAIN map
         /\ \A e \in DOMAIN respondToEditorClosing(map, p) :
              respondToEditorClosing(map, p)[e].pane = map[e].pane
  <1> DEFINE gone == {e \in Showing(map, p) : map[e].shouldRespondToCloseEvents}
             new(e) == IF e \in Showing(map, p)
                         THEN [map[e] EXCEPT !.shouldRespondToCloseEvents = TRUE] ELSE map[e]
  <1>1. \A e \in DOMAIN map : new(e) \in EditorRecord /\ new(e).pane = map[e].pane
    BY MapElim, RecordType
  <1>2. respondToEditorClosing(map, p) = [e \in DOMAIN map \ gone |-> new(e)]
    BY DEF respondToEditorClosing
  <1> HIDE DEF new, gone
  <1>3. respondToEditorClosing(map, p) \in [DOMAIN map \ gone -> EditorRecord]
    BY <1>1, <1>2
  <1>4. DOMAIN map \ gone \in SUBSET Ids
    BY MapElim
  <1>5. respondToEditorClosing(map, p) \in Maps
    BY <1>3, <1>4, MapIntro
  <1> QED BY <1>1, <1>2, <1>5
-----------------------------------------------------------------------------
\* An editor that appears has a new uuid.
LEMMA AppearsNew == Next => ~ Resurrects
  <1>1. ASSUME NEW map, NEW p PROVE DOMAIN respondToEditorClosing(map, p) \subseteq DOMAIN map
    BY DEF respondToEditorClosing
  <1>2. ASSUME NEW p, ClosePane(p) PROVE DOMAIN idToEditorMap' \subseteq DOMAIN idToEditorMap
    BY <1>1, <1>2 DEF ClosePane, SetMap
  <1>3. ASSUME NEW e, NEW x, NEW s \in BOOLEAN, Appear(idToEditorMap, e, x, s) PROVE ~ Resurrects
    BY <1>3 DEF Appear, SetMap, With, Resurrects
  <1>4. ASSUME KeepMap PROVE ~ Resurrects
    BY <1>4 DEF KeepMap, Resurrects
  <1>5. Inserting => ~ Resurrects
    BY <1>3, <1>4 DEF Inserting, StartInsert, insertEditorAtCenterOfViewport,
       insertModalEditorAtCenterOfViewport, insertEditorAtPosition, StartAdjacent, insertAdjacentEditor
  <1>6. Opening => ~ Resurrects
    BY <1>4 DEF Opening, RunEffect, CreatePane, CreateFails, openEditorForCanvasEditor, SetMap, Resurrects
  <1>7. Closing => ~ Resurrects
    <2>1. ASSUME NEW p, ClosePane(p) PROVE ~ Resurrects
      BY <1>2, <2>1 DEF Resurrects
    <2>2. ASSUME NEW S, SetMap(Without(idToEditorMap, S), {}) PROVE ~ Resurrects
      BY <2>2 DEF SetMap, Without, Resurrects
    <2> QED BY <1>4, <2>1, <2>2 DEF Closing, onDidCloseEditor, closeFileEditor, Answer, StartClose,
       AskClose, closeEditor, StartDelete, StartCloseAll, StartOpenWorkspace, StartBulk, Visit,
       Visited, Refused, BulkEnd
  <1>8. Reloading => ~ Resurrects
    BY <1>4 DEF Reloading, StartReload, ReloadCloses, refreshEditRangeInTime, refreshEditRange, Reopen,
       SetMap, Resurrects
  <1>9. Selecting => ~ Resurrects
    BY <1>4 DEF Selecting, selectEditor, deselectEditor, selectAllEditors, clearSelection, Select, Pin,
       SetMap, Resurrects
  <1> QED BY <1>5, <1>6, <1>7, <1>8, <1>9 DEF Next

\* No step of the operations that read the map again brings back an editor that has
\* left the canvas.
THEOREM NeverResurrects == Spec => NoResurrection
  BY AppearsNew, PTL DEF Spec, NoResurrection
-----------------------------------------------------------------------------
\* The panes that have closed, and the listed ones.  A pane never opens again, so it
\* stays among them for good.
Safe == (opened \ panes) \cup openEditors

\* Every editor of the map has no pane or one in P.
KnownMap(map, P) == \A e \in DOMAIN map : map[e].pane \in P \cup {NoPane}

\* The calls that write an editor of the map they copied.
WriteBackOps == {"openDiff", "refreshEditRange"}

\* The local variables of a call: its pane was opened, the panes of the map it copied are
\* safe, it visits or writes editors of that map.
GoodTask(x, O, P) ==
  /\ x \in Task
  /\ x.pane \in O \cup {NoPane}
  /\ KnownMap(x.map, P)
  /\ x.op \in BulkOps => x.todo \subseteq DOMAIN x.map
  /\ x.op \in WriteBackOps => x.id \in DOMAIN x.map

\* closeEditor is told "yes" only once the pane has closed.
Told(x) == x.op = "close" /\ x.answer = "yes"

TasksOK ==
  /\ tasks \in [Slots -> Task]
  /\ \A t \in Slots : GoodTask(tasks[t], opened, Safe)
  /\ \A t \in Slots : Told(tasks[t]) => tasks[t].pane \notin panes

\* The inductive invariant.  That the editors on the canvas have safe panes is what
\* LivePanesListed says; a call may write back a map copied long ago, so the copies
\* must be safe too.
IInv ==
  /\ TypeOK
  /\ panes \subseteq opened
  /\ openEditors \subseteq opened
  /\ KnownMap(idToEditorMap, Safe)
  /\ TasksOK

\* No pane opens again, and only closed panes leave openEditors.
Grows ==
  /\ opened \subseteq opened'
  /\ panes' \cap opened \subseteq panes
  /\ openEditors \cap panes' \subseteq openEditors'

LEMMA SafeGrows == IInv /\ Grows => Safe \subseteq Safe'
  BY DEF IInv, Grows, Safe

LEMMA KnownGrows ==
  ASSUME NEW map, NEW P, NEW Q, KnownMap(map, P), P \subseteq Q
  PROVE  KnownMap(map, Q)
  BY DEF KnownMap

LEMMA IdleGood == ASSUME NEW O, NEW P PROVE GoodTask(Idle, O, P) /\ ~ Told(Idle)
  <1>1. Idle \in Task
    BY EmptyMapType DEF Idle, Task, TaskOps, CanvasTypes, Answers
  <1> QED BY <1>1, EmptyMapType DEF Idle, GoodTask, KnownMap, Told, BulkOps, WriteBackOps

\* The calls that do not move stay good.
LEMMA TaskStays ==
  ASSUME IInv, Grows, NEW s \in Slots, panes' \subseteq Panes
  PROVE  /\ GoodTask(tasks[s], opened', Safe')
         /\ Told(tasks[s]) => tasks[s].pane \notin panes'
  <1>1. GoodTask(tasks[s], opened, Safe) /\ (Told(tasks[s]) => tasks[s].pane \notin panes)
    BY DEF IInv, TasksOK
  <1>2. KnownMap(tasks[s].map, Safe')
    BY <1>1, SafeGrows, KnownGrows DEF GoodTask
  <1>3. GoodTask(tasks[s], opened', Safe')
    BY <1>1, <1>2 DEF GoodTask, Grows
  <1>4. ASSUME Told(tasks[s]) PROVE tasks[s].pane \notin panes'
    <2>1. tasks[s].pane \in opened \cup {NoPane} /\ tasks[s].pane \notin panes
      BY <1>1, <1>4 DEF GoodTask
    <2> QED BY <2>1 DEF Grows
  <1> QED BY <1>3, <1>4

\* One call moves on.
LEMMA TaskStep ==
  ASSUME IInv, Grows, NEW t \in Slots, NEW x, tasks' = [tasks EXCEPT ![t] = x],
         GoodTask(x, opened', Safe'), Told(x) => x.pane \notin panes', panes' \subseteq Panes
  PROVE  TasksOK'
  <1>1. tasks \in [Slots -> Task]
    BY DEF IInv, TasksOK
  <1>2. tasks' \in [Slots -> Task]
    BY <1>1 DEF GoodTask
  <1>3. ASSUME NEW s \in Slots
        PROVE  GoodTask(tasks'[s], opened', Safe') /\ (Told(tasks'[s]) => tasks'[s].pane \notin panes')
    <2>1. CASE s = t
      BY <1>1, <2>1
    <2>2. CASE s # t
      BY <1>1, <2>2, TaskStays
    <2> QED BY <2>1, <2>2
  <1> QED BY <1>2, <1>3 DEF TasksOK

LEMMA TasksSame ==
  ASSUME IInv, Grows, UNCHANGED tasks, panes' \subseteq Panes
  PROVE  TasksOK'
  <1>1. tasks \in [Slots -> Task]
    BY DEF IInv, TasksOK
  <1> QED BY <1>1, TaskStays DEF TasksOK

\* Steps that open no pane and give no editor a new one.
LEMMA Shrinks ==
  ASSUME IInv, TasksOK', idToEditorMap' \in Maps, DOMAIN idToEditorMap' \subseteq DOMAIN idToEditorMap,
         \A e \in DOMAIN idToEditorMap' : idToEditorMap'[e].pane = idToEditorMap[e].pane,
         effects' \subseteq DOMAIN idToEditorMap', panes' \subseteq panes,
         openEditors' \subseteq openEditors, openEditors \cap panes' \subseteq openEditors',
         closingFiles' \subseteq Panes, selection' \subseteq Ids, UNCHANGED <<minted, opened>>
  PROVE  IInv'
  <1>1. TypeOK'
    BY DEF IInv, TypeOK, TasksOK
  <1>2. panes' \subseteq opened' /\ openEditors' \subseteq opened'
    BY DEF IInv
  <1>3. Safe \subseteq Safe'
    BY SafeGrows DEF Grows
  <1>4. KnownMap(idToEditorMap', Safe')
    BY <1>3 DEF IInv, KnownMap
  <1> QED BY <1>1, <1>2, <1>4 DEF IInv

\* What KeepMap and ClosePane give Shrinks.
LEMMA KeepShrinks ==
  ASSUME IInv, KeepMap
  PROVE  /\ idToEditorMap' \in Maps /\ DOMAIN idToEditorMap' \subseteq DOMAIN idToEditorMap
         /\ \A e \in DOMAIN idToEditorMap' : idToEditorMap'[e].pane = idToEditorMap[e].pane
         /\ effects' \subseteq DOMAIN idToEditorMap'
  BY DEF IInv, TypeOK, KeepMap

LEMMA SetShrinks ==
  ASSUME IInv, NEW map \in Maps, NEW S, SetMap(map, S), DOMAIN map \subseteq DOMAIN idToEditorMap,
         \A e \in DOMAIN map : map[e].pane = idToEditorMap[e].pane
  PROVE  /\ idToEditorMap' \in Maps /\ DOMAIN idToEditorMap' \subseteq DOMAIN idToEditorMap
         /\ \A e \in DOMAIN idToEditorMap' : idToEditorMap'[e].pane = idToEditorMap[e].pane
         /\ effects' \subseteq DOMAIN idToEditorMap'
  BY DEF SetMap

LEMMA WithoutShrinks ==
  ASSUME IInv, NEW R, SetMap(Without(idToEditorMap, R), {})
  PROVE  /\ idToEditorMap' \in Maps /\ DOMAIN idToEditorMap' \subseteq DOMAIN idToEditorMap
         /\ \A e \in DOMAIN idToEditorMap' : idToEditorMap'[e].pane = idToEditorMap[e].pane
         /\ effects' \subseteq DOMAIN idToEditorMap'
  <1>1. idToEditorMap \in Maps
    BY DEF IInv, TypeOK
  <1> DEFINE m == Without(idToEditorMap, R)
  <1>2. m \in Maps /\ DOMAIN m \subseteq DOMAIN idToEditorMap
        /\ \A e \in DOMAIN m : m[e].pane = idToEditorMap[e].pane
    <2>1. m \in Maps /\ DOMAIN m = DOMAIN idToEditorMap \ R
      BY <1>1, WithoutType
    <2>2. \A e \in DOMAIN m : m[e] = idToEditorMap[e]
      BY DEF Without
    <2> QED BY <2>1, <2>2
  <1> HIDE DEF m
  <1>3. SetMap(m, {})
    BY DEF m
  <1> QED BY <1>2, <1>3, SetShrinks

LEMMA CloseShrinks ==
  ASSUME IInv, NEW p, ClosePane(p)
  PROVE  /\ idToEditorMap' \in Maps /\ DOMAIN idToEditorMap' \subseteq DOMAIN idToEditorMap
         /\ \A e \in DOMAIN idToEditorMap' : idToEditorMap'[e].pane = idToEditorMap[e].pane
         /\ effects' \subseteq DOMAIN idToEditorMap'
         /\ panes' = panes \ {p}
  <1>1. idToEditorMap \in Maps
    BY DEF IInv, TypeOK
  <1> DEFINE m == IF p \in panes THEN respondToEditorClosing(idToEditorMap, p) ELSE idToEditorMap
  <1>2. m \in Maps /\ DOMAIN m \subseteq DOMAIN idToEditorMap
        /\ \A e \in DOMAIN m : m[e].pane = idToEditorMap[e].pane
    BY <1>1, RespondType
  <1>3. SetMap(m, {}) /\ panes' = panes \ {p}
    BY DEF ClosePane
  <1> HIDE DEF m
  <1> QED BY <1>2, <1>3, SetShrinks
-----------------------------------------------------------------------------
\* The typed parts of a state.
LEMMA Typed ==
  IInv => panes \subseteq Panes /\ idToEditorMap \in Maps /\ selection \subseteq Ids
          /\ openEditors \subseteq Panes /\ closingFiles \subseteq Panes
  BY DEF IInv, TypeOK

\* A call moves on, or returns, and no pane opens or closes.
LEMMA CallMoves ==
  ASSUME IInv, NEW t \in Slots, NEW x, tasks' = [tasks EXCEPT ![t] = x], GoodTask(x, opened, Safe),
         Told(x) => x.pane \notin panes, openEditors \cap panes \subseteq openEditors',
         UNCHANGED <<panes, opened>>
  PROVE  TasksOK'
  <1>1. Grows /\ Safe \subseteq Safe'
    BY SafeGrows DEF Grows
  <1>2. GoodTask(x, opened', Safe')
    BY <1>1, KnownGrows DEF GoodTask
  <1> QED BY <1>1, <1>2, Typed, TaskStep

LEMMA CallReturns ==
  ASSUME IInv, NEW t \in Slots, Return(t), openEditors \cap panes \subseteq openEditors',
         UNCHANGED <<panes, opened>>
  PROVE  TasksOK'
  BY CallMoves, IdleGood DEF Return

\* Only calls change.
LEMMA MapKept ==
  ASSUME IInv, TasksOK', KeepMap, UNCHANGED <<selection, openEditors, panes, closingFiles, minted, opened>>
  PROVE  IInv'
  BY Typed, KeepShrinks, Shrinks

\* What is known of the local variables of a call.
LEMMA TaskKnown ==
  ASSUME IInv, NEW t \in Slots
  PROVE  /\ GoodTask(tasks[t], opened, Safe) /\ tasks[t] \in Task
         /\ Told(tasks[t]) => tasks[t].pane \notin panes
  BY DEF IInv, TasksOK

\* A map whose panes are safe is written.
LEMMA MapWritten ==
  ASSUME IInv, TasksOK', Grows, NEW map \in Maps, NEW S, SetMap(map, S), KnownMap(map, Safe'),
         panes' \subseteq opened', openEditors' \subseteq opened', opened' \subseteq Panes,
         closingFiles' \subseteq Panes, selection' \subseteq Ids, minted' \subseteq Ids
  PROVE  IInv'
  <1>1. idToEditorMap' = map /\ effects' \subseteq DOMAIN map
    BY DEF SetMap
  <1>2. TypeOK'
    BY <1>1 DEF TypeOK, TasksOK
  <1> QED BY <1>1, <1>2 DEF IInv

\* A new editor has no pane yet.
LEMMA AppearStep ==
  ASSUME IInv, TasksOK', NEW map \in Maps, KnownMap(map, Safe), NEW e, NEW type \in CanvasTypes,
         NEW ranged \in BOOLEAN, NEW s \in BOOLEAN, Appear(map, e, generateEditor(type, ranged), s)
  PROVE  IInv'
  <1> DEFINE x == generateEditor(type, ranged)
             m == With(map, e, x)
  <1>1. x \in EditorRecord /\ x.pane = NoPane
    BY DEF generateEditor, EditorRecord
  <1>2. e \in Ids \ minted /\ minted' = minted \cup {e} /\ SetMap(m, {})
        /\ selection' = (IF s THEN {e} ELSE selection)
        /\ UNCHANGED <<openEditors, panes, closingFiles, opened>>
    BY DEF Appear
  <1> HIDE DEF x
  <1>3. m \in Maps /\ DOMAIN m = DOMAIN map \cup {e} /\ m[e] = x
    BY <1>1, <1>2, WithType
  <1>4. \A d \in DOMAIN map \ {e} : m[d] = map[d]
    BY DEF With
  <1> HIDE DEF m
  <1>5. Grows /\ Safe' = Safe
    BY <1>2 DEF Grows, Safe
  <1>6. KnownMap(m, Safe')
    BY <1>1, <1>3, <1>4, <1>5 DEF KnownMap
  <1>7. panes' \subseteq opened' /\ openEditors' \subseteq opened' /\ opened' \subseteq Panes
        /\ closingFiles' \subseteq Panes /\ selection' \subseteq Ids /\ minted' \subseteq Ids
    BY <1>2 DEF IInv, TypeOK
  <1> QED BY <1>2, <1>3, <1>5, <1>6, <1>7, MapWritten

LEMMA InsertingStep == IInv /\ Inserting => IInv'
  <1> SUFFICES ASSUME IInv, Inserting PROVE IInv'
    OBVIOUS
  <1>1. ASSUME NEW t \in Slots, NEW type \in Types, StartInsert(t, type) PROVE IInv'
    <2> DEFINE x == [Idle EXCEPT !.op = "insert", !.type = type]
    <2>1. GoodTask(x, opened, Safe) /\ ~ Told(x)
      BY EmptyMapType DEF Idle, GoodTask, KnownMap, Task, TaskOps, Answers, Told, BulkOps, WriteBackOps
    <2> HIDE DEF x
    <2>2. tasks' = [tasks EXCEPT ![t] = x] /\ KeepMap
          /\ UNCHANGED <<selection, openEditors, panes, closingFiles, minted, opened>>
      BY <1>1 DEF StartInsert, Start, x
    <2> QED BY <2>1, <2>2, CallMoves, MapKept
  <1>2. ASSUME NEW t \in Slots, NEW e \in Ids, insertEditorAtCenterOfViewport(t, e) PROVE IInv'
    <2>1. tasks[t].type \in CanvasTypes
      BY DEF IInv, TasksOK, Task
    <2>2. Appear(idToEditorMap, e, generateEditor(tasks[t].type, FALSE), TRUE) /\ Return(t)
      BY <1>2 DEF insertEditorAtCenterOfViewport
    <2>3. TasksOK'
      BY <2>2, CallReturns DEF Appear
    <2> QED BY <2>1, <2>2, <2>3, Typed, AppearStep DEF IInv
  <1>3. ASSUME NEW e \in Ids, NEW type \in CanvasTypes, NEW ranged \in BOOLEAN,
               NEW select \in BOOLEAN, UNCHANGED tasks,
               Appear(idToEditorMap, e, generateEditor(type, ranged), select)
        PROVE  IInv'
    <2>1. TasksOK'
      BY <1>3, Typed, TasksSame DEF Appear, Grows
    <2> QED BY <1>3, <2>1, Typed, AppearStep DEF IInv
  <1>4. ASSUME NEW e \in Ids, insertModalEditorAtCenterOfViewport(e) PROVE IInv'
    BY <1>3, <1>4 DEF insertModalEditorAtCenterOfViewport, CanvasTypes
  <1>5. ASSUME NEW e \in Ids, NEW type \in Types, NEW ranged \in BOOLEAN,
               NEW select \in BOOLEAN, insertEditorAtPosition(e, type, ranged, select)
        PROVE  IInv'
    BY <1>3, <1>5 DEF insertEditorAtPosition
  <1>6. ASSUME NEW t \in Slots, NEW beside \in Ids, StartAdjacent(t, beside) PROVE IInv'
    <2> DEFINE x == [Idle EXCEPT !.op = "insertAdjacent", !.id = beside]
    <2>1. GoodTask(x, opened, Safe) /\ ~ Told(x)
      BY EmptyMapType DEF Idle, GoodTask, KnownMap, Task, TaskOps, Answers, CanvasTypes, Told, BulkOps, WriteBackOps
    <2> HIDE DEF x
    <2>2. tasks' = [tasks EXCEPT ![t] = x] /\ KeepMap
          /\ UNCHANGED <<selection, openEditors, panes, closingFiles, minted, opened>>
      BY <1>6 DEF StartAdjacent, Start, x
    <2> QED BY <2>1, <2>2, CallMoves, MapKept
  <1>7. ASSUME NEW t \in Slots, NEW e \in Ids, NEW ranged \in BOOLEAN, NEW select \in BOOLEAN,
               insertAdjacentEditor(t, e, ranged, select)
         PROVE  IInv'
    <2>1. TasksOK'
      BY <1>7, CallReturns DEF insertAdjacentEditor, Appear
    <2>2. CASE Appear(idToEditorMap, e, generateEditor("CODE_EDITOR", ranged), select)
      BY <2>1, <2>2, Typed, AppearStep DEF CanvasTypes, IInv
    <2>3. CASE KeepMap /\ UNCHANGED <<selection, openEditors, panes, closingFiles, minted, opened>>
      BY <2>1, <2>3, MapKept
    <2> QED BY <1>7, <2>2, <2>3 DEF insertAdjacentEditor
  <1> QED BY <1>1, <1>2, <1>4, <1>5, <1>6, <1>7 DEF Inserting

LEMMA OpeningStep == IInv /\ Opening => IInv'
  <1> SUFFICES ASSUME IInv, Opening PROVE IInv'
    OBVIOUS
  <1>1. ASSUME NEW t \in Slots, NEW e \in Ids, RunEffect(t, e) PROVE IInv'
    <2> DEFINE diff == idToEditorMap[e].type = "DIFF_EDITOR"
               m == IF diff THEN idToEditorMap ELSE EmptyMap
               op == IF diff THEN "openDiff" ELSE "open"
               x == [Idle EXCEPT !.op = op, !.id = e, !.map = m]
    <2>1. m \in Maps /\ KnownMap(m, Safe) /\ op \in {"openDiff", "open"}
          /\ (op = "openDiff" => e \in DOMAIN m)
      BY <1>1, Typed, EmptyMapType DEF IInv, KnownMap, TypeOK, RunEffect
    <2>2. tasks' = [tasks EXCEPT ![t] = x] /\ effects' = effects \ {e}
          /\ UNCHANGED <<idToEditorMap, selection, openEditors, panes, closingFiles, minted, opened>>
      BY <1>1 DEF RunEffect, Start
    <2> HIDE DEF m, op
    <2>3. GoodTask(x, opened, Safe) /\ ~ Told(x)
      BY <2>1 DEF Idle, GoodTask, Task, TaskOps, Answers, CanvasTypes, Told, BulkOps, WriteBackOps
    <2> HIDE DEF x
    <2>4. TasksOK'
      BY <2>2, <2>3, CallMoves
    <2>5. effects' \subseteq DOMAIN idToEditorMap'
      BY <2>2 DEF IInv, TypeOK
    <2> QED BY <2>2, <2>4, <2>5, Typed, Shrinks
  <1>2. ASSUME NEW t \in Slots, NEW p \in Panes, CreatePane(t, p) PROVE IInv'
    <2> DEFINE x == [tasks[t] EXCEPT !.pane = p]
    <2>1. tasks' = [tasks EXCEPT ![t] = x] /\ p \notin opened /\ panes' = panes \cup {p}
          /\ opened' = opened \cup {p} /\ KeepMap /\ tasks[t].op \in {"open", "openDiff"}
          /\ UNCHANGED <<selection, openEditors, closingFiles, minted>>
      BY <1>2 DEF CreatePane, Continue
    <2>2. Grows /\ Safe \subseteq Safe'
      BY <2>1, SafeGrows DEF Grows
    <2>3. KnownMap(tasks[t].map, Safe') /\ KnownMap(idToEditorMap, Safe')
      BY <2>2, TaskKnown, KnownGrows DEF GoodTask, IInv
    <2>4. GoodTask(x, opened', Safe') /\ ~ Told(x)
      BY <2>1, <2>3, TaskKnown DEF GoodTask, Task, Told
    <2> HIDE DEF x
    <2>5. TasksOK'
      BY <2>1, <2>2, <2>4, Typed, TaskStep
    <2>6. TypeOK'
      BY <2>1, <2>5 DEF IInv, TypeOK, TasksOK, KeepMap
    <2>7. panes' \subseteq opened' /\ openEditors' \subseteq opened' /\ KnownMap(idToEditorMap', Safe')
      BY <2>1, <2>3 DEF IInv, KeepMap
    <2> QED BY <2>5, <2>6, <2>7 DEF IInv
  <1>3. ASSUME NEW t \in Slots, CreateFails(t) PROVE IInv'
    BY <1>3, CallReturns, MapKept DEF CreateFails
  <1>4. ASSUME NEW t \in Slots, openEditorForCanvasEditor(t) PROVE IInv'
    <2> DEFINE e == tasks[t].id
               p == tasks[t].pane
    <2>1. TasksOK'
      BY <1>4, CallReturns DEF openEditorForCanvasEditor
    <2>2. CASE e \notin DOMAIN idToEditorMap
      BY <1>4, <2>1, <2>2, MapKept DEF openEditorForCanvasEditor
    <2>3. CASE e \in DOMAIN idToEditorMap
      <3> DEFINE m == [idToEditorMap EXCEPT ![e].pane = p]
      <3>1. p \in opened /\ p \in Panes
        BY <1>4, TaskKnown DEF openEditorForCanvasEditor, GoodTask, Task
      <3>2. closingFiles' = closingFiles \cup ({idToEditorMap[e].pane} \cap panes)
            /\ openEditors' = openEditors \cup {p} /\ SetMap(m, {})
            /\ UNCHANGED <<selection, panes, minted, opened>>
        BY <1>4, <2>3 DEF openEditorForCanvasEditor
      <3>3. m \in Maps /\ DOMAIN m = DOMAIN idToEditorMap /\ m[e].pane = p
            /\ \A d \in DOMAIN idToEditorMap \ {e} : m[d] = idToEditorMap[d]
        <4> DEFINE r == [idToEditorMap[e] EXCEPT !.pane = p]
        <4>1. r \in EditorRecord /\ r.pane = p
          <5>1. idToEditorMap[e] \in EditorRecord
            BY <2>3, Typed, MapElim
          <5> HIDE DEF e, p
          <5> QED BY <3>1, <5>1 DEF EditorRecord
        <4>2. m = [idToEditorMap EXCEPT ![e] = r]
          OBVIOUS
        <4> HIDE DEF r, m
        <4> QED BY <2>3, <4>1, <4>2, Typed, ExceptType
      <3> HIDE DEF m, e, p
      <3>4. Grows /\ Safe \subseteq Safe' /\ p \in Safe'
        BY <3>2, SafeGrows DEF Grows, Safe
      <3>5. KnownMap(m, Safe')
        BY <3>3, <3>4 DEF IInv, KnownMap
      <3>6. panes' \subseteq opened' /\ openEditors' \subseteq opened' /\ opened' \subseteq Panes
            /\ closingFiles' \subseteq Panes /\ selection' \subseteq Ids /\ minted' \subseteq Ids
        BY <3>1, <3>2 DEF IInv, TypeOK
      <3> QED BY <2>1, <3>2, <3>3, <3>4, <3>5, <3>6, MapWritten
    <2> QED BY <2>2, <2>3
  <1> QED BY <1>1, <1>2, <1>3, <1>4 DEF Opening

\* A bulk close starts with a copy of the map.
LEMMA BulkStart ==
  ASSUME IInv, NEW t \in Slots, NEW op \in BulkOps, NEW S \in SUBSET DOMAIN idToEditorMap,
         NEW started \in SUBSET Ids, StartBulk(t, op, S, started)
  PROVE  IInv'
  <1> DEFINE x == [Idle EXCEPT !.op = op, !.map = idToEditorMap, !.todo = S, !.started = started]
  <1>1. tasks' = [tasks EXCEPT ![t] = x] /\ KeepMap
        /\ UNCHANGED <<selection, openEditors, panes, closingFiles, minted, opened>>
    BY DEF StartBulk, Start
  <1>2. idToEditorMap \in Maps /\ KnownMap(idToEditorMap, Safe) /\ DOMAIN idToEditorMap \subseteq Ids
    BY Typed, MapElim DEF IInv
  <1>3. GoodTask(x, opened, Safe) /\ ~ Told(x)
    BY <1>2 DEF Idle, GoodTask, Task, TaskOps, Answers, CanvasTypes, Told, BulkOps, WriteBackOps
  <1> HIDE DEF x
  <1> QED BY <1>1, <1>3, CallMoves, MapKept

\* Steps of a call that only change the map by Without.
LEMMA RemovesStep ==
  ASSUME IInv, TasksOK', NEW R, SetMap(Without(idToEditorMap, R), {}), selection' \subseteq selection,
         openEditors' \subseteq openEditors, openEditors \cap panes \subseteq openEditors',
         UNCHANGED <<panes, closingFiles, minted, opened>>
  PROVE  IInv'
  BY Typed, WithoutShrinks, Shrinks

LEMMA ClosingStep == IInv /\ Closing => IInv'
  <1> SUFFICES ASSUME IInv, Closing PROVE IInv'
    OBVIOUS
  <1>1. ASSUME NEW p \in Panes, onDidCloseEditor(p) PROVE IInv'
    <2>1. ClosePane(p) /\ UNCHANGED <<selection, openEditors, closingFiles, tasks, minted, opened>>
      BY <1>1 DEF onDidCloseEditor
    <2>2. TasksOK'
      BY <2>1, Typed, CloseShrinks, TasksSame DEF Grows
    <2> QED BY <2>1, <2>2, Typed, CloseShrinks, Shrinks
  <1>2. ASSUME NEW p \in Panes, closeFileEditor(p) PROVE IInv'
    <2>1. closingFiles' \subseteq closingFiles /\ UNCHANGED <<selection, tasks, minted, opened>>
      BY <1>2 DEF closeFileEditor
    <2>2. CASE ClosePane(p) /\ openEditors' = openEditors \ {p}
      <3>1. TasksOK'
        BY <2>1, <2>2, Typed, CloseShrinks, TasksSame DEF Grows
      <3> QED BY <2>1, <2>2, <3>1, Typed, CloseShrinks, Shrinks
    <2>3. CASE KeepMap /\ UNCHANGED <<panes, openEditors>>
      <3>1. TasksOK'
        BY <2>1, <2>3, Typed, TasksSame DEF Grows
      <3> QED BY <2>1, <2>3, <3>1, Typed, KeepShrinks, Shrinks
    <2> QED BY <1>2, <2>2, <2>3 DEF closeFileEditor
  <1>3. ASSUME NEW t \in Slots, Answer(t) PROVE IInv'
    <2> DEFINE x(a) == [tasks[t] EXCEPT !.answer = a]
    <2>1. \A a \in Answers : GoodTask(x(a), opened, Safe) /\ x(a).pane = tasks[t].pane /\ x(a).answer = a
      BY TaskKnown DEF GoodTask, Task
    <2>2. UNCHANGED <<selection, openEditors, closingFiles, minted, opened>>
      BY <1>3 DEF Answer
    <2>3. CASE ClosePane(tasks[t].pane) /\ Continue(t, x("yes"))
      <3>1. TasksOK'
        <4>1. GoodTask(x("yes"), opened', Safe') /\ x("yes").pane = tasks[t].pane
          <5>1. GoodTask(x("yes"), opened, Safe) /\ x("yes").pane = tasks[t].pane
            BY <2>1 DEF Answers
          <5>2. Grows
            BY <2>2, <2>3, CloseShrinks DEF Grows
          <5> HIDE DEF x
          <5> QED BY <2>2, <5>1, <5>2, SafeGrows, KnownGrows DEF GoodTask
        <4>2. tasks' = [tasks EXCEPT ![t] = x("yes")] /\ panes' = panes \ {tasks[t].pane}
          BY <2>3, CloseShrinks DEF Continue
        <4> HIDE DEF x
        <4> QED BY <2>2, <4>1, <4>2, Typed, TaskStep DEF Grows
      <3> QED BY <2>2, <2>3, <3>1, Typed, CloseShrinks, Shrinks
    <2>4. CASE KeepMap /\ Continue(t, x("no")) /\ UNCHANGED panes
      <3>1. TasksOK'
        <4>1. GoodTask(x("no"), opened, Safe) /\ ~ Told(x("no"))
          BY <2>1 DEF Answers, Told
        <4>2. tasks' = [tasks EXCEPT ![t] = x("no")]
          BY <2>4 DEF Continue
        <4> HIDE DEF x
        <4> QED BY <2>2, <2>4, <4>1, <4>2, CallMoves
      <3> QED BY <2>2, <2>4, <3>1, MapKept
    <2> QED BY <1>3, <2>3, <2>4 DEF Answer
  <1>4. ASSUME NEW t \in Slots, NEW e \in Ids, StartClose(t, e) PROVE IInv'
    <2> DEFINE ask == e \in DOMAIN idToEditorMap /\ HasPane(idToEditorMap[e])
               p == IF ask THEN idToEditorMap[e].pane ELSE NoPane
               a == IF ask THEN "asked" ELSE "yes"
               x == [Idle EXCEPT !.op = "close", !.id = e, !.pane = p, !.answer = a]
    <2>1. tasks' = [tasks EXCEPT ![t] = x] /\ KeepMap
          /\ UNCHANGED <<selection, openEditors, panes, closingFiles, minted, opened>>
      BY <1>4 DEF StartClose, Start
    <2>2. p \in opened \cup {NoPane} /\ p \in Panes \cup {NoPane} /\ a \in {"asked", "yes"}
          /\ (a = "yes" => p = NoPane)
      BY Typed, MapElim DEF IInv, KnownMap, Safe, EditorRecord
    <2> HIDE DEF p, a
    <2>3. GoodTask(x, opened, Safe) /\ x.pane = p /\ x.answer = a
      BY <2>2, EmptyMapType DEF Idle, GoodTask, KnownMap, Task, TaskOps, Answers, CanvasTypes, BulkOps, WriteBackOps
    <2> HIDE DEF x
    <2>4. Told(x) => x.pane \notin panes
      BY <2>2, <2>3, Typed DEF Told
    <2> QED BY <2>1, <2>3, <2>4, CallMoves, MapKept
  <1>5. ASSUME NEW t \in Slots, AskClose(t) PROVE IInv'
    <2> DEFINE a == Asked(tasks[t].pane)
               x == [tasks[t] EXCEPT !.answer = a]
    <2>1. tasks' = [tasks EXCEPT ![t] = x] /\ KeepMap
          /\ UNCHANGED <<selection, openEditors, panes, closingFiles, minted, opened>>
      BY <1>5 DEF AskClose, Continue
    <2>2. a \in {"pending", "no"}
      BY DEF Asked
    <2> HIDE DEF a
    <2>3. GoodTask(x, opened, Safe) /\ ~ Told(x)
      BY <2>2, TaskKnown DEF GoodTask, Task, Answers, Told
    <2> HIDE DEF x
    <2> QED BY <2>1, <2>3, CallMoves, MapKept
  <1>6. ASSUME NEW t \in Slots, closeEditor(t) PROVE IInv'
    <2>1. Return(t) /\ UNCHANGED <<panes, closingFiles, minted, opened>>
      BY <1>6 DEF closeEditor
    <2>2. CASE tasks[t].answer = "yes"
      <3>1. tasks[t].pane \notin panes
        BY <1>6, <2>2, TaskKnown DEF closeEditor, Told
      <3>2. openEditors' = openEditors \ {tasks[t].pane} /\ selection' = selection \ {tasks[t].id}
            /\ SetMap(Without(idToEditorMap, {tasks[t].id}), {})
        BY <1>6, <2>2 DEF closeEditor
      <3>3. TasksOK'
        BY <2>1, <3>1, <3>2, CallReturns
      <3> QED BY <2>1, <3>1, <3>2, <3>3, RemovesStep
    <2>3. CASE tasks[t].answer = "no"
      <3>1. KeepMap /\ UNCHANGED <<selection, openEditors>>
        BY <1>6, <2>3 DEF closeEditor
      <3>2. TasksOK'
        BY <2>1, <3>1, CallReturns
      <3> QED BY <2>1, <3>1, <3>2, MapKept
    <2> QED BY <1>6, <2>2, <2>3 DEF closeEditor
  <1>7. ASSUME NEW t \in Slots, StartDelete(t) PROVE IInv'
    BY <1>7, Typed, BulkStart DEF StartDelete, BulkOps
  <1>8. ASSUME NEW t \in Slots, StartCloseAll(t) PROVE IInv'
    BY <1>8, Typed, MapElim, BulkStart DEF StartCloseAll, BulkOps
  <1>9. ASSUME NEW t \in Slots, StartOpenWorkspace(t) PROVE IInv'
    BY <1>9, Typed, MapElim, BulkStart DEF StartOpenWorkspace, BulkOps
  <1>10. ASSUME NEW t \in Slots, NEW e \in Ids, Visit(t, e) PROVE IInv'
    <2>1. tasks[t].op \in BulkOps /\ e \in tasks[t].todo
          /\ UNCHANGED <<selection, openEditors, panes, closingFiles, minted, opened>>
      BY <1>10 DEF Visit
    <2>2. CASE HasPane(tasks[t].map[e])
      <3> DEFINE p == tasks[t].map[e].pane
                 a == Asked(p)
                 x == [tasks[t] EXCEPT !.id = e, !.pane = p, !.todo = @ \ {e}, !.answer = a]
      <3>1. tasks' = [tasks EXCEPT ![t] = x] /\ KeepMap
        BY <1>10, <2>2 DEF Visit, Continue
      <3>2. p \in opened \cup {NoPane}
        BY <2>1, TaskKnown DEF GoodTask, KnownMap, IInv, Safe
      <3>3. p \in Panes \cup {NoPane}
        BY <3>2 DEF IInv, TypeOK
      <3>4. a \in Answers
        BY DEF Asked, Answers
      <3> HIDE DEF p, a
      <3>5. GoodTask(x, opened, Safe) /\ ~ Told(x)
        BY <2>1, <3>2, <3>3, <3>4, TaskKnown DEF GoodTask, Task, Told, BulkOps
      <3> HIDE DEF x
      <3> QED BY <2>1, <3>1, <3>5, CallMoves, MapKept
    <2>3. CASE ~ HasPane(tasks[t].map[e])
      <3> DEFINE x == [tasks[t] EXCEPT !.todo = @ \ {e}]
      <3>1. tasks' = [tasks EXCEPT ![t] = x] /\ SetMap(Without(idToEditorMap, {e}), {})
        BY <1>10, <2>3 DEF Visit, Continue
      <3>2. GoodTask(x, opened, Safe) /\ ~ Told(x)
        BY <2>1, TaskKnown DEF GoodTask, Task, Told, BulkOps
      <3> HIDE DEF x
      <3>3. TasksOK'
        BY <2>1, <3>1, <3>2, CallMoves
      <3> QED BY <2>1, <3>1, <3>3, RemovesStep
    <2> QED BY <2>2, <2>3
  <1>11. ASSUME NEW t \in Slots, Visited(t) PROVE IInv'
    <2> DEFINE n == tasks[t].deleted + 1
               x == [tasks[t] EXCEPT !.id = NoId, !.pane = NoPane, !.answer = "none", !.deleted = n]
    <2>1. tasks' = [tasks EXCEPT ![t] = x] /\ SetMap(Without(idToEditorMap, {tasks[t].id}), {})
          /\ tasks[t].op \in BulkOps /\ UNCHANGED <<selection, openEditors, panes, closingFiles, minted, opened>>
      BY <1>11 DEF Visited, Continue
    <2>2. n \in Nat
      BY TaskKnown DEF Task
    <2> HIDE DEF n
    <2>3. GoodTask(x, opened, Safe) /\ ~ Told(x)
      BY <2>1, <2>2, TaskKnown DEF GoodTask, Task, Answers, Told, BulkOps, WriteBackOps
    <2> HIDE DEF x
    <2>4. TasksOK'
      BY <2>1, <2>3, CallMoves
    <2> QED BY <2>1, <2>4, RemovesStep
  <1>12. ASSUME NEW t \in Slots, Refused(t) PROVE IInv'
    <2> DEFINE x == [tasks[t] EXCEPT !.id = NoId, !.pane = NoPane, !.answer = "none"]
    <2>1. KeepMap /\ UNCHANGED <<selection, openEditors, panes, closingFiles, minted, opened>>
      BY <1>12 DEF Refused
    <2>2. CASE Return(t)
      BY <2>1, <2>2, CallReturns, MapKept
    <2>3. CASE Continue(t, x) /\ tasks[t].op \in BulkOps
      <3>1. GoodTask(x, opened, Safe) /\ ~ Told(x)
        BY <2>3, TaskKnown DEF GoodTask, Task, Answers, Told, BulkOps, WriteBackOps
      <3>2. tasks' = [tasks EXCEPT ![t] = x]
        BY <2>3 DEF Continue
      <3> HIDE DEF x
      <3> QED BY <2>1, <3>1, <3>2, CallMoves, MapKept
    <2> QED BY <1>12, <2>2, <2>3 DEF Refused
  <1>13. ASSUME NEW t \in Slots, BulkEnd(t) PROVE IInv'
    <2>1. KeepMap /\ selection' \subseteq selection /\ Return(t)
          /\ UNCHANGED <<openEditors, panes, closingFiles, minted, opened>>
      BY <1>13 DEF BulkEnd
    <2>2. TasksOK'
      BY <2>1, CallReturns
    <2> QED BY <2>1, <2>2, Typed, KeepShrinks, Shrinks
  <1> QED BY <1>1, <1>2, <1>3, <1>4, <1>5, <1>6, <1>7, <1>8, <1>9, <1>10, <1>11, <1>12, <1>13 DEF Closing

\* refreshEditRange writes the map it copied, with panes that are safe still.
LEMMA RefreshStep ==
  ASSUME IInv, NEW t \in Slots, NEW ranged \in BOOLEAN, refreshEditRange(t, ranged)
  PROVE  IInv'
  <1> DEFINE e == tasks[t].id
             r == [tasks[t].map[e] EXCEPT !.ranged = ranged]
             m == [tasks[t].map EXCEPT ![e] = r]
             x == [tasks[t] EXCEPT !.op = "reopen", !.map = EmptyMap]
  <1>1. SetMap(m, {e}) /\ tasks' = [tasks EXCEPT ![t] = x]
        /\ UNCHANGED <<selection, openEditors, panes, closingFiles, minted, opened>>
    BY DEF refreshEditRange, Continue
  <1>2. tasks[t].map \in Maps /\ KnownMap(tasks[t].map, Safe) /\ e \in DOMAIN tasks[t].map
    BY TaskKnown DEF refreshEditRange, GoodTask, Task, WriteBackOps
  <1>3. GoodTask(x, opened, Safe) /\ ~ Told(x)
    BY TaskKnown, EmptyMapType DEF GoodTask, KnownMap, Task, TaskOps, Told, BulkOps, WriteBackOps
  <1> HIDE DEF x
  <1>4. TasksOK'
    BY <1>1, <1>3, CallMoves
  <1>5. tasks[t].map[e] \in EditorRecord
    BY <1>2, MapElim
  <1> HIDE DEF e
  <1>6. r \in EditorRecord /\ r.pane = tasks[t].map[e].pane
    BY <1>5 DEF EditorRecord
  <1> HIDE DEF r
  <1>7. m \in Maps /\ DOMAIN m = DOMAIN tasks[t].map /\ m[e] = r
        /\ \A d \in DOMAIN tasks[t].map \ {e} : m[d] = tasks[t].map[d]
    BY <1>2, <1>6, ExceptType
  <1> HIDE DEF m
  <1>8. Grows /\ Safe' = Safe
    BY <1>1 DEF Grows, Safe
  <1>9. KnownMap(m, Safe')
    BY <1>2, <1>6, <1>7, <1>8 DEF KnownMap
  <1>10. panes' \subseteq opened' /\ openEditors' \subseteq opened' /\ opened' \subseteq Panes
         /\ closingFiles' \subseteq Panes /\ selection' \subseteq Ids /\ minted' \subseteq Ids
    BY <1>1 DEF IInv, TypeOK
  <1> QED BY <1>1, <1>4, <1>7, <1>8, <1>9, <1>10, MapWritten

LEMMA ReloadingStep == IInv /\ Reloading => IInv'
  <1> SUFFICES ASSUME IInv, Reloading PROVE IInv'
    OBVIOUS
  <1>1. ASSUME NEW t \in Slots, NEW e \in Ids, StartReload(t, e) PROVE IInv'
    <2> DEFINE p == idToEditorMap[e].pane
               x == [Idle EXCEPT !.op = "reload", !.id = e, !.pane = p]
               r == [idToEditorMap[e] EXCEPT !.shouldRespondToCloseEvents = FALSE]
               m == [idToEditorMap EXCEPT ![e] = r]
    <2>1. e \in DOMAIN idToEditorMap /\ tasks' = [tasks EXCEPT ![t] = x] /\ SetMap(m, {})
          /\ UNCHANGED <<selection, openEditors, panes, closingFiles, minted, opened>>
      BY <1>1 DEF StartReload, Start
    <2>2. idToEditorMap[e] \in EditorRecord
      BY <2>1, Typed, MapElim
    <2>3. r \in EditorRecord /\ r.pane = p
      BY <2>2 DEF EditorRecord
    <2>4. p \in opened \cup {NoPane} /\ p \in Panes \cup {NoPane}
      BY <2>1, <2>2 DEF EditorRecord, IInv, KnownMap, Safe
    <2> HIDE DEF r
    <2>5. m \in Maps /\ DOMAIN m = DOMAIN idToEditorMap
          /\ \A d \in DOMAIN idToEditorMap : m[d].pane = idToEditorMap[d].pane
      BY <2>1, <2>3, Typed, ExceptType
    <2> HIDE DEF p, m
    <2>6. GoodTask(x, opened, Safe) /\ ~ Told(x)
      BY <2>4, EmptyMapType DEF Idle, GoodTask, KnownMap, Task, TaskOps, Answers, CanvasTypes, Told, BulkOps, WriteBackOps
    <2> HIDE DEF x
    <2>7. TasksOK'
      BY <2>1, <2>6, CallMoves
    <2> QED BY <2>1, <2>5, <2>7, Typed, SetShrinks, Shrinks
  <1>2. ASSUME NEW t \in Slots, ReloadCloses(t) PROVE IInv'
    <2> DEFINE refresh == tasks[t].id \in DOMAIN idToEditorMap /\ idToEditorMap[tasks[t].id].ranged
               m == IF refresh THEN idToEditorMap ELSE EmptyMap
               op == IF refresh THEN "refreshEditRange" ELSE "reopen"
               x == [tasks[t] EXCEPT !.op = op, !.map = m]
    <2>1. closingFiles' = closingFiles \cup ({tasks[t].pane} \cap panes) /\ tasks' = [tasks EXCEPT ![t] = x]
          /\ KeepMap /\ UNCHANGED <<selection, openEditors, panes, minted, opened>>
      BY <1>2 DEF ReloadCloses, Continue
    <2>2. m \in Maps /\ KnownMap(m, Safe) /\ op \in {"refreshEditRange", "reopen"}
          /\ (op = "refreshEditRange" => tasks[t].id \in DOMAIN m)
      BY Typed, EmptyMapType DEF IInv, KnownMap
    <2> HIDE DEF m, op
    <2>3. GoodTask(x, opened, Safe) /\ ~ Told(x)
      BY <2>2, TaskKnown DEF GoodTask, Task, TaskOps, Told, BulkOps, WriteBackOps
    <2> HIDE DEF x
    <2>4. TasksOK'
      BY <2>1, <2>3, CallMoves
    <2> QED BY <2>1, <2>4, Typed, KeepShrinks, Shrinks
  <1>3. ASSUME NEW t \in Slots, Reopen(t) PROVE IInv'
    <2>1. Return(t) /\ SetMap(idToEditorMap, {tasks[t].id})
          /\ UNCHANGED <<selection, openEditors, panes, closingFiles, minted, opened>>
      BY <1>3 DEF Reopen
    <2>2. TasksOK'
      BY <2>1, CallReturns
    <2> QED BY <2>1, <2>2, Typed, SetShrinks, Shrinks
  <1>4. ASSUME NEW t \in Slots, NEW ranged \in BOOLEAN, refreshEditRangeInTime(t, ranged) PROVE IInv'
    BY <1>4, RefreshStep DEF refreshEditRangeInTime
  <1> QED BY <1>1, <1>2, <1>3, <1>4 DEF Reloading

LEMMA SelectingStep == IInv /\ Selecting => IInv'
  <1> SUFFICES ASSUME IInv, Selecting PROVE IInv'
    OBVIOUS
  <1>1. ASSUME NEW S \in SUBSET Ids, Select(S) PROVE IInv'
    <2>1. TasksOK'
      BY <1>1, Typed, TasksSame DEF Select, Grows
    <2> QED BY <1>1, <2>1, Typed, KeepShrinks, Shrinks DEF Select
  <1>2. DOMAIN idToEditorMap \subseteq Ids
    BY Typed, MapElim
  <1>3. ASSUME NEW e \in Ids, Pin(e) PROVE IInv'
    <2> DEFINE r == [idToEditorMap[e] EXCEPT !.isPinned = ~ @]
               m == [idToEditorMap EXCEPT ![e] = r]
    <2>1. e \in DOMAIN idToEditorMap /\ SetMap(m, {})
          /\ UNCHANGED <<selection, openEditors, panes, closingFiles, tasks, minted, opened>>
      BY <1>3 DEF Pin
    <2>2. r \in EditorRecord /\ r.pane = idToEditorMap[e].pane
      BY <2>1, Typed, MapElim DEF EditorRecord
    <2> HIDE DEF r
    <2>3. m \in Maps /\ DOMAIN m = DOMAIN idToEditorMap
          /\ \A d \in DOMAIN idToEditorMap : m[d].pane = idToEditorMap[d].pane
      BY <2>1, <2>2, Typed, ExceptType
    <2> HIDE DEF m
    <2>4. TasksOK'
      BY <2>1, Typed, TasksSame DEF Grows
    <2> QED BY <2>1, <2>3, <2>4, Typed, SetShrinks, Shrinks
  <1> QED BY <1>1, <1>2, <1>3, Typed DEF Selecting, selectEditor, deselectEditor, selectAllEditors, clearSelection

\* The operations that write a map they copied before an await.
LEMMA StaleStep == IInv /\ Stale => IInv'
  <1> SUFFICES ASSUME IInv, Stale PROVE IInv'
    OBVIOUS
  <1>1. ASSUME NEW t \in Slots, StartSymbol(t) PROVE IInv'
    <2> DEFINE x == [Idle EXCEPT !.op = "insertSymbol", !.map = idToEditorMap]
    <2>1. GoodTask(x, opened, Safe) /\ ~ Told(x)
      BY Typed DEF IInv, Idle, GoodTask, Task, TaskOps, Answers, CanvasTypes, Told, BulkOps, WriteBackOps
    <2> HIDE DEF x
    <2>2. tasks' = [tasks EXCEPT ![t] = x] /\ KeepMap
          /\ UNCHANGED <<selection, openEditors, panes, closingFiles, minted, opened>>
      BY <1>1 DEF StartSymbol, Start, x
    <2> QED BY <2>1, <2>2, CallMoves, MapKept
  <1>2. ASSUME NEW t \in Slots, NEW e \in Ids, insertSymbolEditorAtCenterOfViewport(t, e) PROVE IInv'
    <2>1. tasks[t].map \in Maps /\ KnownMap(tasks[t].map, Safe)
      BY TaskKnown DEF GoodTask, Task
    <2>2. Appear(tasks[t].map, e, generateEditor("CODE_EDITOR", TRUE), FALSE) /\ Return(t)
      BY <1>2 DEF insertSymbolEditorAtCenterOfViewport
    <2>3. TasksOK'
      BY <2>2, CallReturns DEF Appear
    <2> QED BY <2>1, <2>2, <2>3, AppearStep DEF CanvasTypes
  <1>3. ASSUME NEW t \in Slots, openFileDiffEditorForCanvasEditor(t) PROVE IInv'
    <2> DEFINE e == tasks[t].id
               p == tasks[t].pane
               r == [tasks[t].map[e] EXCEPT !.pane = p]
               m == [tasks[t].map EXCEPT ![e] = r]
    <2>1. openEditors' = openEditors \cup {p} /\ SetMap(m, {}) /\ Return(t) /\ p # NoPane
          /\ UNCHANGED <<selection, panes, closingFiles, minted, opened>>
      BY <1>3 DEF openFileDiffEditorForCanvasEditor
    <2>2. tasks[t].map \in Maps /\ KnownMap(tasks[t].map, Safe) /\ e \in DOMAIN tasks[t].map
      BY <1>3, TaskKnown DEF openFileDiffEditorForCanvasEditor, GoodTask, Task, WriteBackOps
    <2>3. p \in opened /\ p \in Panes
      BY <2>1, TaskKnown DEF GoodTask, Task
    <2>4. TasksOK'
      BY <2>1, CallReturns
    <2>5. tasks[t].map[e] \in EditorRecord
      BY <2>2, MapElim
    <2> HIDE DEF e, p
    <2>6. r \in EditorRecord /\ r.pane = p
      BY <2>3, <2>5 DEF EditorRecord
    <2> HIDE DEF r
    <2>7. m \in Maps /\ DOMAIN m = DOMAIN tasks[t].map /\ m[e] = r
          /\ \A d \in DOMAIN tasks[t].map \ {e} : m[d] = tasks[t].map[d]
      BY <2>2, <2>6, ExceptType
    <2> HIDE DEF m
    <2>8. Grows /\ Safe \subseteq Safe' /\ p \in Safe'
      BY <2>1, SafeGrows DEF Grows, Safe
    <2>9. KnownMap(m, Safe')
      BY <2>2, <2>6, <2>7, <2>8 DEF KnownMap
    <2>10. panes' \subseteq opened' /\ openEditors' \subseteq opened' /\ opened' \subseteq Panes
           /\ closingFiles' \subseteq Panes /\ selection' \subseteq Ids /\ minted' \subseteq Ids
      BY <2>1, <2>3 DEF IInv, TypeOK
    <2> QED BY <2>1, <2>4, <2>7, <2>8, <2>9, <2>10, MapWritten
  <1>4. ASSUME NEW t \in Slots, NEW ranged \in BOOLEAN, refreshEditRange(t, ranged) PROVE IInv'
    BY <1>4, RefreshStep
  <1> QED BY <1>1, <1>2, <1>3, <1>4 DEF Stale

\* IInv holds of every behaviour, stale writes included.
THEOREM InductiveInvariant == StaleSpec => []IInv
  <1>1. Init => IInv
    <2> SUFFICES ASSUME Init PROVE IInv
      OBVIOUS
    <2>1. TypeOK
      BY IdleGood, EmptyMapType DEF Init, TypeOK, GoodTask
    <2>2. TasksOK
      BY IdleGood DEF Init, TasksOK, GoodTask
    <2>3. panes \subseteq opened /\ openEditors \subseteq opened /\ KnownMap(idToEditorMap, Safe)
      BY EmptyMapType DEF Init, KnownMap
    <2> QED BY <2>1, <2>2, <2>3 DEF IInv
  <1>2. IInv /\ [Next \/ Stale]_vars => IInv'
    <2> SUFFICES ASSUME IInv, [Next \/ Stale]_vars PROVE IInv'
      OBVIOUS
    <2>1. CASE UNCHANGED vars
      BY <2>1 DEF vars, IInv, TypeOK, TasksOK, Safe
    <2>2. CASE Next
      BY <2>2, InsertingStep, OpeningStep, ClosingStep, ReloadingStep, SelectingStep DEF Next
    <2>3. CASE Stale
      BY <2>3, StaleStep
    <2> QED BY <2>1, <2>2, <2>3
  <1> QED BY <1>1, <1>2, PTL DEF StaleSpec

\* Every value the store's operations reach has its type, and only editors on the canvas
\* have an effect to run.
THEOREM TypeCorrect == StaleSpec => []TypeOK
  <1>1. IInv => TypeOK
    BY DEF IInv
  <1> QED BY <1>1, InductiveInvariant, PTL

\* However openings, reloads, closes and stale writes interleave, an editor whose pane is
\* open can be saved: its identifier is in openEditors.
THEOREM LivePanesAreListed == StaleSpec => []LivePanesListed
  <1>1. ASSUME IInv PROVE LivePanesListed
    BY <1>1, Typed DEF IInv, KnownMap, Safe, LivePanesListed
  <1> QED BY <1>1, InductiveInvariant, PTL
-----------------------------------------------------------------------------
(* What a reload and a close of many editors guarantee, as long as no      *)
(* operation writes back a copied map (Spec).                              *)

\* Without the stale writes the invariant of all operations holds too.
LEMMA SpecInvariant == Spec => []IInv
  <1>1. [Next]_vars => [Next \/ Stale]_vars
    OBVIOUS
  <1> QED BY <1>1, InductiveInvariant, PTL DEF Spec, StaleSpec

\* The calls of a reload, from the shortcut to the toggle.
ReloadOps == {"reload", "refreshEditRange", "reopen"}

\* While a reload waits, its pane, if still open, belongs to editors that ignore the
\* close event.
ReloadsQuiet ==
  \A t \in Slots : tasks[t].op \in ReloadOps /\ tasks[t].pane \in panes
    => \A e \in Showing(idToEditorMap, tasks[t].pane) : ~ idToEditorMap[e].shouldRespondToCloseEvents

\* The pane VS Code opened for a call belongs to nobody else yet.
OpenedIsOwn ==
  \A t \in Slots : tasks[t].op = "open" /\ tasks[t].pane # NoPane
    => /\ \A e \in DOMAIN idToEditorMap : idToEditorMap[e].pane # tasks[t].pane
       /\ \A s \in Slots \ {t} : tasks[s].op \in ReloadOps \cup {"open"} => tasks[s].pane # tasks[t].pane

\* No two editors share a pane.
PanesAreOwn ==
  \A d, e \in DOMAIN idToEditorMap :
    idToEditorMap[d].pane = idToEditorMap[e].pane /\ idToEditorMap[d].pane # NoPane => d = e

RInv == ReloadsQuiet /\ OpenedIsOwn /\ PanesAreOwn

\* Every editor of the new map was there with this pane and type, and starts to respond
\* to close events only if its pane is closed; or it has no pane.
MapTame(map) ==
  \A e \in DOMAIN map :
    \/ map[e].pane = NoPane
    \/ /\ e \in DOMAIN idToEditorMap
       /\ map[e].pane = idToEditorMap[e].pane
       /\ map[e].type = idToEditorMap[e].type
       /\ \/ map[e].shouldRespondToCloseEvents = idToEditorMap[e].shouldRespondToCloseEvents
          \/ map[e].pane \notin panes'

\* A call that moves on as x starts no reload, and has no pane it had not.
TaskTame(t, x) ==
  /\ x.op \in ReloadOps => tasks[t].op \in ReloadOps /\ x.pane = tasks[t].pane
  /\ x.op = "open" => x.pane = NoPane \/ (tasks[t].op = "open" /\ x.pane = tasks[t].pane)

\* Most steps are tame.
LEMMA TameStep ==
  ASSUME IInv, RInv, MapTame(idToEditorMap'), panes' \subseteq panes,
         \A t \in Slots : TaskTame(t, tasks'[t])
  PROVE  RInv'
  <1>0. NoPane \notin panes
    BY DEF IInv, TypeOK
  <1>1. ReloadsQuiet'
    <2> SUFFICES ASSUME NEW t \in Slots, tasks'[t].op \in ReloadOps, tasks'[t].pane \in panes',
                        NEW e \in Showing(idToEditorMap', tasks'[t].pane)
                 PROVE  ~ idToEditorMap'[e].shouldRespondToCloseEvents
      BY DEF ReloadsQuiet
    <2>1. tasks[t].op \in ReloadOps /\ tasks'[t].pane = tasks[t].pane /\ tasks[t].pane \in panes
      BY DEF TaskTame
    <2>2. e \in DOMAIN idToEditorMap' /\ idToEditorMap'[e].pane = tasks[t].pane
          /\ idToEditorMap'[e].type \in ClosableTypes
      BY <2>1 DEF Showing
    <2>3. e \in DOMAIN idToEditorMap /\ idToEditorMap'[e].pane = idToEditorMap[e].pane
          /\ idToEditorMap'[e].type = idToEditorMap[e].type
          /\ idToEditorMap'[e].shouldRespondToCloseEvents = idToEditorMap[e].shouldRespondToCloseEvents
      BY <1>0, <2>1, <2>2 DEF MapTame
    <2>4. e \in Showing(idToEditorMap, tasks[t].pane)
      BY <2>2, <2>3 DEF Showing
    <2> QED BY <2>1, <2>3, <2>4 DEF RInv, ReloadsQuiet
  <1>2. OpenedIsOwn'
    <2> SUFFICES ASSUME NEW t \in Slots, tasks'[t].op = "open", tasks'[t].pane # NoPane
                 PROVE  /\ \A e \in DOMAIN idToEditorMap' : idToEditorMap'[e].pane # tasks'[t].pane
                        /\ \A s \in Slots \ {t} : tasks'[s].op \in ReloadOps \cup {"open"}
                             => tasks'[s].pane # tasks'[t].pane
      BY DEF OpenedIsOwn
    <2>1. tasks[t].op = "open" /\ tasks'[t].pane = tasks[t].pane
      BY DEF TaskTame
    <2>2. \A e \in DOMAIN idToEditorMap' : idToEditorMap'[e].pane # tasks'[t].pane
      BY <2>1 DEF MapTame, RInv, OpenedIsOwn
    <2>3. ASSUME NEW s \in Slots \ {t}, tasks'[s].op \in ReloadOps \cup {"open"}
          PROVE  tasks'[s].pane # tasks'[t].pane
      <3>1. tasks'[s].pane = NoPane
            \/ (tasks[s].op \in ReloadOps \cup {"open"} /\ tasks'[s].pane = tasks[s].pane)
        BY <2>3 DEF TaskTame
      <3> QED BY <2>1, <3>1 DEF RInv, OpenedIsOwn
    <2> QED BY <2>2, <2>3
  <1>3. PanesAreOwn'
    BY DEF MapTame, RInv, PanesAreOwn
  <1> QED BY <1>1, <1>2, <1>3 DEF RInv

\* The calls after one of them has moved on.
LEMMA OneMoves ==
  ASSUME IInv, NEW t \in Slots, NEW x, tasks' = [tasks EXCEPT ![t] = x], TaskTame(t, x)
  PROVE  \A s \in Slots : TaskTame(s, tasks'[s])
  <1>1. tasks \in [Slots -> Task]
    BY DEF IInv, TasksOK
  <1>2. \A s \in Slots : (s = t /\ tasks'[s] = x) \/ tasks'[s] = tasks[s]
    BY <1>1
  <1> HIDE DEF TaskTame
  <1>3. \A s \in Slots : TaskTame(s, tasks[s])
    BY DEF TaskTame
  <1> QED BY <1>2, <1>3

LEMMA NoneMoves ==
  ASSUME UNCHANGED tasks
  PROVE  \A s \in Slots : TaskTame(s, tasks'[s])
  BY DEF TaskTame

LEMMA OneReturns ==
  ASSUME IInv, NEW t \in Slots, Return(t)
  PROVE  \A s \in Slots : TaskTame(s, tasks'[s])
  <1>1. TaskTame(t, Idle)
    BY DEF TaskTame, Idle, ReloadOps
  <1> QED BY <1>1, OneMoves DEF Return

\* The ways the steps write the map are tame: not at all, without some editors, with a new
\* one, or after a pane has closed.
LEMMA KeepTame == KeepMap => MapTame(idToEditorMap')
  BY DEF KeepMap, MapTame

LEMMA WithoutTame ==
  ASSUME NEW R, SetMap(Without(idToEditorMap, R), {})
  PROVE  MapTame(idToEditorMap')
  BY DEF SetMap, Without, MapTame

LEMMA AppearTame ==
  ASSUME NEW e, NEW type, NEW ranged, NEW s,
         Appear(idToEditorMap, e, generateEditor(type, ranged), s)
  PROVE  MapTame(idToEditorMap') /\ panes' \subseteq panes
  <1> DEFINE x == generateEditor(type, ranged)
  <1>1. x.pane = NoPane
    BY DEF generateEditor
  <1>2. idToEditorMap' = With(idToEditorMap, e, x) /\ panes' = panes
    BY DEF Appear, SetMap
  <1> HIDE DEF x
  <1>3. \A d \in DOMAIN idToEditorMap' :
          IF d = e THEN idToEditorMap'[d] = x
                   ELSE d \in DOMAIN idToEditorMap /\ idToEditorMap'[d] = idToEditorMap[d]
    BY <1>2 DEF With
  <1> QED BY <1>1, <1>2, <1>3 DEF MapTame

LEMMA CloseTame ==
  ASSUME IInv, NEW p, ClosePane(p)
  PROVE  MapTame(idToEditorMap') /\ panes' \subseteq panes
  <1>1. panes' = panes \ {p}
        /\ idToEditorMap' = IF p \in panes THEN respondToEditorClosing(idToEditorMap, p) ELSE idToEditorMap
    BY DEF ClosePane, SetMap
  <1>2. CASE p \notin panes
    BY <1>1, <1>2 DEF MapTame
  <1>3. CASE p \in panes
    <2> SUFFICES ASSUME NEW e \in DOMAIN idToEditorMap'
                 PROVE  /\ e \in DOMAIN idToEditorMap
                        /\ idToEditorMap'[e].pane = idToEditorMap[e].pane
                        /\ idToEditorMap'[e].type = idToEditorMap[e].type
                        /\ \/ idToEditorMap'[e].shouldRespondToCloseEvents
                                = idToEditorMap[e].shouldRespondToCloseEvents
                           \/ idToEditorMap'[e].pane \notin panes'
      BY <1>1 DEF MapTame
    <2>1. e \in DOMAIN idToEditorMap
          /\ idToEditorMap'[e] = IF e \in Showing(idToEditorMap, p)
                                   THEN [idToEditorMap[e] EXCEPT !.shouldRespondToCloseEvents = TRUE]
                                   ELSE idToEditorMap[e]
      BY <1>1, <1>3 DEF respondToEditorClosing
    <2>2. idToEditorMap[e] \in EditorRecord
      BY <2>1, Typed, MapElim
    <2>3. CASE e \in Showing(idToEditorMap, p)
      <3>1. idToEditorMap[e].pane = p
        BY <2>3 DEF Showing
      <3>2. idToEditorMap'[e].pane = idToEditorMap[e].pane /\ idToEditorMap'[e].type = idToEditorMap[e].type
        BY <2>1, <2>2, <2>3 DEF EditorRecord
      <3> QED BY <1>1, <2>1, <3>1, <3>2
    <2>4. CASE e \notin Showing(idToEditorMap, p)
      BY <2>1, <2>4
    <2> QED BY <2>3, <2>4
  <1> QED BY <1>2, <1>3

LEMMA InsertingQuiet == IInv /\ RInv /\ Inserting => RInv'
  <1> SUFFICES ASSUME IInv, RInv, Inserting PROVE RInv'
    OBVIOUS
  <1>1. ASSUME NEW t \in Slots, NEW type \in Types, StartInsert(t, type) PROVE RInv'
    <2>1. TaskTame(t, [Idle EXCEPT !.op = "insert", !.type = type])
      BY DEF TaskTame, Idle, ReloadOps
    <2> QED BY <1>1, <2>1, OneMoves, KeepTame, TameStep DEF StartInsert, Start
  <1>2. ASSUME NEW t \in Slots, NEW e \in Ids, insertEditorAtCenterOfViewport(t, e) PROVE RInv'
    BY <1>2, OneReturns, AppearTame, TameStep DEF insertEditorAtCenterOfViewport
  <1>3. ASSUME NEW e \in Ids, insertModalEditorAtCenterOfViewport(e) PROVE RInv'
    BY <1>3, NoneMoves, AppearTame, TameStep DEF insertModalEditorAtCenterOfViewport
  <1>4. ASSUME NEW e \in Ids, NEW type \in Types, NEW ranged \in BOOLEAN,
               NEW select \in BOOLEAN, insertEditorAtPosition(e, type, ranged, select)
        PROVE  RInv'
    BY <1>4, NoneMoves, AppearTame, TameStep DEF insertEditorAtPosition
  <1>5. ASSUME NEW t \in Slots, NEW beside \in Ids, StartAdjacent(t, beside) PROVE RInv'
    <2>1. TaskTame(t, [Idle EXCEPT !.op = "insertAdjacent", !.id = beside])
      BY DEF TaskTame, Idle, ReloadOps
    <2> QED BY <1>5, <2>1, OneMoves, KeepTame, TameStep DEF StartAdjacent, Start
  <1>6. ASSUME NEW t \in Slots, NEW e \in Ids, NEW ranged \in BOOLEAN, NEW select \in BOOLEAN,
               insertAdjacentEditor(t, e, ranged, select)
        PROVE  RInv'
    <2>1. MapTame(idToEditorMap') /\ panes' \subseteq panes
      BY <1>6, AppearTame, KeepTame DEF insertAdjacentEditor
    <2> QED BY <1>6, <2>1, OneReturns, TameStep DEF insertAdjacentEditor
  <1> QED BY <1>1, <1>2, <1>3, <1>4, <1>5, <1>6 DEF Inserting

LEMMA ClosingQuiet == IInv /\ RInv /\ Closing => RInv'
  <1> SUFFICES ASSUME IInv, RInv, Closing PROVE RInv'
    OBVIOUS
  <1>0. ASSUME NEW t \in Slots PROVE tasks[t] \in Task
    BY TaskKnown
  <1>1. ASSUME NEW p \in Panes, onDidCloseEditor(p) PROVE RInv'
    BY <1>1, NoneMoves, CloseTame, TameStep DEF onDidCloseEditor
  <1>2. ASSUME NEW p \in Panes, closeFileEditor(p) PROVE RInv'
    <2>1. MapTame(idToEditorMap') /\ panes' \subseteq panes
      BY <1>2, CloseTame, KeepTame DEF closeFileEditor
    <2> QED BY <1>2, <2>1, NoneMoves, TameStep DEF closeFileEditor
  <1>3. ASSUME NEW t \in Slots, Answer(t) PROVE RInv'
    <2>1. MapTame(idToEditorMap') /\ panes' \subseteq panes
      BY <1>3, CloseTame, KeepTame DEF Answer
    <2>2. \A a \in Answers : TaskTame(t, [tasks[t] EXCEPT !.answer = a])
      BY <1>0 DEF TaskTame, Task
    <2>3. PICK a \in Answers : tasks' = [tasks EXCEPT ![t] = [tasks[t] EXCEPT !.answer = a]]
      BY <1>3 DEF Answer, Continue, Answers
    <2>4. \A s \in Slots : TaskTame(s, tasks'[s])
      BY <2>2, <2>3, OneMoves
    <2> QED BY <2>1, <2>4, TameStep
  <1>4. ASSUME NEW t \in Slots, NEW e \in Ids, StartClose(t, e) PROVE RInv'
    <2>1. PICK p, a : tasks' = [tasks EXCEPT ![t] = [Idle EXCEPT !.op = "close", !.id = e,
                                                                !.pane = p, !.answer = a]]
      BY <1>4 DEF StartClose, Start
    <2>2. TaskTame(t, [Idle EXCEPT !.op = "close", !.id = e, !.pane = p, !.answer = a])
      BY DEF TaskTame, Idle, ReloadOps
    <2>3. \A s \in Slots : TaskTame(s, tasks'[s])
      BY <2>1, <2>2, OneMoves
    <2> QED BY <1>4, <2>3, KeepTame, TameStep DEF StartClose
  <1>5. ASSUME NEW t \in Slots, AskClose(t) PROVE RInv'
    <2> DEFINE a == Asked(tasks[t].pane)
    <2>1. tasks' = [tasks EXCEPT ![t] = [tasks[t] EXCEPT !.answer = a]]
      BY <1>5 DEF AskClose, Continue
    <2> HIDE DEF a
    <2>2. TaskTame(t, [tasks[t] EXCEPT !.answer = a])
      BY <1>0 DEF TaskTame, Task
    <2>3. \A s \in Slots : TaskTame(s, tasks'[s])
      BY <2>1, <2>2, OneMoves
    <2> QED BY <1>5, <2>3, KeepTame, TameStep DEF AskClose
  <1>6. ASSUME NEW t \in Slots, closeEditor(t) PROVE RInv'
    <2>1. MapTame(idToEditorMap') /\ panes' \subseteq panes
      BY <1>6, WithoutTame, KeepTame DEF closeEditor
    <2> QED BY <1>6, <2>1, OneReturns, TameStep DEF closeEditor
  <1>7. ASSUME NEW t \in Slots, NEW op \in BulkOps, NEW S, NEW started, StartBulk(t, op, S, started)
        PROVE  RInv'
    <2>1. TaskTame(t, [Idle EXCEPT !.op = op, !.map = idToEditorMap, !.todo = S, !.started = started])
      BY DEF TaskTame, Idle, ReloadOps, BulkOps
    <2> QED BY <1>7, <2>1, OneMoves, KeepTame, TameStep DEF StartBulk, Start
  <1>8. ASSUME NEW t \in Slots, StartDelete(t) \/ StartCloseAll(t) \/ StartOpenWorkspace(t) PROVE RInv'
    BY <1>7, <1>8 DEF StartDelete, StartCloseAll, StartOpenWorkspace, BulkOps
  <1>9. ASSUME NEW t \in Slots, NEW x, tasks' = [tasks EXCEPT ![t] = x], tasks[t].op \in BulkOps,
               x.op = tasks[t].op, MapTame(idToEditorMap'), panes' \subseteq panes
        PROVE  RInv'
    <2>1. TaskTame(t, x)
      BY <1>9 DEF TaskTame, ReloadOps, BulkOps
    <2> QED BY <1>9, <2>1, OneMoves, TameStep
  <1>10. ASSUME NEW t \in Slots, NEW e \in Ids, Visit(t, e) PROVE RInv'
    <2>1. MapTame(idToEditorMap') /\ panes' \subseteq panes /\ tasks[t].op \in BulkOps
      BY <1>10, WithoutTame, KeepTame DEF Visit
    <2>2. PICK x : tasks' = [tasks EXCEPT ![t] = x] /\ x.op = tasks[t].op
      <3> DEFINE y(p, a) == [tasks[t] EXCEPT !.id = e, !.pane = p, !.todo = @ \ {e}, !.answer = a]
                 z == [tasks[t] EXCEPT !.todo = @ \ {e}]
      <3>1. (\A p, a : y(p, a).op = tasks[t].op) /\ z.op = tasks[t].op
        BY <1>0 DEF Task
      <3>2. (\E p, a : tasks' = [tasks EXCEPT ![t] = y(p, a)]) \/ tasks' = [tasks EXCEPT ![t] = z]
        BY <1>10 DEF Visit, Continue
      <3> HIDE DEF y, z
      <3> QED BY <3>1, <3>2
    <2> QED BY <1>9, <2>1, <2>2
  <1>11. ASSUME NEW t \in Slots, Visited(t) PROVE RInv'
    <2> DEFINE x == [tasks[t] EXCEPT !.id = NoId, !.pane = NoPane, !.answer = "none", !.deleted = @ + 1]
    <2>1. MapTame(idToEditorMap') /\ panes' \subseteq panes /\ tasks[t].op \in BulkOps
          /\ tasks' = [tasks EXCEPT ![t] = x]
      BY <1>11, WithoutTame DEF Visited, Continue
    <2>2. x.op = tasks[t].op
      BY <1>0 DEF Task
    <2> QED BY <1>9, <2>1, <2>2
  <1>12. ASSUME NEW t \in Slots, Refused(t) PROVE RInv'
    <2> DEFINE x == [tasks[t] EXCEPT !.id = NoId, !.pane = NoPane, !.answer = "none"]
    <2>1. MapTame(idToEditorMap') /\ panes' \subseteq panes /\ tasks[t].op \in BulkOps
      BY <1>12, KeepTame DEF Refused
    <2>2. x.op = tasks[t].op
      BY <1>0 DEF Task
    <2>3. Return(t) \/ tasks' = [tasks EXCEPT ![t] = x]
      BY <1>12 DEF Refused, Continue
    <2>4. CASE Return(t)
      BY <2>1, <2>4, OneReturns, TameStep
    <2>5. CASE tasks' = [tasks EXCEPT ![t] = x]
      BY <1>9, <2>1, <2>2, <2>5
    <2> QED BY <2>3, <2>4, <2>5
  <1>13. ASSUME NEW t \in Slots, BulkEnd(t) PROVE RInv'
    BY <1>13, OneReturns, KeepTame, TameStep DEF BulkEnd
  <1> QED BY <1>1, <1>2, <1>3, <1>4, <1>5, <1>6, <1>8, <1>10, <1>11, <1>12, <1>13 DEF Closing

LEMMA SelectingQuiet == IInv /\ RInv /\ Selecting => RInv'
  <1> SUFFICES ASSUME IInv, RInv, Selecting PROVE RInv'
    OBVIOUS
  <1>1. ASSUME NEW S, Select(S) PROVE RInv'
    BY <1>1, NoneMoves, KeepTame, TameStep DEF Select
  <1>2. ASSUME NEW e \in Ids, Pin(e) PROVE RInv'
    <2>1. MapTame(idToEditorMap')
      <3> DEFINE r == [idToEditorMap[e] EXCEPT !.isPinned = ~ @]
      <3>1. e \in DOMAIN idToEditorMap /\ idToEditorMap' = [idToEditorMap EXCEPT ![e] = r]
        BY <1>2 DEF Pin, SetMap
      <3>2. idToEditorMap[e] \in EditorRecord
        BY <3>1, Typed, MapElim
      <3>3. r.pane = idToEditorMap[e].pane /\ r.type = idToEditorMap[e].type
            /\ r.shouldRespondToCloseEvents = idToEditorMap[e].shouldRespondToCloseEvents
        BY <3>2 DEF EditorRecord
      <3> HIDE DEF r
      <3>4. \A d \in DOMAIN idToEditorMap' :
              d \in DOMAIN idToEditorMap /\ (idToEditorMap'[d] = idToEditorMap[d] \/ (d = e /\ idToEditorMap'[d] = r))
        BY <3>1
      <3> QED BY <3>3, <3>4 DEF MapTame
    <2> QED BY <1>2, <2>1, NoneMoves, TameStep DEF Pin
  <1> QED BY <1>1, <1>2 DEF Selecting, selectEditor, deselectEditor, selectAllEditors, clearSelection

\* A pane that VS Code opens is new to every editor and every call; the editor it was
\* opened for is its first owner.
LEMMA OpeningQuiet == IInv /\ RInv /\ Opening => RInv'
  <1> SUFFICES ASSUME IInv, RInv, Opening PROVE RInv'
    OBVIOUS
  <1>0. tasks \in [Slots -> Task] /\ \A t \in Slots : tasks[t].pane \in opened \cup {NoPane}
    BY TaskKnown DEF IInv, TasksOK, GoodTask
  <1>1. ASSUME NEW t \in Slots, NEW e \in Ids, RunEffect(t, e) PROVE RInv'
    <2> DEFINE diff == idToEditorMap[e].type = "DIFF_EDITOR"
               x == [Idle EXCEPT !.op = IF diff THEN "openDiff" ELSE "open", !.id = e,
                                 !.map = IF diff THEN idToEditorMap ELSE EmptyMap]
    <2>1. tasks' = [tasks EXCEPT ![t] = x]
      BY <1>1 DEF RunEffect, Start
    <2>2. TaskTame(t, x)
      BY DEF TaskTame, Idle, ReloadOps
    <2> HIDE DEF x
    <2>3. \A s \in Slots : TaskTame(s, tasks'[s])
      BY <2>1, <2>2, OneMoves
    <2> QED BY <1>1, <2>3, TameStep DEF RunEffect, MapTame
  <1>2. ASSUME NEW t \in Slots, NEW p \in Panes, CreatePane(t, p) PROVE RInv'
    <2> DEFINE x == [tasks[t] EXCEPT !.pane = p]
    <2>1. tasks' = [tasks EXCEPT ![t] = x] /\ p \notin opened /\ panes' = panes \cup {p}
          /\ UNCHANGED idToEditorMap /\ tasks[t].op \in {"open", "openDiff"} /\ tasks[t].pane = NoPane
      BY <1>2 DEF CreatePane, Continue, KeepMap
    <2>2. x.op = tasks[t].op /\ x.pane = p
      BY <1>0 DEF Task
    <2> HIDE DEF x
    <2>3. tasks'[t] = x /\ \A s \in Slots \ {t} : tasks'[s] = tasks[s]
      BY <1>0, <2>1
    <2>4. \A s \in Slots : tasks[s].pane # p
      BY <1>0, <2>1
    <2>5. \A e \in DOMAIN idToEditorMap : idToEditorMap[e].pane # p
      BY <2>1 DEF IInv, KnownMap, Safe
    <2>6. ReloadsQuiet'
      <3> SUFFICES ASSUME NEW s \in Slots, tasks'[s].op \in ReloadOps, tasks'[s].pane \in panes'
                   PROVE  \A e \in Showing(idToEditorMap', tasks'[s].pane) :
                            ~ idToEditorMap'[e].shouldRespondToCloseEvents
        BY DEF ReloadsQuiet
      <3>1. s # t
        BY <2>1, <2>2, <2>3 DEF ReloadOps
      <3>2. tasks'[s] = tasks[s] /\ tasks[s].pane \in panes
        BY <2>1, <2>3, <2>4, <3>1
      <3> QED BY <2>1, <3>2 DEF RInv, ReloadsQuiet
    <2>7. OpenedIsOwn'
      <3> SUFFICES ASSUME NEW s \in Slots, tasks'[s].op = "open", tasks'[s].pane # NoPane
                   PROVE  /\ \A e \in DOMAIN idToEditorMap' : idToEditorMap'[e].pane # tasks'[s].pane
                          /\ \A u \in Slots \ {s} : tasks'[u].op \in ReloadOps \cup {"open"}
                               => tasks'[u].pane # tasks'[s].pane
        BY DEF OpenedIsOwn
      <3>1. CASE s = t
        BY <2>1, <2>2, <2>3, <2>4, <2>5, <3>1
      <3>2. CASE s # t
        <4>1. tasks'[s] = tasks[s]
          BY <2>3, <3>2
        <4>2. \A e \in DOMAIN idToEditorMap' : idToEditorMap'[e].pane # tasks'[s].pane
          BY <2>1, <4>1 DEF RInv, OpenedIsOwn
        <4>3. ASSUME NEW u \in Slots \ {s}, tasks'[u].op \in ReloadOps \cup {"open"}
              PROVE  tasks'[u].pane # tasks'[s].pane
          <5>1. CASE u = t
            BY <2>2, <2>3, <2>4, <4>1, <5>1
          <5>2. CASE u # t
            BY <2>3, <4>1, <4>3, <5>2 DEF RInv, OpenedIsOwn
          <5> QED BY <5>1, <5>2
        <4> QED BY <4>2, <4>3
      <3> QED BY <3>1, <3>2
    <2>8. PanesAreOwn'
      BY <2>1 DEF RInv, PanesAreOwn
    <2> QED BY <2>6, <2>7, <2>8 DEF RInv
  <1>3. ASSUME NEW t \in Slots, CreateFails(t) PROVE RInv'
    BY <1>3, OneReturns, KeepTame, TameStep DEF CreateFails
  <1>4. ASSUME NEW t \in Slots, openEditorForCanvasEditor(t) PROVE RInv'
    <2> DEFINE e == tasks[t].id
               p == tasks[t].pane
    <2>1. Return(t) /\ panes' = panes /\ tasks[t].op = "open" /\ p # NoPane
      BY <1>4 DEF openEditorForCanvasEditor
    <2>2. CASE e \notin DOMAIN idToEditorMap
      BY <1>4, <2>1, <2>2, OneReturns, KeepTame, TameStep DEF openEditorForCanvasEditor
    <2>3. CASE e \in DOMAIN idToEditorMap
      <3> DEFINE r == [idToEditorMap[e] EXCEPT !.pane = p]
      <3>1. idToEditorMap' = [idToEditorMap EXCEPT ![e] = r]
        BY <1>4, <2>3 DEF openEditorForCanvasEditor, SetMap
      <3>2. idToEditorMap[e] \in EditorRecord
        BY <2>3, Typed, MapElim
      <3>3. r.pane = p
        BY <3>2 DEF EditorRecord
      <3> HIDE DEF r
      <3>4. /\ DOMAIN idToEditorMap' = DOMAIN idToEditorMap
            /\ idToEditorMap'[e].pane = p
            /\ \A d \in DOMAIN idToEditorMap \ {e} : idToEditorMap'[d] = idToEditorMap[d]
        BY <2>3, <3>1, <3>3
      <3>5. \A d \in DOMAIN idToEditorMap : idToEditorMap[d].pane # p
        BY <2>1 DEF RInv, OpenedIsOwn
      <3>6. \A s \in Slots : tasks'[s].op \in ReloadOps \cup {"open"}
              => s # t /\ tasks'[s] = tasks[s] /\ tasks[s].pane # p
        <4>1. tasks'[t] = Idle /\ \A s \in Slots \ {t} : tasks'[s] = tasks[s]
          BY <1>0, <2>1 DEF Return
        <4>2. Idle.op \notin ReloadOps \cup {"open"}
          BY DEF Idle, ReloadOps
        <4>3. \A s \in Slots \ {t} : tasks[s].op \in ReloadOps \cup {"open"} => tasks[s].pane # p
          BY <2>1 DEF RInv, OpenedIsOwn
        <4> QED BY <4>1, <4>2, <4>3
      <3> HIDE DEF e, p
      <3>7. ReloadsQuiet'
        <4> SUFFICES ASSUME NEW s \in Slots, tasks'[s].op \in ReloadOps, tasks'[s].pane \in panes',
                            NEW d \in Showing(idToEditorMap', tasks'[s].pane)
                     PROVE  ~ idToEditorMap'[d].shouldRespondToCloseEvents
          BY DEF ReloadsQuiet
        <4>1. tasks'[s] = tasks[s] /\ tasks[s].pane # p
          BY <3>6
        <4>2. d # e /\ d \in DOMAIN idToEditorMap /\ idToEditorMap'[d] = idToEditorMap[d]
          BY <3>4, <4>1 DEF Showing
        <4>3. d \in Showing(idToEditorMap, tasks[s].pane)
          BY <4>1, <4>2 DEF Showing
        <4> QED BY <2>1, <4>1, <4>2, <4>3 DEF RInv, ReloadsQuiet
      <3>8. OpenedIsOwn'
        <4> SUFFICES ASSUME NEW s \in Slots, tasks'[s].op = "open", tasks'[s].pane # NoPane
                     PROVE  /\ \A d \in DOMAIN idToEditorMap' : idToEditorMap'[d].pane # tasks'[s].pane
                            /\ \A u \in Slots \ {s} : tasks'[u].op \in ReloadOps \cup {"open"}
                                 => tasks'[u].pane # tasks'[s].pane
          BY DEF OpenedIsOwn
        <4>1. tasks'[s] = tasks[s] /\ tasks[s].pane # p
          BY <3>6
        <4>2. \A d \in DOMAIN idToEditorMap : idToEditorMap[d].pane # tasks[s].pane
          BY <4>1 DEF RInv, OpenedIsOwn
        <4>3. ASSUME NEW u \in Slots \ {s}, tasks'[u].op \in ReloadOps \cup {"open"}
              PROVE  tasks'[u].pane # tasks'[s].pane
          BY <3>6, <4>1, <4>3 DEF RInv, OpenedIsOwn
        <4> QED BY <3>4, <4>1, <4>2, <4>3
      <3>9. PanesAreOwn'
        <4> SUFFICES ASSUME NEW c \in DOMAIN idToEditorMap', NEW d \in DOMAIN idToEditorMap',
                            idToEditorMap'[c].pane = idToEditorMap'[d].pane, idToEditorMap'[c].pane # NoPane
                     PROVE  c = d
          BY DEF PanesAreOwn
        <4> QED BY <3>4, <3>5 DEF RInv, PanesAreOwn
      <3> QED BY <3>7, <3>8, <3>9 DEF RInv
    <2> QED BY <2>2, <2>3
  <1> QED BY <1>1, <1>2, <1>3, <1>4 DEF Opening

\* A reload silences the one editor that shows its pane.
LEMMA ReloadingQuiet == IInv /\ RInv /\ Reloading => RInv'
  <1> SUFFICES ASSUME IInv, RInv, Reloading PROVE RInv'
    OBVIOUS
  <1>0. tasks \in [Slots -> Task]
    BY DEF IInv, TasksOK
  <1>1. ASSUME NEW t \in Slots, NEW e \in Ids, StartReload(t, e) PROVE RInv'
    <2> DEFINE p == idToEditorMap[e].pane
               x == [Idle EXCEPT !.op = "reload", !.id = e, !.pane = p]
               r == [idToEditorMap[e] EXCEPT !.shouldRespondToCloseEvents = FALSE]
    <2>1. e \in DOMAIN idToEditorMap /\ tasks' = [tasks EXCEPT ![t] = x] /\ p # NoPane
          /\ idToEditorMap' = [idToEditorMap EXCEPT ![e] = r] /\ panes' = panes
      BY <1>1 DEF StartReload, Start, SetMap
    <2>2. x.op = "reload" /\ x.pane = p
      BY DEF Idle
    <2>3. idToEditorMap[e] \in EditorRecord
      BY <2>1, Typed, MapElim
    <2>4. r.pane = p /\ ~ r.shouldRespondToCloseEvents
      BY <2>3 DEF EditorRecord
    <2> HIDE DEF x, r
    <2>5. DOMAIN idToEditorMap' = DOMAIN idToEditorMap /\ idToEditorMap'[e] = r
          /\ \A d \in DOMAIN idToEditorMap \ {e} : idToEditorMap'[d] = idToEditorMap[d]
      BY <2>1
    <2>6. \A d \in DOMAIN idToEditorMap : idToEditorMap'[d].pane = idToEditorMap[d].pane
      BY <2>4, <2>5
    <2>7. tasks'[t] = x /\ \A s \in Slots \ {t} : tasks'[s] = tasks[s]
      BY <1>0, <2>1
    <2>8. \A d \in DOMAIN idToEditorMap : idToEditorMap[d].pane = p => d = e
      BY <2>1 DEF RInv, PanesAreOwn
    <2> HIDE DEF p
    <2>9. ReloadsQuiet'
      <3> SUFFICES ASSUME NEW s \in Slots, tasks'[s].op \in ReloadOps, tasks'[s].pane \in panes',
                          NEW d \in Showing(idToEditorMap', tasks'[s].pane), d # e
                   PROVE  ~ idToEditorMap'[d].shouldRespondToCloseEvents
        BY <2>4, <2>5 DEF ReloadsQuiet
      <3>1. d \in DOMAIN idToEditorMap /\ idToEditorMap'[d] = idToEditorMap[d]
            /\ idToEditorMap[d].pane = tasks'[s].pane
        BY <2>5 DEF Showing
      <3>2. s # t
        BY <2>2, <2>7, <2>8, <3>1
      <3>3. tasks'[s] = tasks[s]
        BY <2>7, <3>2
      <3>4. d \in Showing(idToEditorMap, tasks[s].pane)
        BY <3>1, <3>3 DEF Showing
      <3> QED BY <2>1, <3>1, <3>3, <3>4 DEF RInv, ReloadsQuiet
    <2>10. OpenedIsOwn'
      <3> SUFFICES ASSUME NEW s \in Slots, tasks'[s].op = "open", tasks'[s].pane # NoPane
                   PROVE  /\ \A d \in DOMAIN idToEditorMap' : idToEditorMap'[d].pane # tasks'[s].pane
                          /\ \A u \in Slots \ {s} : tasks'[u].op \in ReloadOps \cup {"open"}
                               => tasks'[u].pane # tasks'[s].pane
        BY DEF OpenedIsOwn
      <3>1. s # t /\ tasks'[s] = tasks[s]
        BY <2>2, <2>7
      <3>2. \A d \in DOMAIN idToEditorMap : idToEditorMap[d].pane # tasks[s].pane
        BY <3>1 DEF RInv, OpenedIsOwn
      <3>3. p # tasks[s].pane
        BY <2>1, <3>2 DEF p
      <3>4. ASSUME NEW u \in Slots \ {s}, tasks'[u].op \in ReloadOps \cup {"open"}
            PROVE  tasks'[u].pane # tasks'[s].pane
        <4>1. CASE u = t
          BY <2>2, <2>7, <3>1, <3>3, <4>1
        <4>2. CASE u # t
          BY <2>7, <3>1, <3>4, <4>2 DEF RInv, OpenedIsOwn
        <4> QED BY <4>1, <4>2
      <3> QED BY <2>5, <2>6, <3>1, <3>2, <3>4
    <2>11. PanesAreOwn'
      BY <2>5, <2>6 DEF RInv, PanesAreOwn
    <2> QED BY <2>9, <2>10, <2>11 DEF RInv
  <1>2. ASSUME NEW t \in Slots, ReloadCloses(t) PROVE RInv'
    <2>1. PICK op, m : op \in ReloadOps /\ tasks' = [tasks EXCEPT ![t] = [tasks[t] EXCEPT !.op = op, !.map = m]]
      <3> DEFINE refresh == tasks[t].id \in DOMAIN idToEditorMap /\ idToEditorMap[tasks[t].id].ranged
                 op == IF refresh THEN "refreshEditRange" ELSE "reopen"
      <3>1. op \in ReloadOps
        BY DEF ReloadOps
      <3> QED BY <1>2, <3>1 DEF ReloadCloses, Continue
    <2>2. tasks[t].op = "reload" /\ tasks[t] \in Task
      BY <1>0, <1>2 DEF ReloadCloses
    <2>3. TaskTame(t, [tasks[t] EXCEPT !.op = op, !.map = m])
      BY <2>1, <2>2 DEF TaskTame, Task, ReloadOps
    <2>4. \A s \in Slots : TaskTame(s, tasks'[s])
      BY <2>1, <2>3, OneMoves
    <2> QED BY <1>2, <2>4, KeepTame, TameStep DEF ReloadCloses
  <1>3. ASSUME NEW t \in Slots, Reopen(t) PROVE RInv'
    <2>1. MapTame(idToEditorMap') /\ panes' \subseteq panes /\ Return(t)
      BY <1>3 DEF Reopen, SetMap, MapTame
    <2> QED BY <2>1, OneReturns, TameStep
  <1>4. ASSUME NEW t \in Slots, NEW ranged \in BOOLEAN, refreshEditRangeInTime(t, ranged) PROVE RInv'
    <2> DEFINE x == [tasks[t] EXCEPT !.op = "reopen", !.map = EmptyMap]
               e == tasks[t].id
    <2>1. tasks[t].op = "refreshEditRange" /\ tasks[t] \in Task /\ tasks' = [tasks EXCEPT ![t] = x]
          /\ idToEditorMap' = [idToEditorMap EXCEPT ![e].ranged = ranged] /\ panes' = panes
      BY <1>0, <1>4 DEF refreshEditRangeInTime, refreshEditRange, Continue, SetMap
    <2>2. TaskTame(t, x)
      BY <2>1 DEF TaskTame, Task, ReloadOps
    <2> HIDE DEF x, e
    <2>3. \A s \in Slots : TaskTame(s, tasks'[s])
      BY <2>1, <2>2, OneMoves
    <2>4. \A d \in DOMAIN idToEditorMap : idToEditorMap[d] \in EditorRecord
      BY Typed, MapElim
    <2>5. MapTame(idToEditorMap')
      BY <2>1, <2>4 DEF MapTame, EditorRecord
    <2> QED BY <2>1, <2>3, <2>5, TameStep
  <1> QED BY <1>1, <1>2, <1>3, <1>4 DEF Reloading

\* RInv holds of every behaviour without stale writes.
LEMMA ReloadInvariant == Spec => []RInv
  <1>1. Init => RInv
    BY EmptyMapType DEF Init, RInv, ReloadsQuiet, OpenedIsOwn, PanesAreOwn, Idle, ReloadOps
  <1>2. IInv /\ RInv /\ [Next]_vars => RInv'
    <2> SUFFICES ASSUME IInv, RInv, [Next]_vars PROVE RInv'
      OBVIOUS
    <2>1. CASE UNCHANGED vars
      BY <2>1, NoneMoves, TameStep DEF vars, MapTame
    <2>2. CASE Next
      BY <2>2, InsertingQuiet, OpeningQuiet, ClosingQuiet, ReloadingQuiet, SelectingQuiet DEF Next
    <2> QED BY <2>1, <2>2
  <1> QED BY <1>1, <1>2, SpecInvariant, PTL DEF Spec

\* The close of the old pane that a reload (Cmd+R) asks for never takes the reloaded editor
\* off the canvas: shouldRespondToCloseEvents, set false when the reload starts, is still
\* false when onDidCloseEditor fires, whatever opened, closed or was reloaded in between.
THEOREM ReloadsKeep == Spec => ReloadKeepsEditor
  <1>1. ASSUME IInv, RInv, [Next]_vars PROVE [ReloadKeeps]_vars
    <2> SUFFICES ASSUME NEW t \in Slots, NEW p \in Panes, tasks[t].op \in {"refreshEditRange", "reopen"},
                        tasks[t].pane = p, closeFileEditor(p)
                 PROVE  DOMAIN idToEditorMap' = DOMAIN idToEditorMap
      BY DEF ReloadKeeps
    <2>1. CASE KeepMap \/ p \notin panes
      BY <2>1 DEF closeFileEditor, ClosePane, SetMap, KeepMap
    <2>2. CASE ClosePane(p) /\ p \in panes
      <3>1. idToEditorMap' = respondToEditorClosing(idToEditorMap, p)
        BY <2>2 DEF ClosePane, SetMap
      <3>2. \A e \in Showing(idToEditorMap, p) : ~ idToEditorMap[e].shouldRespondToCloseEvents
        BY <1>1, <2>2 DEF RInv, ReloadsQuiet, ReloadOps
      <3> QED BY <3>1, <3>2 DEF respondToEditorClosing
    <2> QED BY <2>1, <2>2 DEF closeFileEditor
  <1>2. Spec => [][Next]_vars
    BY DEF Spec
  <1> QED BY <1>1, <1>2, SpecInvariant, ReloadInvariant, PTL DEF ReloadKeepsEditor
-----------------------------------------------------------------------------
\* The editors a bulk close started with, has dealt with, and that are off the canvas M;
\* the one whose pane it has asked to close is not dealt with yet.
Gone(x, M) == {e \in x.started \ x.todo : e \notin M /\ ~ (x.answer # "none" /\ x.id = e)}

\* A bulk close among the uuids U, on canvas M.  Opening a workspace stops at the first
\* refusal, so it has lost every editor it has dealt with; a delete goes on, but counts
\* only editors that are gone, each once.
GoodBulk(x, M, U) ==
  x.op \in BulkOps =>
    /\ x.started \subseteq U
    /\ x.todo \subseteq x.started
    /\ x.answer # "none" => x.id \in x.started \ x.todo
    /\ x.op = "openWorkspace" =>
         \A e \in x.started \ x.todo : e \in Gone(x, M) \/ (x.answer # "none" /\ x.id = e)
    /\ x.op = "delete" => x.deleted <= Cardinality(Gone(x, M))

BInv ==
  /\ DOMAIN idToEditorMap \subseteq minted
  /\ selection \subseteq minted
  /\ \A t \in Slots : GoodBulk(tasks[t], DOMAIN idToEditorMap, minted)

\* More editors gone count for more.
LEMMA Counted ==
  ASSUME NEW A, NEW B \in SUBSET Ids, A \subseteq B
  PROVE  Cardinality(A) \in Nat /\ Cardinality(B) \in Nat /\ Cardinality(A) <= Cardinality(B)
  <1>1. IsFiniteSet(B)
    BY FS_Subset
  <1>2. IsFiniteSet(A) /\ Cardinality(A) <= Cardinality(B)
    BY <1>1, FS_Subset
  <1> QED BY <1>1, <1>2, FS_CardinalityType

\* The editors that are gone were on the canvas when the call started.
LEMMA GoneType ==
  ASSUME NEW x \in Task, NEW M
  PROVE  Gone(x, M) \in SUBSET Ids /\ Gone(x, M) \subseteq x.started
  BY DEF Gone, Task

\* A call stays good while others run: no editor it has seen comes back.
LEMMA BulkStays ==
  ASSUME NEW x \in Task, NEW M, NEW N, NEW U, NEW V, GoodBulk(x, M, U), U \subseteq V,
         (N \ M) \cap U = {}
  PROVE  GoodBulk(x, N, V)
  <1> SUFFICES ASSUME x.op \in BulkOps PROVE GoodBulk(x, N, V)
    BY DEF GoodBulk
  <1>1. Gone(x, M) \subseteq Gone(x, N)
    BY DEF Gone, GoodBulk
  <1>2. Cardinality(Gone(x, M)) \in Nat /\ Cardinality(Gone(x, N)) \in Nat
        /\ Cardinality(Gone(x, M)) <= Cardinality(Gone(x, N))
    BY <1>1, GoneType, Counted
  <1>3. x.deleted \in Nat
    BY DEF Task
  <1> DEFINE c == Cardinality(Gone(x, M))
             d == Cardinality(Gone(x, N))
  <1>4. x.op = "delete" => x.deleted <= c
    BY DEF GoodBulk
  <1>5. x.op = "delete" => x.deleted <= d
    <2> HIDE DEF c, d
    <2>1. c \in Nat /\ d \in Nat /\ c <= d
      BY <1>2 DEF c, d
    <2> QED BY <1>3, <1>4, <2>1
  <1> QED BY <1>1, <1>5 DEF GoodBulk

\* The moves of a bulk close, with the canvas M after the move.  The answer arrives.
LEMMA BulkAnswered ==
  ASSUME NEW x \in Task, NEW M, NEW U, GoodBulk(x, M, U), x.answer # "none", NEW a \in Answers, a # "none"
  PROVE  GoodBulk([x EXCEPT !.answer = a], M, U)
  <1> DEFINE y == [x EXCEPT !.answer = a]
  <1>1. y.op = x.op /\ y.id = x.id /\ y.todo = x.todo /\ y.started = x.started /\ y.answer = a
        /\ y.deleted = x.deleted
    BY DEF Task
  <1> HIDE DEF y
  <1>2. Gone(y, M) = Gone(x, M)
    BY <1>1 DEF Gone
  <1>3. GoodBulk(y, M, U)
    BY <1>1, <1>2 DEF GoodBulk
  <1> QED BY <1>3 DEF y

\* The pane of the next editor is asked to close.
LEMMA BulkAsks ==
  ASSUME NEW x \in Task, NEW M, NEW U, GoodBulk(x, M, U), x.op \in BulkOps, x.answer = "none",
         NEW e \in x.todo, NEW p, NEW a, a # "none"
  PROVE  GoodBulk([x EXCEPT !.id = e, !.pane = p, !.todo = @ \ {e}, !.answer = a], M, U)
  <1> DEFINE y == [x EXCEPT !.id = e, !.pane = p, !.todo = @ \ {e}, !.answer = a]
  <1>1. y.op = x.op /\ y.id = e /\ y.todo = x.todo \ {e} /\ y.started = x.started /\ y.answer = a
        /\ y.deleted = x.deleted
    BY DEF Task
  <1> HIDE DEF y
  <1>2. Gone(y, M) = Gone(x, M)
    BY <1>1 DEF Gone, GoodBulk
  <1>3. GoodBulk(y, M, U)
    BY <1>1, <1>2 DEF GoodBulk
  <1> QED BY <1>3 DEF y

\* The next editor has no pane and goes at once.
LEMMA BulkDrops ==
  ASSUME NEW x \in Task, NEW M, NEW U, GoodBulk(x, M, U), x.op \in BulkOps, x.answer = "none",
         NEW e \in x.todo, e \notin M
  PROVE  GoodBulk([x EXCEPT !.todo = @ \ {e}], M, U)
  <1> DEFINE y == [x EXCEPT !.todo = @ \ {e}]
             c == Cardinality(Gone(x, M))
             d == Cardinality(Gone(y, M))
  <1>1. y.op = x.op /\ y.id = x.id /\ y.todo = x.todo \ {e} /\ y.started = x.started /\ y.answer = x.answer
        /\ y.deleted = x.deleted /\ x.deleted \in Nat /\ y \in Task
    BY DEF Task
  <1> HIDE DEF y
  <1>2. Gone(x, M) \subseteq Gone(y, M) /\ (e \in x.started => e \in Gone(y, M))
    BY <1>1 DEF Gone, GoodBulk
  <1>3. c \in Nat /\ d \in Nat /\ c <= d
    BY <1>1, <1>2, GoneType, Counted
  <1>4. x.op = "delete" => x.deleted <= c
    BY DEF GoodBulk
  <1>5. x.op = "delete" => x.deleted <= d
    <2> HIDE DEF c, d
    <2> QED BY <1>1, <1>3, <1>4
  <1>6. GoodBulk(y, M, U)
    BY <1>1, <1>2, <1>5 DEF GoodBulk
  <1> QED BY <1>6 DEF y

\* The pane has closed, the editor is off the canvas: one more is counted.
LEMMA BulkCounts ==
  ASSUME NEW x \in Task, NEW M, NEW U, GoodBulk(x, M, U), x.op \in BulkOps, x.answer # "none",
         x.id \notin M
  PROVE  GoodBulk([x EXCEPT !.id = NoId, !.pane = NoPane, !.answer = "none", !.deleted = @ + 1], M, U)
  <1> DEFINE y == [x EXCEPT !.id = NoId, !.pane = NoPane, !.answer = "none", !.deleted = @ + 1]
             A == Gone(x, M)
             B == Gone(y, M)
  <1>1. y.op = x.op /\ y.id = NoId /\ y.todo = x.todo /\ y.started = x.started /\ y.answer = "none"
        /\ y.deleted = x.deleted + 1 /\ x.deleted \in Nat
    BY DEF Task
  <1> HIDE DEF y
  <1>2. B = A \cup {x.id} /\ x.id \notin A
    BY <1>1 DEF Gone, GoodBulk
  <1>3. IsFiniteSet(A)
    BY GoneType, FS_Subset
  <1>4. x.op = "delete" => x.deleted <= Cardinality(A)
    BY DEF GoodBulk
  <1> HIDE DEF A, B
  <1>5. Cardinality(A) \in Nat /\ Cardinality(B) = Cardinality(A) + 1
    BY <1>2, <1>3, FS_AddElement, FS_CardinalityType
  <1>6. x.op = "delete" => y.deleted <= Cardinality(B)
    BY <1>1, <1>2, <1>4, <1>5
  <1>7. x.op = "openWorkspace" => \A e \in y.started \ y.todo : e \in B
    BY <1>1, <1>2 DEF A, GoodBulk
  <1>8. GoodBulk(y, M, U)
    BY <1>1, <1>6, <1>7 DEF B, GoodBulk
  <1> QED BY <1>8 DEF y

\* The user keeps the pane: a delete and a close of all editors go on.
LEMMA BulkRefused ==
  ASSUME NEW x \in Task, NEW M, NEW U, GoodBulk(x, M, U), x.op # "openWorkspace"
  PROVE  GoodBulk([x EXCEPT !.id = NoId, !.pane = NoPane, !.answer = "none"], M, U)
  <1> DEFINE y == [x EXCEPT !.id = NoId, !.pane = NoPane, !.answer = "none"]
             c == Cardinality(Gone(x, M))
             d == Cardinality(Gone(y, M))
  <1>1. y.op = x.op /\ y.todo = x.todo /\ y.started = x.started /\ y.answer = "none"
        /\ y.deleted = x.deleted /\ x.deleted \in Nat
    BY DEF Task
  <1> HIDE DEF y
  <1>2. Gone(x, M) \subseteq Gone(y, M) /\ Gone(y, M) \in SUBSET Ids
    BY <1>1 DEF Gone, Task
  <1>3. c \in Nat /\ d \in Nat /\ c <= d
    BY <1>2, Counted
  <1>4. x.op = "delete" => x.deleted <= c
    BY DEF GoodBulk, BulkOps
  <1>5. x.op = "delete" => x.deleted <= d
    <2> HIDE DEF c, d
    <2> QED BY <1>1, <1>3, <1>4
  <1>6. GoodBulk(y, M, U)
    BY <1>1, <1>5 DEF GoodBulk
  <1> QED BY <1>6 DEF y

\* The editors of the canvas and of the selection have uuids that were generated.
Known == DOMAIN idToEditorMap \subseteq minted /\ selection \subseteq minted

LEMMA KnownStep == Known /\ Next => Known' /\ minted \subseteq minted'
  <1> SUFFICES ASSUME Known, Next PROVE Known' /\ minted \subseteq minted'
    OBVIOUS
  <1>1. ASSUME DOMAIN idToEditorMap' \subseteq DOMAIN idToEditorMap, UNCHANGED minted,
               selection' \subseteq selection \cup DOMAIN idToEditorMap
        PROVE  Known' /\ minted \subseteq minted'
    BY <1>1 DEF Known
  <1>2. ASSUME NEW e, NEW x, NEW s \in BOOLEAN, Appear(idToEditorMap, e, x, s)
        PROVE  Known' /\ minted \subseteq minted'
    BY <1>2 DEF Appear, SetMap, With, Known
  <1>3. ASSUME NEW p, ClosePane(p) PROVE DOMAIN idToEditorMap' \subseteq DOMAIN idToEditorMap
    BY <1>3 DEF ClosePane, SetMap, respondToEditorClosing
  <1>4. ASSUME NEW S, SetMap(Without(idToEditorMap, S), {})
        PROVE  DOMAIN idToEditorMap' \subseteq DOMAIN idToEditorMap
    BY <1>4 DEF SetMap, Without
  <1>5. CASE Inserting
    BY <1>1, <1>2, <1>5 DEF Inserting, KeepMap, StartInsert, insertEditorAtCenterOfViewport,
       insertModalEditorAtCenterOfViewport, insertEditorAtPosition, StartAdjacent, insertAdjacentEditor
  <1>6. CASE Opening
    BY <1>1, <1>6 DEF Opening, KeepMap, RunEffect, CreatePane, CreateFails, openEditorForCanvasEditor, SetMap
  <1>7. CASE Closing
    BY <1>1, <1>3, <1>4, <1>7 DEF Closing, KeepMap, onDidCloseEditor, closeFileEditor, Answer, StartClose,
       AskClose, closeEditor, StartDelete, StartCloseAll, StartOpenWorkspace, StartBulk, Visit,
       Visited, Refused, BulkEnd
  <1>8. CASE Reloading
    BY <1>1, <1>8 DEF Reloading, KeepMap, StartReload, ReloadCloses, refreshEditRangeInTime,
       refreshEditRange, Reopen, SetMap
  <1>9. CASE Selecting
    BY <1>1, <1>9 DEF Selecting, KeepMap, selectEditor, deselectEditor, selectAllEditors, clearSelection,
       Select, Pin, SetMap
  <1> QED BY <1>5, <1>6, <1>7, <1>8, <1>9 DEF Next

\* A step may move a call that is no bulk close, or a bulk close in the ways above.
BulkStep == \A t \in Slots :
  \/ tasks'[t] = tasks[t]
  \/ tasks'[t].op \notin BulkOps
  \/ GoodBulk(tasks'[t], DOMAIN idToEditorMap', minted')

LEMMA OneBulk ==
  ASSUME IInv, NEW t \in Slots, NEW x, tasks' = [tasks EXCEPT ![t] = x],
         x.op \notin BulkOps \/ GoodBulk(x, DOMAIN idToEditorMap', minted')
  PROVE  BulkStep
  <1>1. tasks \in [Slots -> Task]
    BY DEF IInv, TasksOK
  <1>2. \A s \in Slots : (s = t /\ tasks'[s] = x) \/ tasks'[s] = tasks[s]
    BY <1>1
  <1> QED BY <1>2 DEF BulkStep

LEMMA ReturnedBulk == ASSUME IInv, NEW t \in Slots, Return(t) PROVE BulkStep
  <1>1. Idle.op \notin BulkOps
    BY DEF Idle, BulkOps
  <1> QED BY <1>1, OneBulk DEF Return

LEMMA SameBulk == UNCHANGED tasks => BulkStep
  BY DEF BulkStep

\* Every call, before it moves, is good for the canvas after the step.
LEMMA StillGood ==
  ASSUME IInv, BInv, Next, NEW t \in Slots
  PROVE  GoodBulk(tasks[t], DOMAIN idToEditorMap', minted') /\ tasks[t] \in Task
  <1>1. minted \subseteq minted' /\ (DOMAIN idToEditorMap' \ DOMAIN idToEditorMap) \cap minted = {}
    BY AppearsNew, KnownStep DEF BInv, Known, Resurrects
  <1> QED BY <1>1, TaskKnown, BulkStays DEF BInv

\* The steps of the calls that close no editors.
LEMMA OtherBulkSteps == IInv /\ (Inserting \/ Opening \/ Reloading \/ Selecting) => BulkStep
  <1> SUFFICES ASSUME IInv, Inserting \/ Opening \/ Reloading \/ Selecting PROVE BulkStep
    OBVIOUS
  <1>0. \A t \in Slots : tasks[t] \in Task
    BY TaskKnown
  <1>1. CASE Inserting
    <2>1. ASSUME NEW t \in Slots, NEW type \in Types, StartInsert(t, type) PROVE BulkStep
      <3>1. [Idle EXCEPT !.op = "insert", !.type = type].op \notin BulkOps
        BY DEF Idle, BulkOps
      <3> QED BY <2>1, <3>1, OneBulk DEF StartInsert, Start
    <2>2. ASSUME NEW t \in Slots, NEW beside \in Ids, StartAdjacent(t, beside) PROVE BulkStep
      <3>1. [Idle EXCEPT !.op = "insertAdjacent", !.id = beside].op \notin BulkOps
        BY DEF Idle, BulkOps
      <3> QED BY <2>2, <3>1, OneBulk DEF StartAdjacent, Start
    <2> QED BY <1>1, <2>1, <2>2, ReturnedBulk, SameBulk DEF Inserting, insertEditorAtCenterOfViewport,
         insertModalEditorAtCenterOfViewport, insertEditorAtPosition, insertAdjacentEditor
  <1>2. CASE Opening
    <2>1. ASSUME NEW t \in Slots, NEW e \in Ids, RunEffect(t, e) PROVE BulkStep
      <3> DEFINE diff == idToEditorMap[e].type = "DIFF_EDITOR"
                 x == [Idle EXCEPT !.op = IF diff THEN "openDiff" ELSE "open", !.id = e,
                                   !.map = IF diff THEN idToEditorMap ELSE EmptyMap]
      <3>1. tasks' = [tasks EXCEPT ![t] = x]
        BY <2>1 DEF RunEffect, Start
      <3>2. x.op \notin BulkOps
        BY DEF Idle, BulkOps
      <3> HIDE DEF x
      <3> QED BY <3>1, <3>2, OneBulk
    <2>2. ASSUME NEW t \in Slots, NEW p \in Panes, CreatePane(t, p) PROVE BulkStep
      <3>1. [tasks[t] EXCEPT !.pane = p].op \notin BulkOps
        BY <1>0, <2>2 DEF CreatePane, BulkOps, Task
      <3> QED BY <2>2, <3>1, OneBulk DEF CreatePane, Continue
    <2> QED BY <1>2, <2>1, <2>2, ReturnedBulk DEF Opening, CreateFails, openEditorForCanvasEditor
  <1>3. CASE Reloading
    <2>1. ASSUME NEW t \in Slots, NEW e \in Ids, StartReload(t, e) PROVE BulkStep
      <3>1. [Idle EXCEPT !.op = "reload", !.id = e, !.pane = idToEditorMap[e].pane].op \notin BulkOps
        BY DEF Idle, BulkOps
      <3> QED BY <2>1, <3>1, OneBulk DEF StartReload, Start
    <2>2. ASSUME NEW t \in Slots, ReloadCloses(t) PROVE BulkStep
      <3>1. PICK op, m : op \in ReloadOps /\ tasks' = [tasks EXCEPT ![t] = [tasks[t] EXCEPT !.op = op, !.map = m]]
        <4> DEFINE refresh == tasks[t].id \in DOMAIN idToEditorMap /\ idToEditorMap[tasks[t].id].ranged
                   op == IF refresh THEN "refreshEditRange" ELSE "reopen"
        <4>1. op \in ReloadOps
          BY DEF ReloadOps
        <4> QED BY <2>2, <4>1 DEF ReloadCloses, Continue
      <3>2. [tasks[t] EXCEPT !.op = op, !.map = m].op \notin BulkOps
        BY <1>0, <3>1 DEF ReloadOps, BulkOps, Task
      <3> QED BY <3>1, <3>2, OneBulk
    <2>3. ASSUME NEW t \in Slots, NEW ranged \in BOOLEAN, refreshEditRangeInTime(t, ranged) PROVE BulkStep
      <3>1. [tasks[t] EXCEPT !.op = "reopen", !.map = EmptyMap].op \notin BulkOps
        BY <1>0 DEF BulkOps, Task
      <3> QED BY <2>3, <3>1, OneBulk DEF refreshEditRangeInTime, refreshEditRange, Continue
    <2> QED BY <1>3, <2>1, <2>2, <2>3, ReturnedBulk DEF Reloading, Reopen
  <1>4. CASE Selecting
    BY <1>4, SameBulk DEF Selecting, selectEditor, deselectEditor, selectAllEditors, clearSelection, Select, Pin
  <1> QED BY <1>1, <1>2, <1>3, <1>4

\* A bulk close starts with editors that have uuids, and none of them dealt with but those
\* of the selection that are not on the canvas.
LEMMA BulkStarted ==
  ASSUME IInv, Known, NEW t \in Slots, NEW op \in BulkOps, NEW S, NEW started, StartBulk(t, op, S, started),
         S \subseteq started, started \subseteq minted, started \subseteq Ids,
         op = "openWorkspace" => started = S
  PROVE  BulkStep
  <1> DEFINE x == [Idle EXCEPT !.op = op, !.map = idToEditorMap, !.todo = S, !.started = started]
             c == Cardinality(Gone(x, DOMAIN idToEditorMap'))
  <1>1. x.op = op /\ x.todo = S /\ x.started = started /\ x.answer = "none" /\ x.deleted = 0
    BY DEF Idle
  <1>2. tasks' = [tasks EXCEPT ![t] = x] /\ minted' = minted
    BY DEF StartBulk, Start
  <1> HIDE DEF x
  <1>3. Gone(x, DOMAIN idToEditorMap') \in SUBSET Ids
    BY <1>1 DEF Gone
  <1>4. c \in Nat
    BY <1>3, Counted
  <1> HIDE DEF c
  <1>5. 0 <= c
    BY <1>4
  <1>6. GoodBulk(x, DOMAIN idToEditorMap', minted')
    BY <1>1, <1>2, <1>5 DEF GoodBulk, c
  <1> QED BY <1>2, <1>6, OneBulk

LEMMA ClosingBulkSteps == IInv /\ BInv /\ Closing => BulkStep
  <1> SUFFICES ASSUME IInv, BInv, Closing PROVE BulkStep
    OBVIOUS
  <1> DEFINE M == DOMAIN idToEditorMap'
  <1>0. /\ \A t \in Slots : GoodBulk(tasks[t], M, minted') /\ tasks[t] \in Task
        /\ Known
    BY StillGood DEF Next, BInv, Known
  <1>1. ASSUME NEW p \in Panes, onDidCloseEditor(p) \/ closeFileEditor(p) PROVE BulkStep
    BY <1>1, SameBulk DEF onDidCloseEditor, closeFileEditor
  <1>2. ASSUME NEW t \in Slots, Answer(t) PROVE BulkStep
    <2>1. PICK a \in Answers : a # "none" /\ tasks' = [tasks EXCEPT ![t] = [tasks[t] EXCEPT !.answer = a]]
      BY <1>2 DEF Answer, Continue, Answers
    <2>2. GoodBulk([tasks[t] EXCEPT !.answer = a], M, minted')
      BY <1>0, <1>2, <2>1, BulkAnswered DEF Answer
    <2> QED BY <2>1, <2>2, OneBulk
  <1>3. ASSUME NEW t \in Slots, AskClose(t) PROVE BulkStep
    <2>1. PICK a \in Answers : a # "none" /\ tasks' = [tasks EXCEPT ![t] = [tasks[t] EXCEPT !.answer = a]]
      BY <1>3 DEF AskClose, Continue, Answers, Asked
    <2>2. GoodBulk([tasks[t] EXCEPT !.answer = a], M, minted')
      BY <1>0, <1>3, <2>1, BulkAnswered DEF AskClose
    <2> QED BY <2>1, <2>2, OneBulk
  <1>4. ASSUME NEW t \in Slots, NEW e \in Ids, StartClose(t, e) PROVE BulkStep
    <2>1. PICK p, a : tasks' = [tasks EXCEPT ![t] = [Idle EXCEPT !.op = "close", !.id = e,
                                                                !.pane = p, !.answer = a]]
      BY <1>4 DEF StartClose, Start
    <2>2. [Idle EXCEPT !.op = "close", !.id = e, !.pane = p, !.answer = a].op \notin BulkOps
      BY DEF Idle, BulkOps
    <2> QED BY <2>1, <2>2, OneBulk
  <1>5. ASSUME NEW t \in Slots, closeEditor(t) \/ BulkEnd(t) PROVE BulkStep
    BY <1>5, ReturnedBulk DEF closeEditor, BulkEnd
  <1>6. ASSUME NEW t \in Slots, StartDelete(t) PROVE BulkStep
    BY <1>0, <1>6, Typed, BulkStarted DEF StartDelete, BulkOps, Known
  <1>7. ASSUME NEW t \in Slots, StartCloseAll(t) PROVE BulkStep
    BY <1>0, <1>7, Typed, MapElim, BulkStarted DEF StartCloseAll, BulkOps, Known
  <1>8. ASSUME NEW t \in Slots, StartOpenWorkspace(t) PROVE BulkStep
    BY <1>0, <1>8, Typed, MapElim, BulkStarted DEF StartOpenWorkspace, BulkOps, Known
  <1>9. ASSUME NEW t \in Slots, NEW e \in Ids, Visit(t, e) PROVE BulkStep
    <2>1. tasks[t].op \in BulkOps /\ tasks[t].answer = "none" /\ e \in tasks[t].todo
      BY <1>9 DEF Visit
    <2>2. CASE HasPane(tasks[t].map[e])
      <3>1. PICK p, a : a # "none" /\ tasks' = [tasks EXCEPT ![t] =
              [tasks[t] EXCEPT !.id = e, !.pane = p, !.todo = @ \ {e}, !.answer = a]]
        <4>1. Asked(tasks[t].map[e].pane) # "none"
          BY DEF Asked
        <4> QED BY <1>9, <2>2, <4>1 DEF Visit, Continue
      <3>2. GoodBulk([tasks[t] EXCEPT !.id = e, !.pane = p, !.todo = @ \ {e}, !.answer = a], M, minted')
        BY <1>0, <2>1, <3>1, BulkAsks
      <3> QED BY <3>1, <3>2, OneBulk
    <2>3. CASE ~ HasPane(tasks[t].map[e])
      <3>1. tasks' = [tasks EXCEPT ![t] = [tasks[t] EXCEPT !.todo = @ \ {e}]] /\ e \notin M
        BY <1>9, <2>3 DEF Visit, Continue, SetMap, Without
      <3>2. GoodBulk([tasks[t] EXCEPT !.todo = @ \ {e}], M, minted')
        BY <1>0, <2>1, <3>1, BulkDrops
      <3> QED BY <3>1, <3>2, OneBulk
    <2> QED BY <2>2, <2>3
  <1>10. ASSUME NEW t \in Slots, Visited(t) PROVE BulkStep
    <2> DEFINE x == [tasks[t] EXCEPT !.id = NoId, !.pane = NoPane, !.answer = "none", !.deleted = @ + 1]
    <2>1. tasks' = [tasks EXCEPT ![t] = x] /\ tasks[t].id \notin M /\ tasks[t].op \in BulkOps
          /\ tasks[t].answer = "yes"
      BY <1>10 DEF Visited, Continue, SetMap, Without
    <2>2. GoodBulk(x, M, minted')
      BY <1>0, <2>1, BulkCounts
    <2> QED BY <2>1, <2>2, OneBulk
  <1>11. ASSUME NEW t \in Slots, Refused(t) PROVE BulkStep
    <2> DEFINE x == [tasks[t] EXCEPT !.id = NoId, !.pane = NoPane, !.answer = "none"]
    <2>1. Return(t) \/ (tasks' = [tasks EXCEPT ![t] = x] /\ tasks[t].op # "openWorkspace")
      BY <1>11 DEF Refused, Continue
    <2>2. CASE tasks[t].op # "openWorkspace" /\ tasks' = [tasks EXCEPT ![t] = x]
      <3>1. GoodBulk(x, M, minted')
        BY <1>0, <2>2, BulkRefused
      <3> QED BY <2>2, <3>1, OneBulk
    <2> QED BY <2>1, <2>2, ReturnedBulk
  <1> QED BY <1>1, <1>2, <1>3, <1>4, <1>5, <1>6, <1>7, <1>8, <1>9, <1>10, <1>11 DEF Closing

\* BInv holds of every behaviour without stale writes.
LEMMA BulkInvariant == Spec => []BInv
  <1>1. Init => BInv
    BY EmptyMapType DEF Init, BInv, GoodBulk, Idle, BulkOps
  <1>2. IInv /\ BInv /\ [Next]_vars => BInv'
    <2> SUFFICES ASSUME IInv, BInv, [Next]_vars PROVE BInv'
      OBVIOUS
    <2>1. CASE UNCHANGED vars
      BY <2>1 DEF vars, BInv
    <2>2. CASE Next
      <3>1. BulkStep
        BY <2>2, OtherBulkSteps, ClosingBulkSteps DEF Next
      <3>2. \A t \in Slots : GoodBulk(tasks[t], DOMAIN idToEditorMap', minted')
        BY <2>2, StillGood
      <3>3. \A t \in Slots : GoodBulk(tasks'[t], DOMAIN idToEditorMap', minted')
        <4>1. \A x : x.op \notin BulkOps => GoodBulk(x, DOMAIN idToEditorMap', minted')
          BY DEF GoodBulk
        <4> QED BY <3>1, <3>2, <4>1 DEF BulkStep
      <3>4. Known'
        BY <2>2, KnownStep DEF BInv, Known
      <3> QED BY <3>3, <3>4 DEF BInv, Known
    <2> QED BY <2>1, <2>2
  <1> QED BY <1>1, <1>2, SpecInvariant, PTL DEF Spec

\* When openCanvasWorkspace goes on to the new workspace, every editor the old canvas had
\* when it started has left it; and deleteEditorsInSelection clears the selection only if
\* every editor it held has: numDeletedEditors never counts one that is still there, nor
\* one twice, whatever runs while the user is asked.
THEOREM BulkClosesComplete == Spec => BulkCloseIsComplete
  <1>1. ASSUME IInv, BInv, [Next]_vars PROVE [BulkIsComplete]_vars
    <2> SUFFICES ASSUME NEW t \in Slots, BulkEnd(t),
                        tasks[t].op = "openWorkspace" \/ (tasks[t].op = "delete" /\ selection' # selection)
                 PROVE  tasks[t].started \cap DOMAIN idToEditorMap = {}
      BY DEF BulkIsComplete
    <2> DEFINE x == tasks[t]
               A == Gone(x, DOMAIN idToEditorMap)
    <2>1. GoodBulk(x, DOMAIN idToEditorMap, minted) /\ x \in Task
      BY <1>1, TaskKnown DEF BInv
    <2>2. x.op \in BulkOps /\ x.answer = "none" /\ x.todo = {}
      BY DEF BulkEnd
    <2>3. CASE x.op = "openWorkspace"
      BY <2>1, <2>2, <2>3 DEF GoodBulk, Gone
    <2>4. CASE x.op = "delete" /\ selection' # selection
      <3>1. x.deleted = Cardinality(x.started)
        BY <2>4 DEF BulkEnd
      <3>2. Cardinality(x.started) <= Cardinality(A)
        BY <2>1, <2>2, <2>4, <3>1 DEF GoodBulk
      <3>3. A \subseteq x.started /\ x.started \in SUBSET Ids
        BY <2>1, GoneType DEF Task
      <3> HIDE DEF A, x
      <3>4. IsFiniteSet(x.started)
        BY <3>3, FS_Subset
      <3>5. Cardinality(A) \in Nat /\ Cardinality(x.started) \in Nat
        BY <3>3, Counted
      <3>6. A = x.started
        BY <3>2, <3>3, <3>4, <3>5, FS_Subset
      <3> QED BY <3>6 DEF A, x, Gone
    <2> QED BY <2>3, <2>4
  <1>2. Spec => [][Next]_vars
    BY DEF Spec
  <1> QED BY <1>1, <1>2, SpecInvariant, BulkInvariant, PTL DEF BulkCloseIsComplete
=============================================================================
