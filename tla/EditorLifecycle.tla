--------------------------- MODULE EditorLifecycle ---------------------------
(***************************************************************************)
(* How editors come to the canvas, get their VS Code pane, are reloaded and*)
(* are closed: the asynchronous operations of the workspace store.  Each   *)
(* call that has not returned holds a task.  JavaScript runs a handler from*)
(* one await to the next without interruption, so each such stretch is one *)
(* action; at an await any other handler may run.  VS Code opens panes,    *)
(* asks the user before it closes one, and fires onDidCloseEditor while it *)
(* closes it: the store hears of the close before the caller does.         *)
(*                                                                         *)
(* Next has the operations that read the store again after an await, or    *)
(* write back a copy that is still the map; Stale has the three that write *)
(* back a map copied before an await whatever has happened since.          *)
(***************************************************************************)
EXTENDS Naturals, FiniteSets

CONSTANTS
  Ids,       \* the uuids of editors
  Panes,     \* the identifiers (input and group) VS Code may give a pane
  NoPane,    \* identifier: null
  NoId,      \* no editor
  Slots,     \* bound of the calls in progress at once
  Types,     \* the types of editor the user inserts
  Ops        \* the operations the user may start

\* Ghost, references and settings editors are opened in other ways.
CanvasTypes == {"CODE_EDITOR", "DIFF_EDITOR", "MODAL_EDITOR", "MERGE_EDITOR"}

UserOps == {"insert", "insertModal", "insertAtPosition", "insertAdjacent", "insertSymbol",
            "reload", "close", "delete", "closeAll", "openWorkspace", "pin", "select"}

ASSUME LifecycleAssumption ==
  /\ Types \subseteq CanvasTypes
  /\ Ops \subseteq UserOps
  /\ NoPane \notin Panes
  /\ NoId \notin Ids
  /\ IsFiniteSet(Ids)

\* The types the close paths of the store close in VS Code; a merge editor is not one.
ClosableTypes == {"CODE_EDITOR", "DIFF_EDITOR", "MODAL_EDITOR"}

\* ranged: the editor shows a symbol, editRange is not null.
EditorRecord ==
  [type : CanvasTypes, pane : Panes \cup {NoPane}, shouldRespondToCloseEvents : BOOLEAN,
   ranged : BOOLEAN, isPinned : BOOLEAN]

Maps == UNION { [S -> EditorRecord] : S \in SUBSET Ids }

EmptyMap == [e \in {} |-> NoPane]

\* map.delete of every id in S.
Without(map, S) == [e \in DOMAIN map \ S |-> map[e]]

\* map.set(e, x).
With(map, e, x) == [d \in DOMAIN map \cup {e} |-> IF d = e THEN x ELSE map[d]]

TaskOps == {"idle", "insert", "insertAdjacent", "insertSymbol", "open", "openDiff", "close",
            "delete", "closeAll", "openWorkspace", "reload", "refreshEditRange", "reopen"}

Answers == {"none", "asked", "pending", "yes", "no"}

\* The local variables of a call: the editor it is about, a map copied earlier, the
\* pane it waits for, the editors still to visit, the editors it started with, and
\* numDeletedEditors.
Task ==
  [op : TaskOps, type : CanvasTypes, id : Ids \cup {NoId}, map : Maps, pane : Panes \cup {NoPane},
   answer : Answers, todo : SUBSET Ids, started : SUBSET Ids, deleted : Nat]

Idle ==
  [op |-> "idle", type |-> "CODE_EDITOR", id |-> NoId, map |-> EmptyMap, pane |-> NoPane,
   answer |-> "none", todo |-> {}, started |-> {}, deleted |-> 0]

VARIABLES
  idToEditorMap,   \* the editors on the canvas
  selection,       \* the selected editors
  openEditors,     \* the identifiers a save looks through
  panes,           \* the panes open in VS Code
  effects,         \* mounted editors whose effect has to open a pane
  closingFiles,    \* panes of closeFileEditor calls that have not returned
  tasks,           \* the calls in progress
  minted,          \* the uuids generated so far
  opened           \* the panes VS Code has opened so far

vars == <<idToEditorMap, selection, openEditors, panes, effects, closingFiles, tasks, minted, opened>>

TypeOK ==
  /\ idToEditorMap \in Maps
  /\ selection \subseteq Ids
  /\ openEditors \subseteq Panes
  /\ panes \subseteq Panes
  /\ effects \subseteq DOMAIN idToEditorMap
  /\ closingFiles \subseteq Panes
  /\ tasks \in [Slots -> Task]
  /\ minted \subseteq Ids
  /\ opened \subseteq Panes

Init ==
  /\ idToEditorMap = EmptyMap
  /\ selection = {}
  /\ openEditors = {}
  /\ panes = {}
  /\ effects = {}
  /\ closingFiles = {}
  /\ tasks = [t \in Slots |-> Idle]
  /\ minted = {}
  /\ opened = {}
-----------------------------------------------------------------------------
\* Mutant of SetMap: the effect of an editor that goes is still run.
SetMapKeepingEffects(map, S) ==
  /\ idToEditorMap' = map
  /\ effects' = effects \cup (DOMAIN map \ DOMAIN idToEditorMap) \cup (S \cap DOMAIN map)

\* set({idToEditorMap: map}): React mounts the editors that appear, unmounts those
\* that go, and runs again the effect of an editor in S, whose inputs changed.
SetMap(map, S) ==
  /\ idToEditorMap' = map
  /\ effects' = (effects \cap DOMAIN map) \cup (DOMAIN map \ DOMAIN idToEditorMap)
                  \cup (S \cap DOMAIN map)

KeepMap == UNCHANGED <<idToEditorMap, effects>>

Start(t, task) == tasks[t].op = "idle" /\ tasks' = [tasks EXCEPT ![t] = task]

Continue(t, task) == tasks' = [tasks EXCEPT ![t] = task]

Return(t) == tasks' = [tasks EXCEPT ![t] = Idle]

\* The editors of the map that a closed pane p belongs to.
Showing(map, p) == {e \in DOMAIN map : map[e].type \in ClosableTypes /\ map[e].pane = p}

\* Mutant of respondToEditorClosing: the flag is not looked at.
respondAlways(map, p) == Without(map, Showing(map, p))

respondToEditorClosing(map, p) ==
  LET gone == {e \in Showing(map, p) : map[e].shouldRespondToCloseEvents}
  IN [e \in DOMAIN map \ gone |->
        IF e \in Showing(map, p) THEN [map[e] EXCEPT !.shouldRespondToCloseEvents = TRUE] ELSE map[e]]

\* VS Code closes pane p and fires onDidCloseEditor; closing it again does nothing.
ClosePane(p) ==
  /\ panes' = panes \ {p}
  /\ SetMap(IF p \in panes THEN respondToEditorClosing(idToEditorMap, p) ELSE idToEditorMap, {})

\* haystackService.closeEditor answers false at once when the pane's group is gone.
Asked(p) == IF p \in panes THEN "pending" ELSE "no"

\* The editor has a pane that the close paths ask VS Code to close.
HasPane(editor) == editor.type \in ClosableTypes /\ editor.pane # NoPane

\* generateEditor.
generateEditor(type, ranged) ==
  [type |-> type, pane |-> NoPane, shouldRespondToCloseEvents |-> TRUE, ranged |-> ranged,
   isPinned |-> FALSE]
-----------------------------------------------------------------------------
\* An editor with a new uuid appears; select: it becomes the selection.
Appear(map, e, editor, select) ==
  /\ e \in Ids \ minted
  /\ minted' = minted \cup {e}
  /\ SetMap(With(map, e, editor), {})
  /\ selection' = IF select THEN {e} ELSE selection
  /\ UNCHANGED <<openEditors, panes, closingFiles, opened>>

\* insertFileEditor-, insertFileDiffEditor- and insertMergeEditorAtCenterOfViewport
\* wait for the size of the file, then copy the map.
StartInsert(t, type) ==
  /\ "insert" \in Ops
  /\ type # "MODAL_EDITOR"
  /\ Start(t, [Idle EXCEPT !.op = "insert", !.type = type])
  /\ KeepMap
  /\ UNCHANGED <<selection, openEditors, panes, closingFiles, minted, opened>>

insertEditorAtCenterOfViewport(t, e) ==
  /\ tasks[t].op = "insert"
  /\ Appear(idToEditorMap, e, generateEditor(tasks[t].type, FALSE), TRUE)
  /\ Return(t)

insertModalEditorAtCenterOfViewport(e) ==
  /\ "insertModal" \in Ops
  /\ "MODAL_EDITOR" \in Types
  /\ Appear(idToEditorMap, e, generateEditor("MODAL_EDITOR", FALSE), TRUE)
  /\ UNCHANGED tasks

\* Of code editors, the ones that show a symbol have a range.
insertEditorAtPosition(e, type, ranged, select) ==
  /\ "insertAtPosition" \in Ops
  /\ ranged => type = "CODE_EDITOR"
  /\ Appear(idToEditorMap, e, generateEditor(type, ranged), select)
  /\ UNCHANGED tasks

\* insertAdjacentEditor waits for the size, then gives up if the editor it was to
\* stand beside has gone.
StartAdjacent(t, beside) ==
  /\ "insertAdjacent" \in Ops
  /\ beside \in DOMAIN idToEditorMap
  /\ Start(t, [Idle EXCEPT !.op = "insertAdjacent", !.id = beside])
  /\ KeepMap
  /\ UNCHANGED <<selection, openEditors, panes, closingFiles, minted, opened>>

\* Mutant of insertAdjacentEditor: it does not look again, and writes the editor it stands beside as it was.
insertBesideGone(t, e, ranged, select) ==
  /\ tasks[t].op = "insertAdjacent"
  /\ Return(t)
  /\ Appear([d \in DOMAIN idToEditorMap \cup {tasks[t].id} |->
               IF d \in DOMAIN idToEditorMap THEN idToEditorMap[d] ELSE generateEditor("CODE_EDITOR", FALSE)],
            e, generateEditor("CODE_EDITOR", ranged), select)

insertAdjacentEditor(t, e, ranged, select) ==
  /\ tasks[t].op = "insertAdjacent"
  /\ Return(t)
  /\ \/ /\ tasks[t].id \in DOMAIN idToEditorMap
        /\ Appear(idToEditorMap, e, generateEditor("CODE_EDITOR", ranged), select)
     \/ /\ tasks[t].id \notin DOMAIN idToEditorMap
        /\ KeepMap
        /\ UNCHANGED <<selection, openEditors, panes, closingFiles, minted, opened>>

\* insertSymbolEditorAtCenterOfViewport copies the map and then waits for the size.
StartSymbol(t) ==
  /\ "insertSymbol" \in Ops
  /\ Start(t, [Idle EXCEPT !.op = "insertSymbol", !.map = idToEditorMap])
  /\ KeepMap
  /\ UNCHANGED <<selection, openEditors, panes, closingFiles, minted, opened>>

insertSymbolEditorAtCenterOfViewport(t, e) ==
  /\ tasks[t].op = "insertSymbol"
  /\ Appear(tasks[t].map, e, generateEditor("CODE_EDITOR", TRUE), FALSE)
  /\ Return(t)
-----------------------------------------------------------------------------
\* The effect of a mounted editor asks VS Code for a pane.  A diff editor copies the
\* map first.
RunEffect(t, e) ==
  LET diff == idToEditorMap[e].type = "DIFF_EDITOR"
  IN /\ e \in effects
     /\ Start(t, [Idle EXCEPT !.op = IF diff THEN "openDiff" ELSE "open", !.id = e,
                              !.map = IF diff THEN idToEditorMap ELSE EmptyMap])
     /\ effects' = effects \ {e}
     /\ UNCHANGED <<idToEditorMap, selection, openEditors, panes, closingFiles, minted, opened>>

\* VS Code has opened a pane for the call; the caller does not know yet.
CreatePane(t, p) ==
  /\ tasks[t].op \in {"open", "openDiff"}
  /\ tasks[t].pane = NoPane
  /\ p \in Panes \ opened
  /\ Continue(t, [tasks[t] EXCEPT !.pane = p])
  /\ panes' = panes \cup {p}
  /\ opened' = opened \cup {p}
  /\ KeepMap
  /\ UNCHANGED <<selection, openEditors, closingFiles, minted>>

\* createEditorElement returns null: the editor stays without a pane.
CreateFails(t) ==
  /\ tasks[t].op \in {"open", "openDiff"}
  /\ tasks[t].pane = NoPane
  /\ Return(t)
  /\ KeepMap
  /\ UNCHANGED <<selection, openEditors, panes, closingFiles, minted, opened>>

\* Mutant of openEditorForCanvasEditor: it does not look whether the editor is still there.
openUnrefreshed(t) ==
  /\ tasks[t].op = "open"
  /\ tasks[t].pane # NoPane
  /\ SetMap(With(idToEditorMap, tasks[t].id,
                 [generateEditor("CODE_EDITOR", FALSE) EXCEPT !.pane = tasks[t].pane]), {})
  /\ openEditors' = openEditors \cup {tasks[t].pane}
  /\ Return(t)
  /\ UNCHANGED <<selection, panes, closingFiles, minted, opened>>

\* Mutant of openEditorForCanvasEditor: the new pane is not put in openEditors.
openUnlisted(t) ==
  /\ tasks[t].op = "open"
  /\ tasks[t].pane # NoPane
  /\ tasks[t].id \in DOMAIN idToEditorMap
  /\ closingFiles' = closingFiles \cup ({idToEditorMap[tasks[t].id].pane} \cap panes)
  /\ SetMap([idToEditorMap EXCEPT ![tasks[t].id].pane = tasks[t].pane], {})
  /\ Return(t)
  /\ UNCHANGED <<selection, openEditors, panes, minted, opened>>

\* openCodeEditor-, openModalEditor- and openMergeEditorForCanvasEditor: the new pane
\* replaces the old one, whose close is not awaited.  If the editor has gone, the new
\* pane is left behind.
openEditorForCanvasEditor(t) ==
  LET e == tasks[t].id
      p == tasks[t].pane
  IN /\ tasks[t].op = "open"
     /\ p # NoPane
     /\ Return(t)
     /\ \/ /\ e \in DOMAIN idToEditorMap
           /\ closingFiles' = closingFiles \cup ({idToEditorMap[e].pane} \cap panes)
           /\ openEditors' = openEditors \cup {p}
           /\ SetMap([idToEditorMap EXCEPT ![e].pane = p], {})
        \/ /\ e \notin DOMAIN idToEditorMap
           /\ KeepMap
           /\ UNCHANGED <<openEditors, closingFiles>>
     /\ UNCHANGED <<selection, panes, minted, opened>>

\* openFileDiffEditorForCanvasEditor writes the map it copied before the pane opened.
openFileDiffEditorForCanvasEditor(t) ==
  LET e == tasks[t].id
      p == tasks[t].pane
  IN /\ tasks[t].op = "openDiff"
     /\ p # NoPane
     /\ openEditors' = openEditors \cup {p}
     /\ SetMap([tasks[t].map EXCEPT ![e].pane = p], {})
     /\ Return(t)
     /\ UNCHANGED <<selection, panes, closingFiles, minted, opened>>
-----------------------------------------------------------------------------
\* VS Code closes a pane of its own accord: a tab, a deleted file, another window.
onDidCloseEditor(p) ==
  /\ p \in panes
  /\ ClosePane(p)
  /\ UNCHANGED <<selection, openEditors, closingFiles, tasks, minted, opened>>

\* The answer to a haystackService.closeEditor call: the user lets the pane close, or not.
Answer(t) ==
  /\ tasks[t].answer = "pending"
  /\ \/ /\ ClosePane(tasks[t].pane)
        /\ Continue(t, [tasks[t] EXCEPT !.answer = "yes"])
     \/ /\ KeepMap
        /\ Continue(t, [tasks[t] EXCEPT !.answer = "no"])
        /\ UNCHANGED panes
  /\ UNCHANGED <<selection, openEditors, closingFiles, minted, opened>>

\* Mutant of closeFileEditor: the result is not looked at.
closeFileAnyResult(p) ==
  /\ p \in closingFiles
  /\ closingFiles' = closingFiles \ {p}
  /\ openEditors' = openEditors \ {p}
  /\ \/ ClosePane(p)
     \/ KeepMap /\ UNCHANGED panes
  /\ UNCHANGED <<selection, tasks, minted, opened>>

\* A closeFileEditor call ends.
closeFileEditor(p) ==
  /\ p \in closingFiles
  /\ closingFiles' = closingFiles \ {p}
  /\ \/ /\ ClosePane(p)
        /\ openEditors' = openEditors \ {p}
     \/ /\ KeepMap
        /\ UNCHANGED <<panes, openEditors>>
  /\ UNCHANGED <<selection, tasks, minted, opened>>

\* closeEditor(e) keeps the editor it read and waits for the service.
StartClose(t, e) ==
  LET ask == e \in DOMAIN idToEditorMap /\ HasPane(idToEditorMap[e])
  IN /\ "close" \in Ops
     /\ e \in minted
     /\ Start(t, [Idle EXCEPT !.op = "close", !.id = e,
                              !.pane = IF ask THEN idToEditorMap[e].pane ELSE NoPane,
                              !.answer = IF ask THEN "asked" ELSE "yes"])
     /\ KeepMap
     /\ UNCHANGED <<selection, openEditors, panes, closingFiles, minted, opened>>

AskClose(t) ==
  /\ tasks[t].answer = "asked"
  /\ Continue(t, [tasks[t] EXCEPT !.answer = Asked(tasks[t].pane)])
  /\ KeepMap
  /\ UNCHANGED <<selection, openEditors, panes, closingFiles, minted, opened>>

closeEditor(t) ==
  /\ tasks[t].op = "close"
  /\ Return(t)
  /\ \/ /\ tasks[t].answer = "yes"
        /\ openEditors' = openEditors \ {tasks[t].pane}
        /\ SetMap(Without(idToEditorMap, {tasks[t].id}), {})
        /\ selection' = selection \ {tasks[t].id}
     \/ /\ tasks[t].answer = "no"
        /\ KeepMap
        /\ UNCHANGED <<selection, openEditors>>
  /\ UNCHANGED <<panes, closingFiles, minted, opened>>
-----------------------------------------------------------------------------
\* The three operations that close many editors visit a copy of the map (and of the
\* selection) taken when they start; closeAllEditors starts when the user confirms.
StartBulk(t, op, S, started) ==
  /\ op \in Ops
  /\ Start(t, [Idle EXCEPT !.op = op, !.map = idToEditorMap, !.todo = S, !.started = started])
  /\ KeepMap
  /\ UNCHANGED <<selection, openEditors, panes, closingFiles, minted, opened>>

StartDelete(t) == StartBulk(t, "delete", selection \cap DOMAIN idToEditorMap, selection)

StartCloseAll(t) ==
  LET unpinned == {e \in DOMAIN idToEditorMap : ~ idToEditorMap[e].isPinned}
  IN StartBulk(t, "closeAll", unpinned, unpinned)

StartOpenWorkspace(t) ==
  StartBulk(t, "openWorkspace", DOMAIN idToEditorMap, DOMAIN idToEditorMap)

BulkOps == {"delete", "closeAll", "openWorkspace"}

\* The next editor: its pane is asked to close, or it has none and goes at once.
Visit(t, e) ==
  /\ tasks[t].op \in BulkOps
  /\ tasks[t].answer = "none"
  /\ e \in tasks[t].todo
  /\ \/ /\ HasPane(tasks[t].map[e])
        /\ Continue(t, [tasks[t] EXCEPT !.id = e, !.pane = tasks[t].map[e].pane, !.todo = @ \ {e},
                                        !.answer = Asked(tasks[t].map[e].pane)])
        /\ KeepMap
     \/ /\ ~ HasPane(tasks[t].map[e])
        /\ Continue(t, [tasks[t] EXCEPT !.todo = @ \ {e}])
        /\ SetMap(Without(idToEditorMap, {e}), {})
  /\ UNCHANGED <<selection, openEditors, panes, closingFiles, minted, opened>>

\* The pane has closed: the editor is deleted from the map of now.
Visited(t) ==
  /\ tasks[t].op \in BulkOps
  /\ tasks[t].answer = "yes"
  /\ Continue(t, [tasks[t] EXCEPT !.id = NoId, !.pane = NoPane, !.answer = "none", !.deleted = @ + 1])
  /\ SetMap(Without(idToEditorMap, {tasks[t].id}), {})
  /\ UNCHANGED <<selection, openEditors, panes, closingFiles, minted, opened>>

\* Mutant of Refused: openCanvasWorkspace goes on as the other two do.
RefusedGoesOn(t) ==
  /\ tasks[t].op \in BulkOps
  /\ tasks[t].answer = "no"
  /\ Continue(t, [tasks[t] EXCEPT !.id = NoId, !.pane = NoPane, !.answer = "none"])
  /\ KeepMap
  /\ UNCHANGED <<selection, openEditors, panes, closingFiles, minted, opened>>

\* The pane stays: openCanvasWorkspace gives up, the others go on.
Refused(t) ==
  /\ tasks[t].op \in BulkOps
  /\ tasks[t].answer = "no"
  /\ \/ /\ tasks[t].op = "openWorkspace"
        /\ Return(t)
     \/ /\ tasks[t].op # "openWorkspace"
        /\ Continue(t, [tasks[t] EXCEPT !.id = NoId, !.pane = NoPane, !.answer = "none"])
  /\ KeepMap
  /\ UNCHANGED <<selection, openEditors, panes, closingFiles, minted, opened>>

\* The loop is over.  deleteEditorsInSelection clears the selection only if it counted
\* as many closed panes as there were selected editors.
BulkEnd(t) ==
  /\ tasks[t].op \in BulkOps
  /\ tasks[t].answer = "none"
  /\ tasks[t].todo = {}
  /\ selection' = IF tasks[t].op = "delete" /\ tasks[t].deleted # Cardinality(tasks[t].started)
                    THEN selection ELSE {}
  /\ Return(t)
  /\ KeepMap
  /\ UNCHANGED <<openEditors, panes, closingFiles, minted, opened>>
-----------------------------------------------------------------------------
\* Cmd+R in a code editor: the next close event is to be ignored; wait for the model.
StartReload(t, e) ==
  /\ "reload" \in Ops
  /\ e \in DOMAIN idToEditorMap
  /\ idToEditorMap[e].type = "CODE_EDITOR"
  /\ idToEditorMap[e].pane # NoPane
  /\ Start(t, [Idle EXCEPT !.op = "reload", !.id = e, !.pane = idToEditorMap[e].pane])
  /\ SetMap([idToEditorMap EXCEPT ![e].shouldRespondToCloseEvents = FALSE], {})
  /\ UNCHANGED <<selection, openEditors, panes, closingFiles, minted, opened>>

\* closeFileEditor is called, then refreshEditRange, which copies the map if the editor
\* shows a symbol and waits for the symbol's range.
ReloadCloses(t) ==
  LET e == tasks[t].id
      refresh == e \in DOMAIN idToEditorMap /\ idToEditorMap[e].ranged
  IN /\ tasks[t].op = "reload"
     /\ closingFiles' = closingFiles \cup ({tasks[t].pane} \cap panes)
     /\ Continue(t, [tasks[t] EXCEPT !.op = IF refresh THEN "refreshEditRange" ELSE "reopen",
                                     !.map = IF refresh THEN idToEditorMap ELSE EmptyMap])
     /\ KeepMap
     /\ UNCHANGED <<selection, openEditors, panes, minted, opened>>

\* The copied map is written with the new range, or with none if the symbol has gone.
refreshEditRange(t, ranged) ==
  /\ tasks[t].op = "refreshEditRange"
  /\ SetMap([tasks[t].map EXCEPT ![tasks[t].id].ranged = ranged], {tasks[t].id})
  /\ Continue(t, [tasks[t] EXCEPT !.op = "reopen", !.map = EmptyMap])
  /\ UNCHANGED <<selection, openEditors, panes, closingFiles, minted, opened>>

\* The same when no editor has changed since the copy was made.
refreshEditRangeInTime(t, ranged) ==
  /\ tasks[t].map = idToEditorMap
  /\ refreshEditRange(t, ranged)

\* closeFileEditor has returned: the toggle makes the effect run again.
Reopen(t) ==
  /\ tasks[t].op = "reopen"
  /\ tasks[t].pane \notin closingFiles
  /\ Return(t)
  /\ SetMap(idToEditorMap, {tasks[t].id})
  /\ UNCHANGED <<selection, openEditors, panes, closingFiles, minted, opened>>
-----------------------------------------------------------------------------
Select(S) ==
  /\ "select" \in Ops
  /\ selection' = S
  /\ KeepMap
  /\ UNCHANGED <<openEditors, panes, closingFiles, tasks, minted, opened>>

selectEditor(e, clearSelection) ==
  /\ e \in DOMAIN idToEditorMap
  /\ Select(IF clearSelection THEN {e} ELSE selection \cup {e})

deselectEditor(e) == Select(selection \ {e})

selectAllEditors == Select(DOMAIN idToEditorMap)

clearSelection == Select({})

\* pinCurrentEditor and unpinCurrentEditor, on the focused editor.
Pin(e) ==
  /\ "pin" \in Ops
  /\ e \in DOMAIN idToEditorMap
  /\ SetMap([idToEditorMap EXCEPT ![e].isPinned = ~ @], {})
  /\ UNCHANGED <<selection, openEditors, panes, closingFiles, tasks, minted, opened>>
-----------------------------------------------------------------------------
Inserting ==
  \/ \E t \in Slots, type \in Types : StartInsert(t, type)
  \/ \E t \in Slots, e \in Ids : insertEditorAtCenterOfViewport(t, e)
  \/ \E e \in Ids : insertModalEditorAtCenterOfViewport(e)
  \/ \E e \in Ids, type \in Types, ranged, select \in BOOLEAN : insertEditorAtPosition(e, type, ranged, select)
  \/ \E t \in Slots, beside \in Ids : StartAdjacent(t, beside)
  \/ \E t \in Slots, e \in Ids, ranged, select \in BOOLEAN : insertAdjacentEditor(t, e, ranged, select)

Opening ==
  \/ \E t \in Slots, e \in Ids : RunEffect(t, e)
  \/ \E t \in Slots, p \in Panes : CreatePane(t, p)
  \/ \E t \in Slots : CreateFails(t)
  \/ \E t \in Slots : openEditorForCanvasEditor(t)

Closing ==
  \/ \E p \in Panes : onDidCloseEditor(p)
  \/ \E p \in Panes : closeFileEditor(p)
  \/ \E t \in Slots : Answer(t)
  \/ \E t \in Slots, e \in Ids : StartClose(t, e)
  \/ \E t \in Slots : AskClose(t)
  \/ \E t \in Slots : closeEditor(t)
  \/ \E t \in Slots : StartDelete(t)
  \/ \E t \in Slots : StartCloseAll(t)
  \/ \E t \in Slots : StartOpenWorkspace(t)
  \/ \E t \in Slots, e \in Ids : Visit(t, e)
  \/ \E t \in Slots : Visited(t)
  \/ \E t \in Slots : Refused(t)
  \/ \E t \in Slots : BulkEnd(t)

Reloading ==
  \/ \E t \in Slots, e \in Ids : StartReload(t, e)
  \/ \E t \in Slots : ReloadCloses(t)
  \/ \E t \in Slots, ranged \in BOOLEAN : refreshEditRangeInTime(t, ranged)
  \/ \E t \in Slots : Reopen(t)

Selecting ==
  \/ \E e \in Ids, clear \in BOOLEAN : selectEditor(e, clear)
  \/ \E e \in Ids : deselectEditor(e)
  \/ selectAllEditors
  \/ clearSelection
  \/ \E e \in Ids : Pin(e)

Next == Inserting \/ Opening \/ Closing \/ Reloading \/ Selecting

Spec == Init /\ [][Next]_vars

\* The operations that write a map copied before an await.
Stale ==
  \/ \E t \in Slots : StartSymbol(t)
  \/ \E t \in Slots, e \in Ids : insertSymbolEditorAtCenterOfViewport(t, e)
  \/ \E t \in Slots : openFileDiffEditorForCanvasEditor(t)
  \/ \E t \in Slots, ranged \in BOOLEAN : refreshEditRange(t, ranged)

StaleSpec == Init /\ [][Next \/ Stale]_vars
-----------------------------------------------------------------------------
\* An editor that has left the canvas does not come back: every operation that waits
\* for VS Code or for the user reads the map again before it writes it.
Resurrects == (DOMAIN idToEditorMap' \ DOMAIN idToEditorMap) \cap minted # {}

NoResurrection == [][~ Resurrects]_vars

\* A switch to another canvas workspace leaves no editor of the old one on the canvas,
\* whatever was opened, reloaded or closed while the user was asked; and the selection
\* is cleared after a delete only if every editor it held is gone.
BulkIsComplete ==
  \A t \in Slots :
    BulkEnd(t) /\ (tasks[t].op = "openWorkspace" \/ (tasks[t].op = "delete" /\ selection' # selection))
      => tasks[t].started \cap DOMAIN idToEditorMap = {}

BulkCloseIsComplete == [][BulkIsComplete]_vars

\* The close that a reload asks for never takes the reloaded editor off the canvas.
ReloadKeeps ==
  \A t \in Slots, p \in Panes :
    tasks[t].op \in {"refreshEditRange", "reopen"} /\ tasks[t].pane = p /\ closeFileEditor(p)
      => DOMAIN idToEditorMap' = DOMAIN idToEditorMap

ReloadKeepsEditor == [][ReloadKeeps]_vars

\* Every editor whose pane is open can be saved: saveEditor finds its identifier in
\* openEditors.
LivePanesListed ==
  \A e \in DOMAIN idToEditorMap : idToEditorMap[e].pane \in panes => idToEditorMap[e].pane \in openEditors
=============================================================================
