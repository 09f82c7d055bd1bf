--------------------------- MODULE CanvasWorkspaces ---------------------------
(***************************************************************************)
(* The saved canvas workspaces: the list in VS Code's storage, the copy the*)
(* panel shows, the current workspace with its dirty flag, and the user who*)
(* saves, overwrites, deletes and opens workspaces.  Opening one asks about*)
(* unsaved changes and closes the editors, which takes several steps; panes*)
(* come and go meanwhile.  The storage keeps its writes in a cache and     *)
(* flushes them later, so a crash of the window loses the latest ones, and *)
(* a window that starts restores its current workspace only after a while. *)
(***************************************************************************)
EXTENDS Naturals, Sequences

CONSTANTS
  Ids,          \* the uuids of workspaces
  Groups,       \* VS Code's editor groups, one for each pane
  CodeGroups,   \* those of code editors
  NoWorkspace,  \* null
  Slots         \* bound of the clicks handled at once

ASSUME WorkspacesAssumption == CodeGroups \subseteq Groups

\* serializedState is the layout of the groups.
Workspace == [uniqueId : Ids, groupIdSet : SUBSET Groups]

ASSUME NoWorkspaceAssumption == NoWorkspace \notin Workspace

\* A click on a workspace: asked about the unsaved changes, or closing the editors still to do.
Click == [stage : {"idle", "asked", "closing"}, id : Ids \cup {NoWorkspace}, todo : SUBSET Groups]

NoClick == [stage |-> "idle", id |-> NoWorkspace, todo |-> {}]

VARIABLES
  storage,                 \* the list under CANVAS_WORKSPACE_KEY in the storage's cache
  persisted,               \* the workspace under CURRENT_CANVAS_WORKSPACE_KEY there
  disk,                    \* both as they are in the database
  canvasWorkspaces,        \* the list the panel shows
  currentCanvasWorkspace,
  canvasWorkspaceIsDirty,
  restoring,               \* the workspace a new window has still to make the current one
  groups,                  \* the groups VS Code has
  onCanvas,                \* the groups of the editors on the canvas
  clicks,                  \* the clicks in progress
  minted,                  \* the uuids generated so far
  outdated                 \* history: the current workspace, or the one to be restored, is a
                           \* copy from before a crash, a delete or an overwrite

saved == <<storage, persisted, disk>>

panes == <<groups, onCanvas>>

current == <<currentCanvasWorkspace, canvasWorkspaceIsDirty, restoring, outdated>>

vars == <<saved, canvasWorkspaces, current, panes, clicks, minted>>

TypeOK ==
  /\ storage \in Seq(Workspace)
  /\ persisted \in Workspace \cup {NoWorkspace}
  /\ disk \in [list : Seq(Workspace), current : Workspace \cup {NoWorkspace}]
  /\ canvasWorkspaces \in Seq(Workspace)
  /\ currentCanvasWorkspace \in Workspace \cup {NoWorkspace}
  /\ canvasWorkspaceIsDirty \in BOOLEAN
  /\ restoring \in Workspace \cup {NoWorkspace}
  /\ groups \subseteq Groups
  /\ onCanvas \subseteq Groups
  /\ clicks \in [Slots -> Click]
  /\ minted \subseteq Ids
  /\ outdated \in BOOLEAN

Init ==
  /\ storage = << >>
  /\ persisted = NoWorkspace
  /\ disk = [list |-> << >>, current |-> NoWorkspace]
  /\ canvasWorkspaces = << >>
  /\ currentCanvasWorkspace = NoWorkspace
  /\ canvasWorkspaceIsDirty = FALSE
  /\ restoring = NoWorkspace
  /\ groups = {}
  /\ onCanvas = {}
  /\ clicks = [t \in Slots |-> NoClick]
  /\ minted = {}
  /\ outdated = FALSE
-----------------------------------------------------------------------------
\* The places of workspace id in a list.
Places(list, id) == {i \in DOMAIN list : list[i].uniqueId = id}

\* The first place, 0 if there is none.
findIndex(list, id) ==
  IF Places(list, id) = {} THEN 0
  ELSE CHOOSE i \in Places(list, id) : \A j \in Places(list, id) : i <= j

Without(list, i) == SubSeq(list, 1, i - 1) \o SubSeq(list, i + 1, Len(list))

\* Mutant of removeCanvasWorkspace: the index is not looked up.
removeFirst(list, id) == Without(list, 1)

\* splice at an index of -1 removes the last element.
removeCanvasWorkspace(list, id) ==
  Without(list, IF findIndex(list, id) = 0 THEN Len(list) ELSE findIndex(list, id))

\* Mutant of Overwritten: the workspace is added again.
OverwrittenTwice(list, workspace) == Append(list, workspace)

\* The workspace replaces the one of its id, or is added.
Overwritten(list, workspace) ==
  IF findIndex(list, workspace.uniqueId) = 0 THEN Append(list, workspace)
  ELSE [list EXCEPT ![findIndex(list, workspace.uniqueId)] = workspace]

\* The list is stored, and the store told of it.
SetWorkspaces(list) ==
  /\ storage' = list
  /\ canvasWorkspaces' = list
  /\ UNCHANGED <<persisted, disk>>

SetCurrent(workspace, dirty) ==
  /\ currentCanvasWorkspace' = workspace
  /\ canvasWorkspaceIsDirty' = dirty

\* The workspace still to be restored is the one of this id.
Pending(id) == restoring # NoWorkspace /\ restoring.uniqueId = id

\* The current workspace is now a stored one; the one to be restored is outdated as before.
Refreshed == outdated' = (outdated /\ restoring # NoWorkspace)
-----------------------------------------------------------------------------
\* The map is set, S being the groups of its editors: the middleware compares those of
\* the code editors with the groups of the current workspace.
handleStoreChange(S) ==
  canvasWorkspaceIsDirty' =
    IF currentCanvasWorkspace = NoWorkspace THEN canvasWorkspaceIsDirty
    ELSE currentCanvasWorkspace.groupIdSet # S \cap CodeGroups

\* The map now has the editors of the groups S.
MapBecomes(S) ==
  /\ onCanvas' = S
  /\ handleStoreChange(S)
  /\ UNCHANGED <<currentCanvasWorkspace, restoring, outdated>>

\* VS Code opens a pane; its editor on the canvas does not know it yet.
OpenPane(g) ==
  /\ g \in Groups \ groups
  /\ groups' = groups \cup {g}
  /\ UNCHANGED <<saved, canvasWorkspaces, current, onCanvas, clicks, minted>>

\* Editors get their panes, move or leave the canvas; undo and operations that write a map
\* they copied earlier bring back editors whose panes have closed.
SetMap(S) ==
  /\ MapBecomes(S)
  /\ UNCHANGED <<saved, canvasWorkspaces, groups, clicks, minted>>

\* VS Code or another operation of the store closes a pane.  Its editor goes, unless a
\* reload told it not to respond to this close event.
ClosePane(g) ==
  /\ g \in groups
  /\ groups' = groups \ {g}
  /\ MapBecomes(onCanvas \ {g}) \/ MapBecomes(onCanvas)
  /\ UNCHANGED <<saved, canvasWorkspaces, clicks, minted>>
-----------------------------------------------------------------------------
saveCurrentCanvasWorkspace(id) ==
  LET workspace == [uniqueId |-> id, groupIdSet |-> groups]
  IN /\ id \in Ids \ minted
     /\ minted' = minted \cup {id}
     /\ SetWorkspaces(Append(storage, workspace))
     /\ SetCurrent(workspace, FALSE)
     /\ Refreshed
     /\ UNCHANGED <<restoring, panes, clicks>>

\* Without a current workspace nothing happens.
Overwrite ==
  LET workspace == [uniqueId |-> currentCanvasWorkspace.uniqueId, groupIdSet |-> groups]
  IN \/ /\ currentCanvasWorkspace # NoWorkspace
        /\ SetWorkspaces(Overwritten(storage, workspace))
        /\ SetCurrent(workspace, FALSE)
        /\ outdated' = (Pending(workspace.uniqueId) \/ (outdated /\ restoring # NoWorkspace))
        /\ UNCHANGED restoring
     \/ /\ currentCanvasWorkspace = NoWorkspace
        /\ UNCHANGED <<saved, canvasWorkspaces, current>>

\* The save button of the current workspace, and that of the toolbar.
overwriteCurrentCanvasWorkspace ==
  /\ Overwrite
  /\ UNCHANGED <<panes, clicks, minted>>

\* Mutant of deleteCanvasWorkspace: a deleted workspace stays current.
deleteKeepingCurrent(id) ==
  /\ Places(canvasWorkspaces, id) # {}
  /\ SetWorkspaces(removeCanvasWorkspace(storage, id))
  /\ UNCHANGED <<current, panes, clicks, minted>>

\* The trash button of a workspace in the panel.
deleteCanvasWorkspace(id) ==
  /\ Places(canvasWorkspaces, id) # {}
  /\ SetWorkspaces(removeCanvasWorkspace(storage, id))
  /\ \/ /\ currentCanvasWorkspace # NoWorkspace
        /\ currentCanvasWorkspace.uniqueId = id
        /\ SetCurrent(NoWorkspace, FALSE)
     \/ /\ currentCanvasWorkspace # NoWorkspace => currentCanvasWorkspace.uniqueId # id
        /\ UNCHANGED <<currentCanvasWorkspace, canvasWorkspaceIsDirty>>
  /\ outdated' = (outdated \/ Pending(id))
  /\ UNCHANGED <<restoring, panes, clicks, minted>>

\* The panel appears.
loadCanvasWorkspaces ==
  /\ canvasWorkspaces' = storage
  /\ UNCHANGED <<saved, current, panes, clicks, minted>>
-----------------------------------------------------------------------------
\* The loop of openCanvasWorkspace runs over the editors of the map at its start.
Closing(id) == [stage |-> "closing", id |-> id, todo |-> onCanvas]

\* A click on a workspace in the panel: unsaved changes are asked about.
ClickWorkspace(t, id) ==
  /\ clicks[t] = NoClick
  /\ Places(canvasWorkspaces, id) # {}
  /\ clicks' = [clicks EXCEPT ![t] =
                  IF canvasWorkspaceIsDirty THEN [NoClick EXCEPT !.stage = "asked", !.id = id]
                  ELSE Closing(id)]
  /\ UNCHANGED <<saved, canvasWorkspaces, current, panes, minted>>

\* The user's answer: save and go on, go on, or cancel.
ConfirmResult(t) ==
  /\ clicks[t].stage = "asked"
  /\ \/ /\ Overwrite
        /\ clicks' = [clicks EXCEPT ![t] = Closing(clicks[t].id)]
     \/ /\ clicks' = [clicks EXCEPT ![t] = Closing(clicks[t].id)]
        /\ UNCHANGED <<saved, canvasWorkspaces, current>>
     \/ /\ clicks' = [clicks EXCEPT ![t] = NoClick]
        /\ UNCHANGED <<saved, canvasWorkspaces, current>>
  /\ UNCHANGED <<panes, minted>>

\* The loop closes the pane of an editor and then takes the editor off the map itself.
CloseEditor(t, g) ==
  /\ clicks[t].stage = "closing"
  /\ g \in clicks[t].todo \cap groups
  /\ groups' = groups \ {g}
  /\ MapBecomes(onCanvas \ {g})
  /\ clicks' = [clicks EXCEPT ![t].todo = @ \ {g}]
  /\ UNCHANGED <<saved, canvasWorkspaces, minted>>

\* The user vetoes a close, or the pane has gone already: "abort the entire transaction".
AbortOpening(t) ==
  /\ clicks[t].stage = "closing"
  /\ clicks[t].todo # {}
  /\ clicks' = [clicks EXCEPT ![t] = NoClick]
  /\ UNCHANGED <<saved, canvasWorkspaces, current, panes, minted>>

\* Mutant of openCanvasWorkspace: the store keeps the id and not the workspace.
openKeepingId(t) ==
  /\ clicks[t].stage = "closing"
  /\ clicks[t].todo = {}
  /\ currentCanvasWorkspace' = clicks[t].id
  /\ Refreshed
  /\ clicks' = [clicks EXCEPT ![t] = NoClick]
  /\ UNCHANGED <<saved, canvasWorkspaces, canvasWorkspaceIsDirty, restoring, panes, minted>>

\* The editors are closed: the workspace is looked up in the storage and becomes the
\* current one, null if it is gone.  VS Code then restores its groups, one by one.
openCanvasWorkspace(t) ==
  LET place == findIndex(storage, clicks[t].id)
  IN /\ clicks[t].stage = "closing"
     /\ clicks[t].todo = {}
     /\ currentCanvasWorkspace' = IF place = 0 THEN NoWorkspace ELSE storage[place]
     /\ Refreshed
     /\ clicks' = [clicks EXCEPT ![t] = NoClick]
     /\ UNCHANGED <<saved, canvasWorkspaces, canvasWorkspaceIsDirty, restoring, panes, minted>>
-----------------------------------------------------------------------------
\* onWillSaveState: every minute, and when the window closes.
onWillSaveState ==
  /\ persisted' = currentCanvasWorkspace
  /\ UNCHANGED <<storage, disk, canvasWorkspaces, current, panes, clicks, minted>>

\* A while after a write the storage hands its cache to the database.
flushPending ==
  /\ disk' = [list |-> storage, current |-> persisted]
  /\ UNCHANGED <<storage, persisted, canvasWorkspaces, current, panes, clicks, minted>>

\* A window starts with what the database has: the workspace there waits for the store and
\* the renderer.  VS Code restores the groups.
Start(list, workspace) ==
  /\ storage' = list
  /\ persisted' = workspace
  /\ disk' = [list |-> list, current |-> workspace]
  /\ restoring' = workspace
  /\ SetCurrent(NoWorkspace, FALSE)
  /\ canvasWorkspaces' = << >>
  /\ onCanvas' = {}
  /\ clicks' = [t \in Slots |-> NoClick]
  /\ UNCHANGED <<groups, minted>>

\* The window is closed, which saves its state and flushes the storage, and opened again.
Restart ==
  /\ Start(storage, currentCanvasWorkspace)
  /\ UNCHANGED outdated

\* The window dies: what the storage had not flushed is lost.
Crash ==
  /\ Start(disk.list, disk.current)
  /\ outdated' = TRUE

\* Store and renderer are initialized: the workspace of the last window becomes the current one.
setCurrentCanvasWorkspace ==
  /\ restoring # NoWorkspace
  /\ SetCurrent(restoring, FALSE)
  /\ restoring' = NoWorkspace
  /\ UNCHANGED <<saved, canvasWorkspaces, outdated, panes, clicks, minted>>

Next ==
  \/ \E g \in Groups : OpenPane(g) \/ ClosePane(g)
  \/ \E S \in SUBSET Groups : SetMap(S)
  \/ \E id \in Ids : saveCurrentCanvasWorkspace(id) \/ deleteCanvasWorkspace(id)
  \/ overwriteCurrentCanvasWorkspace
  \/ loadCanvasWorkspaces
  \/ \E t \in Slots, id \in Ids : ClickWorkspace(t, id)
  \/ \E t \in Slots, g \in Groups : CloseEditor(t, g)
  \/ \E t \in Slots : ConfirmResult(t) \/ AbortOpening(t) \/ openCanvasWorkspace(t)
  \/ onWillSaveState
  \/ flushPending
  \/ Restart
  \/ Crash
  \/ setCurrentCanvasWorkspace

Spec == Init /\ [][Next]_vars
-----------------------------------------------------------------------------
\* No workspace is stored twice: overwriting finds it in the list, also when it is
\* current again after a crash although it was deleted.
StoredOnce == \A i, j \in DOMAIN storage : storage[i].uniqueId = storage[j].uniqueId => i = j

\* The current workspace is the one in the storage, whatever is deleted, overwritten or
\* opened at the same time, unless it is a copy that a starting window restored after a
\* crash, or after the user had deleted or overwritten the workspace in the new window.
CurrentIsStored ==
  ~ outdated /\ currentCanvasWorkspace # NoWorkspace
    => \E i \in DOMAIN storage : storage[i] = currentCanvasWorkspace

\* While a window lives, a stored workspace changes only if it is the current one, and goes
\* only if the user deletes it: splice never meets the index -1, because the panel lists
\* what is stored.  A crash alone may undo saves and deletes, those not yet flushed.
KeepsWorkspace(id) ==
  LET before == {storage[i] : i \in Places(storage, id)}
      after == {storage'[i] : i \in Places(storage', id)}
  IN before # after =>
       \/ id \notin minted
       \/ after = {} /\ deleteCanvasWorkspace(id)
       \/ currentCanvasWorkspace # NoWorkspace /\ currentCanvasWorkspace.uniqueId = id /\ after # {}
       \/ Crash

WorkspacesKept == [][storage' # storage => \A id \in Ids : KeepsWorkspace(id)]_vars
=============================================================================
