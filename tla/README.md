# Verification of the Haystack canvas

Haystack Editor is a fork of VS Code in which editors are placed freely on an infinite
canvas. Its own code is the canvas: a store of editors on the canvas
(`src/vs/workbench/browser/haystack-frontend`), and a service that connects the store to VS
Code (`src/vs/workbench/services/haystack/browser/haystackService.ts`). This directory holds
TLA+ models of the parts of the canvas whose correctness depends on the order of events, the
TLC runs that check them, and TLAPS proofs. Paths below are relative to
`src/vs/workbench/browser/haystack-frontend` unless they start with `services/`.

## 1. Inventory

| Component | State | Operations | Interacts with |
|---|---|---|---|
| Workspace store (`workspace/workspace_store.ts`) | `idToEditorMap`, `selection`, `openEditors`, focus and history stacks, camera and scale | about 150 actions; every `set` first calls the middlewares | everything |
| Undo and redo (`middleware/undo_redo_*.ts`) | undo and redo stacks, open batch with its timestamp | `push`, `commit`, `undo`, `redo`, `setTrackChanges` | called by `set`; replaces the map; closes panes |
| Editor lifecycle (store, `editor/*.tsx`, service) | editors, their panes, close flags, calls in progress | insert, open pane, close, bulk close, reload, select, pin | VS Code's editor groups, the user's answers |
| Navigation history (store, `middleware/history_stack_middleware.ts`) | back and forward stacks, `focusedEditorId`, two context keys | focus, back, forward, clean | `set`; close operations go back by themselves |
| Dependency sorts (`middleware/spatial_sort_middleware.ts`, `spatial_sorter.ts`) | promise queue, cached editors, relationships, arrows, highlights | `handleStoreChange`, refresh, add a relationship | language servers, timers |
| Saved workspaces (`middleware/canvas_workspace_middleware.ts`, service) | stored list, current one, dirty flag | open, save, overwrite, delete, restore at startup | storage (`base/parts/storage`), which flushes later |
| Selection history (store, `code_editor_container.tsx`) | per editor a stack of selections before and after the current one | cursor moves, jump back, jump forward | VS Code's cursor listener |
| Spatial order (`middleware/spatial_sorter.ts`) | copy of the editors, relationships, the sorted list, index of the walk | sort, next and previous editor | sorts, selection |
| References editors (store, `editor/references_editor.tsx`, `editor/contrib/gotoSymbol/browser/peek/`) | editors, the widget and model of each controller, request counter | search, create, show, close, dispose | code editors, language servers, cancelable promises (`base/common/async.ts`) |
| Ghost editors | ghost sets | none is ever called | |
| Canvas rendering, pointer handlers, React containers | scene, drag state | draw, drag, resize, zoom | store |
| Settings, AI, telemetry, onboarding; the rest of VS Code | | | outside |

What is hard. JavaScript runs a handler to its next `await` without interruption; at an
`await` anything may happen. The store's operations await panes that VS Code opens, sizes and
symbols that language servers compute, and answers of the user to "save your changes?". A
close comes back twice: as an event while VS Code closes the pane, and as the result of the
call that asked for it. Undo closes panes and does not wait. Timers cut the sort queue.

What makes each part correct:

- undo and redo: the history is a line of states with a cursor; nothing but a new visible
  change forgets what can be redone;
- lifecycle: a closed editor stays closed, a bulk close is complete or abandoned, a reload
  keeps its editor, and save finds every open pane;
- navigation: the commands are enabled exactly when their stack is not empty, deleted editors
  leave the back stack, and back followed by forward changes nothing;
- sorts: they take turns, none waits for ever, and at rest, as long as no timer cut a call
  short, the drawing is that of the canvas;
- selections: jumping back and then forward changes nothing, and no older selection is lost;
- spatial order: it lists every editor once, depth first, whatever cycles there are;
- references editors: none outlives its code editor unless an old copy of the map brings it
  back, a model goes to its own widget or, if its promise is not cancelled, is disposed, and an
  editor names references of its own model;
- saved workspaces: none is doubled, and while the window lives none is lost or overwritten
  except by the user's own act on it; a crash undoes only what was not yet flushed.

`PROJECT.json` lists the components with their sources, and every hazard at its line.

## 2. Modules

| Module | Models | Used by |
|---|---|---|
| `CanvasEditor` | the records of `idToEditorMap` as undo sees them | `UndoRedoBuffer` |
| `UndoRedoBuffer` | class `UndoRedoBuffer`, its methods as operators from buffer to buffer | `UndoRedo` |
| `UndoRedo` | class `UndoRedoMiddleware` between store, buffer and closing panes | `MCUndoRedo`, `UndoRedoProofs` |
| `Timeline` | the abstract line of states | refined by `UndoRedo` |
| `EditorLifecycle` | the asynchronous operations on editors | `MCEditorLifecycle`, `EditorLifecycleProofs` |
| `HistoryStack` | navigation history | `MCHistoryStack`, `HistoryStackProofs` |
| `SortQueue` | the queue of dependency sorts | `MCSortQueue`, `SortQueueProofs` |
| `CanvasWorkspaces` | saved workspaces | `MCCanvasWorkspaces`, `CanvasWorkspacesProofs` |
| `SelectionHistory` | selection history inside an editor | `MCSelectionHistory`, `SelectionHistoryProofs` |
| `SpatialOrder` | the spatial sorter and the walk over it | `MCSpatialOrder`, `SpatialOrderProofs` |
| `SpatialGrouping` | rows and columns, the lists the sorter puts on its stack | `MCSpatialOrder` |
| `ReferencesEditors` | references editors, their widgets and models | `MCReferencesEditors`, `ReferencesEditorsProofs` |

**Undo.** The state is the store's map, the buffer, the panes undo has asked VS Code to close,
and the clock. The only key the middleware pushes is `idToEditorMap`, so an item of a stack is
one map. `SetEditors` stands for any store operation that replaces the map; `Set` is the
store's `set` with the middleware's handler before it. `handleUndo` and `handleRedo` contain
the ghost filter and the closing of panes. A pane that is asked to close is answered later by
`PaneClosed` (`respondToEditorClosing`, itself a tracked change of the map, in which an editor that a
reload told not to respond stays) or `CloseRefused`. `setEditorDirty` and `onSaveEditor` switch tracking off around their `set`.
Positions and sizes are one opaque value.

**Lifecycle.** Each call in progress holds a task: its operation, and the local variables that
live across an `await` (the id, a copied map, the pane, the remaining editors). Each stretch
between two awaits is one action: `StartSymbol` and `insertSymbolEditorAtCenterOfViewport` are
the two halves of one function. `effects` are the mounted React components whose effect has to
open a pane; `SetMap` is the store's `set` together with React's mounting. `panes` is what is
open in VS Code, `openEditors` what the store believes. A close is asked (`AskClose`, `Visit`),
answered by VS Code or the user (`Answer`, which runs the close event's handler first, as VS
Code does), and then finished by its caller (`closeEditor`, `Visited`, `Refused`). An editor is
inserted with or without a range, and one with a range is reloaded by `refreshEditRange`. `Next` holds
the operations that read the map after their awaits, and the `refreshEditRange` whose copy is
still the map (`refreshEditRangeInTime`); `Stale` adds the writes of a map that has changed since it
was copied (`insertSymbolEditorAtCenterOfViewport`, `openFileDiffEditorForCanvasEditor`,
`refreshEditRange`). `insertEditorAtPosition` is modelled although nothing calls it at this
commit. Geometry, focus and telemetry are left out. The model allows slightly more than the code: a bulk close visits the
editors in any order, and two calls of `closeFileEditor` for the same pane count as one.

**Navigation.** The stacks hold uuids, `null` and `undefined`, which the code can tell apart
only with `===`; both are kept. The operators (`Focus`, `GoBack`, `GoForward`,
`cleanHistoryStacks`) are the store's functions; actions combine them with the refresh of
the context keys. The commands' preconditions (`parts/editor/editorActions.ts`) are the guards.
A blur comes only from the editor that has the focus, as the containers check. Deleted editors
stay in the forward stack as long as nothing is removed from the back stack, so Go Forward may be
enabled and land nowhere: `ButtonsMatchStacks` is about empty stacks, and
`DeletedLeaveBackStack` about the back stack alone.

**Sorts.** A call holds its event's two maps (the second one until its turn, it is not read again),
its stage, and whether its queue item is resolved. `handleStoreChange(i)` is the stretch from its
turn to the request or the return; `generateRelationshipMap(i)` is everything after the answer. An
editor of a map has a place, a pin and a symbol; where two editors stand matters only for whether one
reaches the middle of the other (`Overlaps`), so the canvas scale is left out. The cache compares
editors, pins and symbols; an editor opened again in a new pane counts as another member
of `Ids`, because it compares panes too. What the language servers find is a constant
(`Dependencies`) of the two editors and their symbols; that an editor of a whole file is `SAME_FILE`
and gets no color is kept. `Arrows` has every skip of `generateDependencyArrows`. The set
`symmetricalEditors`, which the code fills as its loop goes on, is written without the loop;
`LoopAgrees` in `MCSortQueue` has TLC compare it with the loop for all relationships of three
editors. The order of the keys is left open (`Orders`). Colors are the pairs that have one, the
sorted list the editors it holds. All timers have the same length, so they fire in
the order of the calls, and only when no call can go on by itself: promise continuations
(microtasks) run before timers. Two variables are no state of the program but history that
`ArrowsOfCanvas` refers to: `cutShort` (a timer fired or a request failed) and `joinedEarly` (the
user joined a pair while a request was under way). `ArrowsShow` says what arrows a map owes its
relationships, without mentioning the loop: one of two editors that depend on each other points to the
other, and only arrows to an editor of such a pair may be missing. Of colors it claims that related symbols have
one and that they are of editors of the canvas, with the exceptions its comment names; colors
of related symbols whose ranges changed while an editor was opening are not claimed to go.

**Saved workspaces.** `storage` and `persisted` are the two keys in the cache of VS Code's storage,
`disk` what its database has of them, `canvasWorkspaces` the copy in the store that the panel
shows. A workspace is its uuid and its groups, which stand for the saved layout. The storage
writes through to its cache and flushes 100 ms later (`flushPending`); `Crash` goes
back to the last flush, `Restart` loses nothing. The current workspace is put into the storage only by
`onWillSaveState`, so a crash brings back that of the last minute. A window that starts waits for
store and renderer before it makes that workspace current (`restoring`, `setCurrentCanvasWorkspace`), and the user may
save or delete meanwhile; closing the window within that time forgets it. `outdated` is history:
the copy to be restored, or restored, is from before a crash, a delete or an overwrite. A click holds what lives
across its awaits: the workspace clicked and the editors the closing loop has still to close.
Panes come and go at any time (`OpenPane`, `ClosePane`), which also covers VS Code restoring the groups of an
opened workspace. An editor may be on the canvas without its pane: a reload told it not to
respond to the close event (`ClosePane`), or undo brought it back (`SetMap`).

**Selections.** `h` holds the current selection of each editor and both maps of stacks.
`pushToEditorSelectionHistory` copies the forward map from the backward one, arrays included, so
afterwards the two entries of every other editor are one array; `shared` says of which. A jump
pops and pushes arrays in place and then replaces both by copies: for an editor in `shared` the
push hits the stack that was popped. The cursor listener runs inside the jump; its own push is
overwritten, its selection is kept (`Jumped`). VS Code moves a selection to what the file still
has (`Clamp`, external).

**Spatial order.** `sortEditors` runs without interruption, but its loops are steps: the first
traversal of `buildTree` (the editors without a parent), the second one (a root for each cycle
not met so far), the loop of `detectCycle` in both, and the walk with its stack. `pc` keeps
everything else waiting until the sort has returned, to the store (`direction` 0) or to
`getNextEditor`. `editorStack` is a set, because the order in which `detectCycle` pops decides
neither what is visited nor whether a cycle is found. `doubled` are the pairs that
`unconditionallyAddRelationship` has pushed a second time: the child met twice counts as a
cycle. `Arrange` gives the lists `groupAndSortEditors` may make of a set of editors; `SpatialGrouping`
defines them from the rectangles, with a popped row or column replaced by its members at once,
and one list for every order in which the editors may come, since `Array.sort` is stable and
ties are common. Around the sort are the actions that refresh the copy, the relationships
and the index. `isDirty` is set only by a new copy, as in the code. The editor closest to the
centre of the screen is any editor of the order; the index, counted from 0, may leave the order
in both directions.

**References editors.** A model is named by the uuid of its editor. The request counter is
kept as the answer it gives, whether a request is the latest one. A request goes through the stages
of its promises: `pending` (the model is being computed), `model` (it is settled, its
continuation is to come) and `input` (the tree takes the model). Every way to
close a widget is `CloseWidget`; the widget's dispose listener cancels a promise that is pending, which is then
rejected and whose model nobody disposes (history variable `cancelled`). When a code editor is disposed
its controller drops that listener first, so its promises go on and their models are disposed on arrival.
`closeReferencesEditor` waits for the service and then closes
the widget the controller has by then. `CopyMap` and `WriteCopy` are the store operations that write
an old copy of the map, such as the one that opens a diff editor: editors closed meanwhile return (history
variable `restored`) and their components are mounted again. The widget class has no field `nodeId`, so the
controller's two calls of `deleteEditor` never happen, and the model has none.

## 3. Runs

Deadlock is checked except in the lifecycle and references runs, where uuids and panes are
bounded and run out and code editors are disposed for good, so a finite model stops although the program would not.

| Run | Config | Bounds | Shows |
|---|---|---|---|
| `undo_redo` | `MCUndoRedo` | 2 editors of 3 kinds, clean or dirty; window 1, clock 2; 2 recorded changes | types; an open batch has no redo; undo then redo returns; late closes keep the history; refinement of `Timeline` |
| `bulk_close` | `MCBulkClose` | 2 editors, code or merge, 2 panes, 2 calls | delete, close all and workspace switch, with inserts (also at a position), selections, vetoes and VS Code's own closes |
| `reload` | `MCReload` | same, code editors with and without a range | reloads racing closes, inserts and a workspace switch |
| `insert` | `MCInsert` | same, code or modal, with and without a range | inserts that read the map late, workspace switch, pin, VS Code's own closes |
| `stale_writes` | `MCStaleWrites` | same, diff editors | violated: a diff editor's late write resurrects deleted editors |
| `history_stack` | `MCHistoryStack` | 3 editors, stacks of 4 | commands are enabled exactly when their stack is not empty; deleted editors leave the back stack; back then forward is the identity |
| `sort_queue` | `MCSortQueue` | 3 editors on 5 canvases (apart, one inside the other, pinned, whole file, three editors), 2 orders of the keys, 3 calls, one pair joined by hand | turns, arrows at rest also after moves that came while an editor was opening, and every call begins |
| `workspaces` | `MCCanvasWorkspaces` | 2 workspaces, one group of a code editor, 2 clicks, of which one asks about changes at a time (the dialog is modal) and one comes while a window still starts; workspaces and clicks are symmetric | no workspace is stored twice; while the window lives none is lost or changed by an act on another; the current one is stored unless restored from an outdated copy |
| `selection` | `MCSelectionHistory` | 2 editors, 3 ranges, files of 2 lengths, stacks of 3 | jumps are undone by jumps, older selections stay |
| `spatial_order` | `MCSpatialOrder` | 3 editors in a row and a column, 5 relationships with cycles of 1, 2 and 3, one of which may be added twice | the order is complete and depth-first |
| `single_selection` | `MCSingleSelection` | same | violated: stepping back from the first editor selects nothing |
| `references` | `MCReferencesEditors` | 2 code editors, 2 references editors, 1 operation that writes an old map; all symmetric | hosts, models and named references are in place whatever answers first, apart from cancelled promises and editors an old map brings back |

Why the bounds are enough. Two editors and two calls give every race of two operations,
and a closed and a remaining editor; two panes per run let an editor be reopened while its old
pane is still closing. A clock of two ticks with a window of one has pushes inside, at and
beyond the window; two recorded changes fill both stacks with an open batch beside them. Stacks
of four hold every editor, the canvas and a repetition. Three calls in the queue give a call that
waits for an asking one, a late answer, a failed request, and a canvas that returns to editors
cached earlier; the first two editors depend on each other, and the third, which depends on the first,
is still opening while the first two change. Two of the three cursor positions
are five lines apart, one too few to be recorded, and one lies beyond the shorter file; stacks of
three go below the top of an array that is shared. Two references editors let a widget be
replaced while the promise or the continuation of the other is still to come, in one code editor or in two, and
one writer brings back either. Two workspaces give one that is acted on and one that must stay, and
one group a canvas that is or is not that of the workspace. Three editors give a row beside a column, a cycle that is reached from a root
and one that is not, and the two of them that are equally far from the origin tie. The proofs remove these bounds for the properties they cover.

Every passing property has a mutant in `PROJECT.json`: a plausible slip in the code (a dropped
guard, a skipped refresh) under which TLC finds the property violated. The mutated forms stand
in the modules, directly before the definition they change, marked "Mutant of".

**Fairness.** Only `EveryCallBegins` needs any: weak fairness of "some call that may begin begins" and of
"some timer that is due fires". The JavaScript engine gives both: resolved promises are continued
and `setTimeout` callbacks are run. Nothing is assumed of language servers, which may never
answer. All other properties are safety properties of specifications without fairness.

## 4. Findings

Two runs are expected to be violated; each states what a comment in the code says, and
`PROJECT.json` quotes it with its line: `openFileDiffEditorForCanvasEditor` writes back an old
map, so closed editors return; and stepping back from a selected first editor takes the length
of a method for that of the list.

Met while modelling, with no run of their own:

- `refreshEditRange` writes back a map in which the one-shot flag is still set, so two close
  events are rejected, where a comment says one (workspace_store.ts 3135 against 2911);
- the forward stack keeps deleted editors when nothing was removed from the back stack, so Go
  Forward is enabled with nowhere to go (workspace_store.ts 3375 against history_stack_middleware.ts 27);
- of two editors that depend on each other one is in `symmetricalEditors`, and no editor whose turn comes
  later gets an arrow to it, also a third one that merely depends on it (spatial_sorter.ts 247 and 295);
- a window closed before its workspace was restored stores that there is none
  (haystackService.ts 361 against 408);
- after the five-second timer a late answer overwrites newer relationships
  (spatial_sort_middleware.ts 126 against 123);
- a pair joined while a request is under way colors the relationships from before the request;
  if the canvas then returns to the cached editors, nothing is regenerated and the colors of a
  closed editor stay (spatial_sort_middleware.ts 155). The attempt to prove `ArrowsOfCanvas`
  brought this out, and TLC shows it with three editors and three calls; the property now names the exception;
- after a push in one editor, jumping back twice in another one returns to where it began
  (workspace_store.ts 3202); nothing older is lost, which is what `OlderSelectionsKept` says;
- the continuation of a closed references widget can put the reference of another model into
  its editor (referencesController.ts 223); only the shown editor is safe;
- a model whose promise is pending when its widget is closed or replaced is never disposed: the
  promise is cancelled and rejected, and the value only arrives at nobody (referencesController.ts
  166, `base/common/async.ts` 40);
- a references editor that a late write of an old map puts back may have no code editor any more, and
  its component fails to draw it (workspace_store.ts 2161, references_editor.tsx);
- `closeWidget` means to delete the editor of its widget but asks for a field the widget does
  not have (referencesController.ts 323).

Three more comments disagree with their code and have no run of their own: a batch of undo is
closed 250ms after its first push, not after a pause of 250ms (undo_redo_buffer.ts 29); Go Forward pushes the
canvas on the back stack (workspace_store.ts 3266 against 3176), and highlights are made from the
event's map where the comment says the store's (spatial_sort_middleware.ts 153).

## 5. Proofs

All theorems are for arbitrary sets of editors, panes, calls and stack lengths, from the
assumptions named in the modules (constants are distinct, bounds are naturals, `Ids` is finite
for the count of a bulk close). TLC evaluates the assumptions in the runs.

- `UndoRedoProofs`. The inductive invariant is `TypeOK`, `OpenBatchHasNoRedo` and that tracking
  is on between handlers. The middle part is needed because `redo` does not commit: with an
  open batch and a filled redo stack it would record out of order, so neither round trip nor
  refinement would follow from types. From it: `TypeCorrect`, `OpenBatchSafe`,
  `UndoRedoRoundTrip`, `LateCloseSafe`, and `Refinement`, which maps the undo stack with the
  open batch on top to the past, and every action to a step of `Timeline` or a stutter.
- `EditorLifecycleProofs`. `NeverResurrects` follows action by action: every write of `Next`
  has a domain that is part of the current one, or adds a uuid not generated before. `LivePanesAreListed` needs
  more: a pane is safe if it is listed, or has been opened and is no longer open; the invariant
  says that the map's panes and those of every map copied into a task are safe, and that
  panes and lists hold only opened panes. A pane never becomes unsafe, because a listed pane is
  dropped only after it has closed and a closed one never opens again; so even a write of an
  old map is harmless for save. It is proved for `StaleSpec`, with the stale writers.
  Two theorems are for `Spec`, without the stale writers (a `refreshEditRange` in time is part of it). `ReloadsKeep` rests on three
  facts that hold together (`RInv`). While a reload is under way and its old pane is open, the
  editors that show the pane ignore close events. That lasts only because no other editor can
  take over that pane: a pane just opened for a call is in no editor and belongs to no other
  call, and no two editors share a pane. Most actions preserve all three for one reason
  (`TameStep`: an editor keeps pane and flag, or has no pane, and no call gains a pane); the others
  (a pane opens, an editor receives it, a reload begins) have a case each.
  `BulkClosesComplete` needs to know what a bulk close has achieved halfway (`BInv`): of the editors it
  started with and is done with, a workspace switch has lost all, because it stops at
  the first refusal; a delete has lost at least as many as it has counted, and when it has counted as
  many as it started with, `FiniteSetTheorems` gives that all are gone. Lost editors stay lost because uuids in use
  were all generated before, and, as `NeverResurrects` has it, no step brings one back; the proof cites
  that lemma (`AppearsNew`).
- `HistoryStackProofs`. `BackThenForward`: for every pair of stacks and set of editors, if the
  focus and the top of the back stack exist, forward after back is the identity. The lemma is
  that popping stops at the top when the top is valid. `TypeCorrect`, `ButtonsCorrect` and
  `RoundTrip` also need what cleaning and landing return: `Filter` and `Landing` are defined by
  the places of a stack that still hold something, and the lemmas `Least` and `Greatest`, from
  the well-foundedness of the naturals, give the induction that a recursive definition would not
  have. The invariant says that the command states match the stacks. `BackStackCleaned` is an action
  property that follows from these lemmas: whatever deletes editors filters the back stack in the same
  step, and only Go Forward from a deleted editor pushes one again.
- `SortQueueProofs`. The invariant: a resolved item belongs to a call that had its turn, and a
  call had its turn only after all earlier items were resolved. A timer keeps the first part
  because it fires only when nothing can go on, and then its call, whose predecessor is
  resolved, has begun. From it `SortsAreSerial` and `TypeCorrect`. `ArrowsAreOfCanvas` adds `AInv`.
  Its first part, `NoneLost`, holds always: once every editor is open, the last
  call has the canvas of now, and a call whose event shows no change has other editors than the
  call before it, so that what was ignored while an editor opened is made up for. The second holds while no timer has cut a call
  short: the cache has the editors of the call that began last (`CacheOfLast`); with no request under
  way relationships, list and colors are those of the cache (`Settled`, `ColorsKnown`); and the arrows are
  drawn from the last map of the calls and are what `ArrowsShow` asks of it (`DrawnNow`). That `Arrows`
  gives these for every order of the keys is a lemma of its own (`OneOfTwo`, `Drawn`). The cache is what ties these together:
  a call that asks changes it before its await, and the comparison with it decides
  whether the next call asks again.
- `SelectionHistoryProofs`. The invariant is `TypeOK` and `SharedAgree`: entries that are one
  array have one value. Without the second part a jump in an editor with a shared array could
  replace a stack by an unrelated one. From it `TypeCorrect`, `JumpsReturn` and `NothingLost`.
- `ReferencesEditorsProofs`. The four properties are proved together with: a current request
  belongs to the widget its controller has (`RequestsSound`), an editor has one request for its
  model at most unless it was brought back (`OneRequest`), a widget's editor was created for that controller
  (`WidgetsSound`), an editor that was never drawn names nothing (`UndrawnNamesNone`), and neither do the
  copies of the map still to be written (`CopiesSound`), which also hold nothing foreign for a shown editor. The
  first is what makes the comparison of the counter sufficient in `ModelArrives`.
- `CanvasWorkspacesProofs`. The invariant adds that the panel shows the stored list or nothing
  (so a click is about something stored), and that every stored uuid was generated before (so a
  new workspace never takes the place of another). The same is said of the database (`FlushedOnce`)
  and of the workspace a new window has still to restore (`RestoringIsStored`), because a crash or
  the end of the startup makes them the list and the current workspace. From it `TypeCorrect`, `StoredOnlyOnce`,
  `CurrentStored` and `NothingElseChanges`.
- `SpatialOrderProofs`. What is hard in `OrderComplete` is that the roots reach every editor,
  although a traversal stops at editors that an earlier one has visited. Reaching is stated by
  closed sets, which need no induction: a set is closed if it has, with an editor, all its
  children, and the claim is that a closed set with all the roots has every editor
  (`RootsReachAll`). The invariant of the first traversal (`FirstInv`) says that a closed set around
  the roots contains what has been visited. In the second one (`SecondInv`) an editor may have
  been gone through without becoming a root, and then lies outside some closed set around the
  roots. Such an editor did not lead back into its own traversal, and the children it has are
  none of the current one (`NoneLeadsBack`); therefore among any editors outside the set there is one
  that none of the others leads to, as far as children have been seen (`HasSource`). When nothing is
  left to do, take all the editors outside: one has no parent among them and none in the closed set,
  so it has no parent, was made a root in the first traversal, and is not outside.
  `DepthFirst` adds `DInv` for the walk: from each listed editor on,
  the list has only what that editor leads to without passing through those before it; what these lead to is
  among them, before, or on the stack above a mark; and once the list has gone on with something
  else, nothing is above the mark (`Deep`). At the end the stack is empty, so the part is closed and
  therefore all that the editor reaches.

`TypeCorrect` and `LivePanesAreListed` of the lifecycle hold for `StaleSpec`, so the stale
writers need no passing run of their own.

Only model-checked: liveness (`EveryCallBegins`), which is outside the prover's reach. The proofs
about the spatial order assume of `Arrange` only that a list has the editors of its set. That
`SpatialGrouping` gives such lists is checked by TLC, in the assumption, for the rectangles
of the run; it is not proved, because sorting and grouping are folds over data.

## 6. Not modelled

Geometry (placement of new editors, zoom, pinning coordinates) is arithmetic on floating point
numbers; only the rows and columns of the spatial order are modelled. Rendering, React containers, settings, telemetry and dialogs carry
no protocol beyond the calls above. VS Code itself is the environment: it opens and closes
panes, fires events and keeps context keys. Ghost editors are dead code: nothing calls the
functions that make them (`insertGhostEditorAtCenterOfViewport`, `addGhostEditorSet`,
`removeGhostEditorSet`). `rearrangeAllEditors` and symbol navigation are geometry and language
services around the write of an old map, which the stale writers of `EditorLifecycle` have
already. Hazards without a property say why in `PROJECT.json`.

## 7. Plan

Done, in the order of importance: undo and redo with its abstract specification and proofs;
the lifecycle of editors; navigation history; the sort queue; saved workspaces; selection
history; the spatial order; references editors; the proofs of every safety property of these.

Next:

1. A composition of `UndoRedo` and `EditorLifecycle`: undo restores editors whose panes have
   closed, and their effects reopen them.
2. `rearrangeAllEditors` as a further stale writer, with the sorter's copy of the map.
