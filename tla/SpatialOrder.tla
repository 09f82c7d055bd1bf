---------------------------- MODULE SpatialOrder ----------------------------
(***************************************************************************)
(* SpatialSorter: the order in which Go to Next Editor and Go to Previous  *)
(* Editor walk the canvas, a depth-first walk of the dependency graph, and *)
(* the index of the walk.                                                  *)
(*                                                                         *)
(* The sorter keeps its own copy of the editors (cachedIdToEditorMap) and  *)
(* of their relationships, refreshed by SpatialSortMiddleware; isDirty     *)
(* says that sortedEditors is older than that copy.  sortEditors runs      *)
(* without interruption; its loops are steps here, and pc keeps everything *)
(* else waiting until it has returned to its caller.                       *)
(***************************************************************************)
EXTENDS Integers, SequencesExt

CONSTANTS
  Ids,           \* the uuids of editors, numbered in the order of insertion
  Edges,         \* the relationships there may be between editors
  Joined,        \* those the user may add by going to a definition
  Arrange,       \* groupAndSortEditors: the lists it may make of a set of editors
  Selections,    \* what the user may select
  NoIndex,       \* currentIndex is null
  MaxDrift       \* how far currentIndex may leave the order

\* Rows and columns (SpatialGrouping) neither lose nor add an editor.  Which list they give
\* depends on the order in which the editors come, when two are equally far from the origin.
ASSUME SpatialAssumption ==
  /\ Ids \subseteq Nat \ {0}
  /\ Edges \subseteq Ids \X Ids
  /\ Joined \subseteq Edges
  /\ Arrange \in [SUBSET Ids -> SUBSET Seq(Ids)]
  /\ \A S \in SUBSET Ids : Arrange[S] # {} /\ \A list \in Arrange[S] : ToSet(list) = S
  /\ Selections \subseteq SUBSET Ids
  /\ NoIndex \notin Int
  /\ MaxDrift \in Nat

NoEditor == 0

VARIABLES
  cached,         \* the keys of cachedIdToEditorMap
  relationships,  \* relationshipsMap, as pairs <<from, to>>
  doubled,        \* the pairs it has more than once
  sortedEditors,
  currentIndex,   \* counted from 0, as in the code
  isDirty,
  selection,      \* the store's selection
  pc,             \* where sortEditors is
  direction,      \* of the Go to Next Editor that waits for the order, or 0
  todo,           \* the editors a loop of buildTree has still to come to
  roots,
  globalVisited,
  root,           \* the editor detectCycle was called for
  localVisited,
  editorStack,    \* of detectCycle; in which order it is popped makes no difference
  isCycle,
  treeStack       \* of the walk, with the members in the place of their row or column

sorter == <<cached, relationships, doubled, currentIndex, selection>>
traversal == <<root, localVisited, editorStack, isCycle>>
vars == <<cached, relationships, doubled, sortedEditors, currentIndex, isDirty, selection, pc,
          direction, todo, roots, globalVisited, root, localVisited, editorStack, isCycle, treeStack>>

TypeOK ==
  /\ cached \subseteq Ids
  /\ relationships \subseteq Edges
  /\ doubled \subseteq relationships
  /\ sortedEditors \in Seq(Ids)
  /\ currentIndex \in Int \cup {NoIndex}
  /\ isDirty \in BOOLEAN
  /\ selection \subseteq Ids
  /\ pc \in {"idle", "first", "second", "walk", "go"}
  /\ direction \in {- 1, 0, 1}
  /\ todo \subseteq cached
  /\ roots \subseteq cached
  /\ globalVisited \subseteq cached
  /\ root \in cached \cup {NoEditor}
  /\ localVisited \subseteq cached
  /\ editorStack \subseteq localVisited
  /\ isCycle \in BOOLEAN
  /\ treeStack \in Seq(cached)

Init ==
  /\ cached = {}
  /\ relationships = {}
  /\ doubled = {}
  /\ sortedEditors = << >>
  /\ currentIndex = NoIndex
  /\ isDirty = TRUE
  /\ selection = {}
  /\ pc = "idle"
  /\ direction = 0
  /\ todo = {}
  /\ roots = {}
  /\ globalVisited = {}
  /\ root = NoEditor
  /\ localVisited = {}
  /\ editorStack = {}
  /\ isCycle = FALSE
  /\ treeStack = << >>
-----------------------------------------------------------------------------
(* The dependency graph: the relationships between cached editors.         *)

Graph == {r \in relationships : r[1] \in cached /\ r[2] \in cached}

Children(e) == {d \in cached : <<e, d>> \in Graph}

HasParent(e) == \E d \in cached : <<d, e>> \in Graph

\* The call of sortEditors, for a Go to Next Editor in direction d, or for the store.
sortEditors(d) ==
  /\ isDirty
  /\ pc' = "first"
  /\ direction' = d
  /\ todo' = cached
  /\ sortedEditors' = << >>
  /\ UNCHANGED <<isDirty, roots, globalVisited, traversal, treeStack>>

\* detectCycle(e, ...) is called.
Traverse(e) ==
  /\ root' = e
  /\ localVisited' = {e}
  /\ editorStack' = {e}
  /\ isCycle' = FALSE

\* The next editor of a loop over the editors, in the order of insertion.
InTurn(e) ==
  /\ root = NoEditor
  /\ e \in todo
  /\ \A d \in todo : e <= d
  /\ todo' = todo \ {e}

\* buildTree, first traversal: an editor nothing depends on is a root.
FirstTraversal(e) ==
  /\ pc = "first"
  /\ InTurn(e)
  /\ \/ /\ ~ HasParent(e)
        /\ roots' = roots \cup {e}
        /\ Traverse(e)
     \/ /\ HasParent(e)
        /\ UNCHANGED <<roots, traversal>>
  /\ UNCHANGED <<sorter, sortedEditors, isDirty, pc, direction, globalVisited, treeStack>>

FirstDone ==
  /\ pc = "first"
  /\ root = NoEditor /\ todo = {}
  /\ pc' = "second"
  /\ todo' = cached
  /\ UNCHANGED <<sorter, sortedEditors, isDirty, direction, roots, globalVisited, traversal, treeStack>>

\* Second traversal: from each editor no traversal has come to, in search of a cycle.
SecondTraversal(e) ==
  /\ pc = "second"
  /\ InTurn(e)
  /\ \/ /\ e \notin globalVisited
        /\ Traverse(e)
     \/ /\ e \in globalVisited
        /\ UNCHANGED traversal
  /\ UNCHANGED <<sorter, sortedEditors, isDirty, pc, direction, roots, globalVisited, treeStack>>

\* An editor is popped in detectCycle: its children are visited.  A child of this traversal
\* that is met again, or is in the list twice, counts as a cycle.
detectCycle(e) ==
  LET new == Children(e) \ (localVisited \cup globalVisited)
  IN /\ e \in editorStack
     /\ editorStack' = (editorStack \ {e}) \cup new
     /\ localVisited' = localVisited \cup new
     /\ globalVisited' = globalVisited \cup new
     /\ isCycle' = (isCycle \/ Children(e) \cap localVisited # {} \/ \E d \in new : <<e, d>> \in doubled)
     /\ UNCHANGED <<sorter, sortedEditors, isDirty, pc, direction, todo, roots, root, treeStack>>

\* Mutant of NewRoots: the second traversal finds no roots.
NewRootsParentless == roots

\* The second traversal makes an editor a root if it found a cycle.
NewRoots == IF pc = "second" /\ isCycle THEN roots \cup {root} ELSE roots

\* detectCycle returns.
Traversed ==
  /\ root # NoEditor /\ editorStack = {}
  /\ roots' = NewRoots
  /\ root' = NoEditor
  /\ localVisited' = {}
  /\ isCycle' = FALSE
  /\ UNCHANGED <<sorter, sortedEditors, isDirty, pc, direction, todo, globalVisited, editorStack, treeStack>>

\* buildTree returns: the walk begins with the roots.
SecondDone ==
  /\ pc = "second"
  /\ root = NoEditor /\ todo = {}
  /\ pc' = "walk"
  /\ treeStack' \in Arrange[roots]
  /\ UNCHANGED <<sorter, sortedEditors, isDirty, direction, todo, roots, globalVisited, traversal>>

\* Mutant of Pushed: what an editor depends on waits behind what was there before.
PushedBelow(rest, kids) == kids \o rest

\* The stack, popped from its end, with the children of an editor.
Pushed(rest, kids) == rest \o kids

\* The walk pops an editor, and skips one it meets again.
Visit ==
  LET e == treeStack[Len(treeStack)]
      rest == SubSeq(treeStack, 1, Len(treeStack) - 1)
  IN /\ pc = "walk"
     /\ treeStack # << >>
     /\ \/ /\ e \in ToSet(sortedEditors)
           /\ treeStack' = rest
           /\ UNCHANGED sortedEditors
        \/ /\ e \notin ToSet(sortedEditors)
           /\ sortedEditors' = Append(sortedEditors, e)
           /\ \E kids \in Arrange[Children(e)] : treeStack' = Pushed(rest, kids)
     /\ UNCHANGED <<sorter, isDirty, pc, direction, todo, roots, globalVisited, traversal>>

\* sortEditors returns: to the store, or to getNextEditor, which forgets its index.
Sorted ==
  /\ pc = "walk"
  /\ treeStack = << >>
  /\ isDirty' = FALSE
  /\ roots' = {}
  /\ globalVisited' = {}
  /\ \/ /\ direction = 0
        /\ pc' = "idle"
        /\ UNCHANGED currentIndex
     \/ /\ direction # 0
        /\ pc' = "go"
        /\ currentIndex' = NoIndex
  /\ UNCHANGED <<cached, relationships, doubled, sortedEditors, selection, direction, todo, traversal,
                 treeStack>>
-----------------------------------------------------------------------------
sorting == <<pc, direction, todo, roots, globalVisited, traversal, treeStack>>

\* getClosestEditorIndex: the neighbour of a single selection.  sortEditors.length is
\* the number of parameters of the method sortEditors, 0.
Neighbour(order, d) ==
  LET i == CHOOSE k \in DOMAIN order : order[k] \in selection
  IN IF d = 1
       THEN IF i = Len(order) THEN 0 ELSE i
       ELSE IF i = 1 THEN 0 - 1 ELSE i - 2

\* Without one, the editor closest to the centre of the viewport, whichever that is.  A
\* single selection that is not in the order leaves index at the end of the order, where
\* the first pass goes on counting.
getClosestEditorIndex(order, d) ==
  CASE \E e \in ToSet(order) : selection = {e} -> {Neighbour(order, d)}
    [] \E e \in Ids \ ToSet(order) : selection = {e} -> 0 .. 2 * Len(order) - 1
    [] OTHER -> 0 .. Len(order) - 1

\* The values currentIndex may take.
NextIndex(order, index, d) ==
  CASE index = NoIndex -> getClosestEditorIndex(order, d)
    [] d = - 1 /\ index = 0 -> {Len(order) - 1}
    [] d = 1 /\ index = Len(order) - 1 -> {0}
    [] OTHER -> {index + d}

\* EDITOR_CHANGE with editors mounted, removed or changed: the sorter copies the map.
shouldCacheAndRegenerateRelationships(S) ==
  /\ pc = "idle"
  /\ cached' = S
  /\ isDirty' = TRUE
  /\ UNCHANGED <<relationships, doubled, sortedEditors, currentIndex, selection, sorting>>

\* The relationships arrive after the await, and the middleware asks for the order, which
\* is computed if it is older than the copy.
buildRelationshipGraph(rels) ==
  /\ pc = "idle"
  /\ relationships' = rels
  /\ doubled' = {}
  /\ sortEditors(0) \/ (~ isDirty /\ UNCHANGED <<isDirty, sortedEditors, sorting>>)
  /\ UNCHANGED <<cached, currentIndex, selection>>

\* EDITOR_CHANGE with nothing but positions changed also asks for the order.
getSortedEditors ==
  /\ pc = "idle"
  /\ sortEditors(0)
  /\ UNCHANGED sorter

\* An arrow is added at once when the user goes to a definition, also if it is there.
unconditionallyAddRelationship(edge) ==
  /\ pc = "idle"
  /\ relationships' = relationships \cup {edge}
  /\ doubled' = doubled \cup ({edge} \cap relationships)
  /\ UNCHANGED <<cached, sortedEditors, currentIndex, isDirty, selection, sorting>>

\* SELECTION_CHANGE outside of a walk.
resetIndex(S) ==
  /\ pc = "idle"
  /\ selection' = S
  /\ currentIndex' = NoIndex
  /\ UNCHANGED <<cached, relationships, doubled, sortedEditors, isDirty, sorting>>

\* Mutant of selectEditor: the index instead of the editor.
selectIndex(order, i) == {i}

\* sortedEditors[i] becomes the selection, unless it is undefined.
selectEditor(order, i) == IF i + 1 \in DOMAIN order THEN {order[i + 1]} ELSE selection

\* getNextEditor with the order at hand.  The editor the index points to, if any, becomes
\* the selection; isTraversing keeps this change of the selection from resetting the index.
getNextEditor(d) ==
  /\ \/ /\ sortedEditors = << >>
        /\ UNCHANGED <<currentIndex, selection>>
     \/ /\ sortedEditors # << >>
        /\ currentIndex' \in NextIndex(sortedEditors, currentIndex, d)
        /\ currentIndex' >= - MaxDrift /\ currentIndex' < Len(sortedEditors) + MaxDrift
        /\ selection' = selectEditor(sortedEditors, currentIndex')
  /\ pc' = "idle"
  /\ direction' = 0
  /\ UNCHANGED <<cached, relationships, doubled, sortedEditors, isDirty, todo, roots, globalVisited,
                 traversal, treeStack>>

\* The order is computed first if it is older than the copy.
goToNextEditor(d) ==
  /\ pc = "idle"
  /\ \/ sortEditors(d) /\ UNCHANGED sorter
     \/ ~ isDirty /\ getNextEditor(d)

Sorting ==
  \/ \E e \in Ids : FirstTraversal(e) \/ SecondTraversal(e) \/ detectCycle(e)
  \/ FirstDone
  \/ Traversed
  \/ SecondDone
  \/ Visit
  \/ Sorted

Next ==
  \/ Sorting
  \/ pc = "go" /\ getNextEditor(direction)
  \/ \E S \in SUBSET Ids : shouldCacheAndRegenerateRelationships(S)
  \/ \E rels \in SUBSET Edges : buildRelationshipGraph(rels)
  \/ getSortedEditors
  \/ \E edge \in Joined : unconditionallyAddRelationship(edge)
  \/ \E S \in Selections : resetIndex(S)
  \/ \E d \in {1, - 1} : goToNextEditor(d)

Spec == Init /\ [][Next]_vars
-----------------------------------------------------------------------------
\* The order lists no editor twice and, when it is up to date, every editor the sorter knows,
\* whatever cycles the relationships have: the walk of Go to Next Editor leaves out none.
OrderIsComplete ==
  /\ IsInjective(sortedEditors)
  /\ ~ isDirty => ToSet(sortedEditors) = cached

\* What e reaches along rels without passing through an editor of S: the least set that
\* has e and, with an editor, all it depends on but those of S.
Reached(rels, e, S) ==
  {d \in Ids : \A Y \in SUBSET Ids :
     e \in Y /\ (\A r \in rels : r[1] \in Y => r[2] \in Y \cup S) => d \in Y}

\* The order is depth-first: each editor is followed at once by everything it depends on
\* that was not listed before, so that a walk stays within a group of dependencies.
IsDepthFirst(order, rels) ==
  \A i \in DOMAIN order :
    \E k \in i .. Len(order) :
      {order[j] : j \in i .. k} =
        Reached({r \in rels : r[1] \in ToSet(order) /\ r[2] \in ToSet(order)},
                order[i], {order[j] : j \in 1 .. i - 1})

\* "We do a DFS to sort all canvas editors.": every sort gives such an order.
SortIsDepthFirst ==
  [][isDirty /\ ~ isDirty' => IsDepthFirst(sortedEditors', relationships')]_vars

\* "If we have a single selection. Just use that.": a walk that begins with one editor
\* selected goes to the editor before or after it.
SingleSelectionIsUsed ==
  [][\A d \in {1, - 1}, i \in DOMAIN sortedEditors :
       /\ goToNextEditor(d)
       /\ ~ isDirty /\ currentIndex = NoIndex
       /\ selection = {sortedEditors[i]}
       => selection' = {sortedEditors[1 + ((i - 1 + d) % Len(sortedEditors))]}]_vars
=============================================================================
