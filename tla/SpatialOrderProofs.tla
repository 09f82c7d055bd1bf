-------------------------- MODULE SpatialOrderProofs --------------------------
(***************************************************************************)
(* The order of the editors for every canvas, every set of relationships   *)
(* and every arrangement in rows and columns: it is complete, although     *)
(* cycles have no root, and depth-first.                                   *)
(***************************************************************************)
EXTENDS SpatialOrder, TLAPS

\* The elements of a list, and of a list that has grown or lost its last element.
LEMMA ListAppend ==
  ASSUME NEW S, NEW s \in Seq(S), NEW e
  PROVE  ToSet(Append(s, e)) = ToSet(s) \cup {e}
  <1>1. DOMAIN Append(s, e) = DOMAIN s \cup {Len(s) + 1}
    OBVIOUS
  <1>2. \A i \in DOMAIN s : Append(s, e)[i] = s[i]
    OBVIOUS
  <1>3. Append(s, e)[Len(s) + 1] = e
    OBVIOUS
  <1> QED BY <1>1, <1>2, <1>3 DEF ToSet

LEMMA ListConcat ==
  ASSUME NEW S, NEW s \in Seq(S), NEW t \in Seq(S)
  PROVE  ToSet(s \o t) = ToSet(s) \cup ToSet(t)
  <1>1. Len(s \o t) = Len(s) + Len(t) /\ DOMAIN (s \o t) = 1..(Len(s) + Len(t))
    OBVIOUS
  <1>2. \A i \in DOMAIN s : i \in DOMAIN (s \o t) /\ (s \o t)[i] = s[i]
    OBVIOUS
  <1>3. \A i \in DOMAIN t : i + Len(s) \in DOMAIN (s \o t) /\ (s \o t)[i + Len(s)] = t[i]
    OBVIOUS
  <1>4. \A i \in DOMAIN (s \o t) : i \in DOMAIN s \/ (i - Len(s) \in DOMAIN t /\ (s \o t)[i] = t[i - Len(s)])
    BY <1>1
  <1>5. ToSet(s \o t) \subseteq ToSet(s) \cup ToSet(t)
    BY <1>2, <1>4 DEF ToSet
  <1>6. ToSet(s) \subseteq ToSet(s \o t)
    BY <1>2 DEF ToSet
  <1>7. ToSet(t) \subseteq ToSet(s \o t)
    BY <1>3 DEF ToSet
  <1> QED BY <1>5, <1>6, <1>7

LEMMA ListPopped ==
  ASSUME NEW S, NEW s \in Seq(S), s # << >>
  PROVE  LET rest == SubSeq(s, 1, Len(s) - 1)
         IN /\ rest \in Seq(S)
            /\ Len(rest) = Len(s) - 1
            /\ \A i \in 1..(Len(s) - 1) : rest[i] = s[i]
            /\ s[Len(s)] \in S
            /\ ToSet(s) = ToSet(rest) \cup {s[Len(s)]}
  <1> DEFINE rest == SubSeq(s, 1, Len(s) - 1)
  <1>1. Len(s) \in Nat /\ Len(s) > 0 /\ DOMAIN s = 1..Len(s)
    OBVIOUS
  <1>2. rest \in Seq(S) /\ Len(rest) = Len(s) - 1
    BY <1>1
  <1>3. \A i \in 1..(Len(s) - 1) : rest[i] = s[i]
    BY <1>1
  <1>4. DOMAIN rest = 1..(Len(s) - 1)
    BY <1>2
  <1>5. DOMAIN s = DOMAIN rest \cup {Len(s)}
    BY <1>1, <1>4
  <1> HIDE DEF rest
  <1>8. \A i \in DOMAIN rest : rest[i] = s[i]
    BY <1>3, <1>4
  <1>6. ToSet(s) = ToSet(rest) \cup {s[Len(s)]}
    BY <1>5, <1>8 DEF ToSet
  <1>7. s[Len(s)] \in S
    BY <1>1
  <1> QED BY <1>2, <1>3, <1>6, <1>7 DEF rest

\* The elements of a list are of its type.
LEMMA ListType == ASSUME NEW S, NEW s \in Seq(S) PROVE ToSet(s) \subseteq S
  BY DEF ToSet

LEMMA ListRetype == ASSUME NEW S, NEW T, NEW s \in Seq(S), ToSet(s) \subseteq T PROVE s \in Seq(T)
  <1>1. \A i \in 1..Len(s) : s[i] \in T
    BY DEF ToSet
  <1> QED BY <1>1
-----------------------------------------------------------------------------
\* What the loops of sortEditors have at hand at each stage.
Shape ==
  /\ pc \notin {"first", "second"} => todo = {} /\ root = NoEditor
  /\ root = NoEditor => localVisited = {} /\ editorStack = {} /\ ~ isCycle
  /\ root # NoEditor => root \in localVisited
  /\ pc # "walk" => treeStack = << >>
  /\ pc \in {"idle", "go"} => roots = {} /\ globalVisited = {}
  /\ pc \in {"first", "second", "walk"} => isDirty
  /\ pc = "go" => ~ isDirty /\ direction # 0
  /\ pc \in {"first", "second"} => sortedEditors = << >>

SInv == TypeOK /\ Shape

LEMMA InitSInv == Init => SInv
  <1> SUFFICES ASSUME Init PROVE SInv
    OBVIOUS
  <1>1. TypeOK
    <2>1. direction \in {- 1, 0, 1} /\ root \in cached \cup {NoEditor} /\ currentIndex \in Int \cup {NoIndex}
      BY DEF Init
    <2>2. isDirty \in BOOLEAN /\ isCycle \in BOOLEAN
      BY DEF Init
    <2>3. treeStack \in Seq(cached) /\ sortedEditors \in Seq(Ids)
      BY DEF Init
    <2>4. pc \in {"idle", "first", "second", "walk", "go"}
      BY DEF Init
    <2> QED BY <2>1, <2>2, <2>3, <2>4 DEF Init, TypeOK
  <1>2. Shape
    BY DEF Init, Shape, NoEditor
  <1> QED BY <1>1, <1>2 DEF SInv

\* A set of cached editors, as an arranged list.
LEMMA ArrangedList ==
  ASSUME TypeOK, NEW S \in SUBSET cached
  PROVE  Arrange[S] # {} /\ \A list \in Arrange[S] : list \in Seq(cached) /\ ToSet(list) = S
  <1>1. S \in SUBSET Ids
    BY DEF TypeOK
  <1>2. Arrange[S] # {} /\ \A list \in Arrange[S] : list \in Seq(Ids) /\ ToSet(list) = S
    BY <1>1, SpatialAssumption
  <1> QED BY <1>2, ListRetype

LEMMA ArrangedChildren ==
  ASSUME TypeOK, NEW e
  PROVE  /\ Arrange[Children(e)] # {}
         /\ \A list \in Arrange[Children(e)] : list \in Seq(cached) /\ ToSet(list) = Children(e)
  <1>1. Children(e) \in SUBSET cached
    BY DEF Children
  <1> QED BY <1>1, ArrangedList

LEMMA ArrangedRoots ==
  ASSUME TypeOK PROVE \A list \in Arrange[roots] : list \in Seq(cached) /\ ToSet(list) = roots
  <1>1. roots \in SUBSET cached
    BY DEF TypeOK
  <1> QED BY <1>1, ArrangedList

\* An index is a number, whatever is selected.
LEMMA IndexType ==
  ASSUME TypeOK, NEW d \in {1, - 1}, NEW i \in NextIndex(sortedEditors, currentIndex, d)
  PROVE  i \in Int
  <1>1. Len(sortedEditors) \in Int /\ DOMAIN sortedEditors = 1..Len(sortedEditors)
    BY DEF TypeOK
  <1>2. ASSUME i \in getClosestEditorIndex(sortedEditors, d) PROVE i \in Int
    <2>1. CASE \E e \in ToSet(sortedEditors) : selection = {e}
      <3> DEFINE k == CHOOSE j \in DOMAIN sortedEditors : sortedEditors[j] \in selection
      <3>1. \E j \in DOMAIN sortedEditors : sortedEditors[j] \in selection
        BY <2>1 DEF ToSet
      <3>2. k \in 1..Len(sortedEditors)
        BY <1>1, <3>1
      <3>3. i = Neighbour(sortedEditors, d)
        BY <1>2, <2>1 DEF getClosestEditorIndex
      <3>4. Neighbour(sortedEditors, d) \in {0, k, 0 - 1, k - 2}
        BY DEF Neighbour
      <3> HIDE DEF k
      <3> QED BY <1>1, <3>2, <3>3, <3>4
    <2>2. CASE ~ \E e \in ToSet(sortedEditors) : selection = {e}
      <3>1. i \in 0 .. 2 * Len(sortedEditors) - 1 \/ i \in 0 .. Len(sortedEditors) - 1
        BY <1>2, <2>2 DEF getClosestEditorIndex
      <3> QED BY <1>1, <3>1
    <2> QED BY <2>1, <2>2
  <1>3. CASE currentIndex = NoIndex
    BY <1>2, <1>3 DEF NextIndex
  <1>4. CASE currentIndex # NoIndex
    <2>1. currentIndex \in Int
      BY <1>4 DEF TypeOK
    <2>2. i \in {Len(sortedEditors) - 1, 0, currentIndex + d}
      BY <1>4 DEF NextIndex
    <2>3. d \in Int /\ currentIndex + d \in Int /\ Len(sortedEditors) - 1 \in Int
      BY <1>1, <2>1
    <2> QED BY <2>2, <2>3
  <1> QED BY <1>3, <1>4

\* Outside of sortEditors its variables are empty.
LEMMA CallersSInv ==
  ASSUME SInv
  PROVE  /\ \A S \in SUBSET Ids : shouldCacheAndRegenerateRelationships(S) => SInv'
         /\ \A rels \in SUBSET Edges : buildRelationshipGraph(rels) => SInv'
         /\ getSortedEditors => SInv'
         /\ \A edge \in Joined : unconditionallyAddRelationship(edge) => SInv'
         /\ \A S \in Selections : resetIndex(S) => SInv'
         /\ \A d \in {1, - 1} : goToNextEditor(d) => SInv'
         /\ pc = "go" /\ getNextEditor(direction) => SInv'
  <1> USE SpatialAssumption DEF SInv
  <1>1. ASSUME NEW S \in SUBSET Ids, shouldCacheAndRegenerateRelationships(S) PROVE SInv'
    <2>1. TypeOK'
      BY <1>1 DEF TypeOK, Shape, shouldCacheAndRegenerateRelationships, sorting, traversal
    <2>2. Shape'
      BY <1>1 DEF Shape, shouldCacheAndRegenerateRelationships, sorting, traversal
    <2> QED BY <2>1, <2>2
  <1>2. ASSUME NEW d \in {0, 1, - 1}, pc = "idle", sortEditors(d), cached' = cached,
               relationships' \subseteq Edges, doubled' \subseteq relationships',
               UNCHANGED <<currentIndex, selection>>
        PROVE  SInv'
    <2>1. TypeOK'
      BY <1>2 DEF TypeOK, Shape, sortEditors, traversal
    <2>2. Shape'
      BY <1>2 DEF Shape, sortEditors, traversal
    <2> QED BY <2>1, <2>2
  <1>3. ASSUME NEW rels \in SUBSET Edges, buildRelationshipGraph(rels) PROVE SInv'
    <2>1. CASE sortEditors(0)
      BY <1>2, <1>3, <2>1 DEF buildRelationshipGraph
    <2>2. CASE ~ sortEditors(0)
      <3>1. TypeOK'
        BY <1>3, <2>2 DEF TypeOK, buildRelationshipGraph, sorting, traversal
      <3>2. Shape'
        BY <1>3, <2>2 DEF Shape, buildRelationshipGraph, sorting, traversal
      <3> QED BY <3>1, <3>2
    <2> QED BY <2>1, <2>2
  <1>4. getSortedEditors => SInv'
    BY <1>2 DEF getSortedEditors, sorter, TypeOK
  <1>5. ASSUME NEW edge \in Joined, unconditionallyAddRelationship(edge) PROVE SInv'
    <2>1. TypeOK'
      BY <1>5 DEF TypeOK, unconditionallyAddRelationship, sorting, traversal
    <2>2. Shape'
      BY <1>5 DEF Shape, unconditionallyAddRelationship, sorting, traversal
    <2> QED BY <2>1, <2>2
  <1>6. ASSUME NEW S \in Selections, resetIndex(S) PROVE SInv'
    <2>1. TypeOK'
      BY <1>6 DEF TypeOK, resetIndex, sorting, traversal
    <2>2. Shape'
      BY <1>6 DEF Shape, resetIndex, sorting, traversal
    <2> QED BY <2>1, <2>2
  <1>7. ASSUME NEW d \in {1, - 1}, pc \in {"idle", "go"}, getNextEditor(d) PROVE SInv'
    <2>1. currentIndex' \in Int \cup {NoIndex}
      BY <1>7, IndexType DEF getNextEditor, TypeOK
    <2>2. selection' \subseteq Ids
      <3>1. \A j \in DOMAIN sortedEditors : sortedEditors[j] \in Ids
        BY DEF TypeOK
      <3>2. CASE sortedEditors = << >>
        BY <1>7, <3>2 DEF getNextEditor, TypeOK
      <3>3. CASE selection' = selectEditor(sortedEditors, currentIndex')
        <4>1. CASE currentIndex' + 1 \in DOMAIN sortedEditors
          BY <3>1, <3>3, <4>1 DEF selectEditor
        <4>2. CASE currentIndex' + 1 \notin DOMAIN sortedEditors
          BY <3>3, <4>2 DEF selectEditor, TypeOK
        <4> QED BY <4>1, <4>2
      <3> QED BY <1>7, <3>2, <3>3 DEF getNextEditor
    <2>3. TypeOK'
      BY <1>7, <2>1, <2>2 DEF TypeOK, getNextEditor, traversal
    <2>4. Shape'
      BY <1>7 DEF Shape, getNextEditor, traversal
    <2> QED BY <2>3, <2>4
  <1>8. ASSUME NEW d \in {1, - 1}, goToNextEditor(d) PROVE SInv'
    <2>1. CASE sortEditors(d) /\ UNCHANGED sorter
      BY <1>2, <1>8, <2>1 DEF goToNextEditor, sorter, TypeOK
    <2>2. CASE getNextEditor(d)
      BY <1>7, <1>8, <2>2 DEF goToNextEditor
    <2> QED BY <1>8, <2>1, <2>2 DEF goToNextEditor
  <1>9. ASSUME pc = "go", getNextEditor(direction) PROVE SInv'
    <2>1. direction \in {1, - 1}
      BY <1>9 DEF TypeOK, Shape
    <2> QED BY <1>7, <1>9, <2>1
  <1> QED BY <1>1, <1>3, <1>4, <1>5, <1>6, <1>8, <1>9

\* The steps of sortEditors.
LEMMA SortingSInv == SInv /\ Sorting => SInv'
  <1> SUFFICES ASSUME SInv, Sorting PROVE SInv'
    OBVIOUS
  <1>0. TypeOK /\ Shape
    BY DEF SInv
  <1>a. NoEditor \notin Ids
    BY SpatialAssumption DEF NoEditor
  <1>1. ASSUME NEW e \in Ids, FirstTraversal(e) PROVE SInv'
    <2>1. TypeOK'
      BY <1>0, <1>1 DEF TypeOK, FirstTraversal, InTurn, Traverse, sorter, traversal
    <2>2. Shape'
      BY <1>0, <1>1, <1>a DEF Shape, FirstTraversal, InTurn, Traverse, sorter, traversal
    <2> QED BY <2>1, <2>2 DEF SInv
  <1>2. ASSUME NEW e \in Ids, SecondTraversal(e) PROVE SInv'
    <2>1. TypeOK'
      BY <1>0, <1>2 DEF TypeOK, SecondTraversal, InTurn, Traverse, sorter, traversal
    <2>2. Shape'
      BY <1>0, <1>2, <1>a DEF Shape, SecondTraversal, InTurn, Traverse, sorter, traversal
    <2> QED BY <2>1, <2>2 DEF SInv
  <1>3. ASSUME NEW e \in Ids, detectCycle(e) PROVE SInv'
    <2> DEFINE new == Children(e) \ (localVisited \cup globalVisited)
    <2>1. new \subseteq cached
      BY DEF Children
    <2>2. e \in editorStack /\ editorStack' = (editorStack \ {e}) \cup new
          /\ localVisited' = localVisited \cup new /\ globalVisited' = globalVisited \cup new
          /\ isCycle' \in BOOLEAN
          /\ UNCHANGED <<cached, relationships, doubled, currentIndex, selection, sortedEditors, isDirty,
                         pc, direction, todo, roots, root, treeStack>>
      BY <1>3 DEF detectCycle, sorter
    <2> HIDE DEF new
    <2>3. TypeOK'
      BY <1>0, <2>1, <2>2 DEF TypeOK
    <2>4. root # NoEditor /\ pc \in {"first", "second"}
      BY <1>0, <2>2 DEF Shape
    <2>5. Shape'
      BY <1>0, <2>2, <2>4 DEF Shape
    <2> QED BY <2>3, <2>5 DEF SInv
  <1>4. CASE FirstDone
    <2>1. TypeOK'
      BY <1>0, <1>4 DEF TypeOK, FirstDone, sorter, traversal
    <2>2. Shape'
      BY <1>0, <1>4 DEF Shape, FirstDone, sorter, traversal
    <2> QED BY <2>1, <2>2 DEF SInv
  <1>5. CASE Traversed
    <2>1. roots' \subseteq cached
      BY <1>0, <1>5 DEF TypeOK, Traversed, NewRoots
    <2>2. TypeOK'
      BY <1>0, <1>5, <2>1 DEF TypeOK, Traversed, sorter
    <2>3. Shape'
      BY <1>0, <1>5 DEF Shape, Traversed, sorter
    <2> QED BY <2>2, <2>3 DEF SInv
  <1>6. CASE SecondDone
    <2>1. treeStack' \in Seq(cached)
      BY <1>0, <1>6, ArrangedRoots DEF SecondDone
    <2>2. TypeOK'
      BY <1>0, <1>6, <2>1 DEF TypeOK, SecondDone, sorter, traversal
    <2>3. Shape'
      BY <1>0, <1>6 DEF Shape, SecondDone, sorter, traversal
    <2> QED BY <2>2, <2>3 DEF SInv
  <1>7. CASE Visit
    <2> DEFINE e == treeStack[Len(treeStack)]
               rest == SubSeq(treeStack, 1, Len(treeStack) - 1)
    <2>1. rest \in Seq(cached) /\ e \in cached
      BY <1>0, <1>7, ListPopped DEF Visit, TypeOK
    <2>2. \/ treeStack' = rest /\ sortedEditors' = sortedEditors
          \/ /\ \E kids \in Arrange[Children(e)] : treeStack' = rest \o kids
             /\ sortedEditors' = Append(sortedEditors, e)
      BY <1>7 DEF Visit, Pushed
    <2>a. \A kids \in Arrange[Children(e)] : kids \in Seq(cached)
      BY <1>0, ArrangedChildren
    <2>b. sortedEditors \in Seq(Ids) /\ e \in Ids
      BY <1>0, <2>1 DEF TypeOK
    <2> HIDE DEF e, rest
    <2>3. treeStack' \in Seq(cached)
      <3>1. \A kids \in Arrange[Children(e)] : rest \o kids \in Seq(cached)
        <4>1. \A kids \in Seq(cached) : rest \o kids \in Seq(cached)
          BY <2>1
        <4> QED BY <2>a, <4>1
      <3> QED BY <2>1, <2>2, <3>1
    <2>4. sortedEditors' \in Seq(Ids)
      <3>1. Append(sortedEditors, e) \in Seq(Ids)
        BY <2>b
      <3> QED BY <2>2, <2>b, <3>1
    <2>5. UNCHANGED <<sorter, isDirty, pc, direction, todo, roots, globalVisited, traversal>> /\ pc = "walk"
      BY <1>7 DEF Visit
    <2>6. TypeOK'
      BY <1>0, <2>3, <2>4, <2>5 DEF TypeOK, sorter, traversal
    <2>7. Shape'
      BY <1>0, <2>5 DEF Shape, sorter, traversal
    <2> QED BY <2>6, <2>7 DEF SInv
  <1>8. CASE Sorted
    <2>1. TypeOK'
      BY <1>0, <1>8 DEF TypeOK, Sorted, traversal
    <2>2. Shape'
      BY <1>0, <1>8 DEF Shape, Sorted, traversal
    <2> QED BY <2>1, <2>2 DEF SInv
  <1> QED BY <1>1, <1>2, <1>3, <1>4, <1>5, <1>6, <1>7, <1>8 DEF Sorting

LEMMA NextSInv == SInv /\ [Next]_vars => SInv'
  <1> SUFFICES ASSUME SInv, [Next]_vars PROVE SInv'
    OBVIOUS
  <1>1. CASE UNCHANGED vars
    BY <1>1 DEF vars, SInv, TypeOK, Shape
  <1>2. CASE Next
    BY <1>2, SortingSInv, CallersSInv DEF Next
  <1> QED BY <1>1, <1>2

\* The sorter's state has its type, for any editors, relationships and arrangement: in
\* particular the selection that goToNextEditor makes is an editor, not an undefined one.
THEOREM TypeCorrect == Spec => []TypeOK
  <1>1. SInv => TypeOK
    BY DEF SInv
  <1> QED BY <1>1, InitSInv, NextSInv, PTL DEF Spec
-----------------------------------------------------------------------------
(* The roots.  Sets of editors that hold, with an editor, all it depends on*)
(* stand for what can be reached: the walk reaches an editor if every such *)
(* set around the roots has it.                                            *)

Closed(X) == \A e \in X : Children(e) \subseteq X

\* A closed set around the roots, and around the editor about to become one.
Around(X) == Closed(X) /\ roots \subseteq X /\ (pc = "second" /\ isCycle => root \in X)

\* A traversal visits only what its editor reaches.
LocalReached == \A X \in SUBSET cached : Closed(X) /\ root \in X => localVisited \subseteq X

\* The first traversal visits only what the roots reach.
FirstInv ==
  pc = "first" =>
    /\ \A e \in cached \ todo : HasParent(e) \/ e \in roots
    /\ root # NoEditor => root \in roots
    /\ \A X \in SUBSET cached : Around(X) => globalVisited \subseteq X

\* The editors the second traversal has come to, and those whose children it has seen.
Seen == globalVisited \cup localVisited \cup (cached \ todo)

Expanded == Seen \ editorStack

\* An editor outside of X whose children have been seen did not lead back into its own
\* traversal, and later ones have nothing to do with its children.
NoneLeadsBack(X) ==
  \A q \in Expanded \ X :
    /\ Children(q) \subseteq globalVisited
    /\ q \notin localVisited => Children(q) \cap localVisited = {}

\* Among editors outside of X there is always one that none of the others leads to, as far
\* as children have been seen.
HasSource(X) ==
  \A W \in SUBSET (Seen \ X) :
    W # {} => \E w \in W : \A p \in W \cap Expanded : w \notin Children(p)

SecondInv ==
  pc = "second" =>
    /\ \A e \in cached : HasParent(e) \/ e \in roots
    /\ \A X \in SUBSET cached : Around(X) => NoneLeadsBack(X) /\ HasSource(X)

\* Every editor is reached from the roots; what has been listed leads to what is listed or
\* on the stack.
WalkInv ==
  pc = "walk" =>
    /\ \A X \in SUBSET cached : Closed(X) /\ roots \subseteq X => X = cached
    /\ ToSet(sortedEditors) \subseteq cached
    /\ roots \subseteq ToSet(sortedEditors) \cup ToSet(treeStack)
    /\ \A e \in ToSet(sortedEditors) : Children(e) \subseteq ToSet(sortedEditors) \cup ToSet(treeStack)

RInv == LocalReached /\ FirstInv /\ SecondInv /\ WalkInv /\ OrderIsComplete

\* While the sorter keeps its copy and its relationships, the graph is the same.
LEMMA SameGraph ==
  ASSUME UNCHANGED <<cached, relationships>>
  PROVE  /\ \A e : Children(e)' = Children(e)
         /\ \A e : HasParent(e)' <=> HasParent(e)
         /\ \A X : Closed(X)' <=> Closed(X)
  BY DEF Children, HasParent, Graph, Closed

\* A child list is visited in detectCycle.
LEMMA DetectRInv == ASSUME SInv, RInv, NEW e \in Ids, detectCycle(e) PROVE RInv'
  <1> DEFINE new == Children(e) \ (localVisited \cup globalVisited)
  <1>1. e \in editorStack /\ editorStack' = (editorStack \ {e}) \cup new
        /\ localVisited' = localVisited \cup new /\ globalVisited' = globalVisited \cup new
    BY DEF detectCycle
  <1>2. (isCycle => isCycle') /\ (Children(e) \cap localVisited # {} => isCycle')
    BY DEF detectCycle
  <1>3. UNCHANGED <<cached, relationships, sortedEditors, isDirty, pc, todo, roots, root>>
    BY DEF detectCycle, sorter
  <1>4. /\ \A d : Children(d)' = Children(d)
        /\ \A d : HasParent(d)' <=> HasParent(d)
        /\ \A X : Closed(X)' <=> Closed(X)
    BY <1>3, SameGraph
  <1>5. root # NoEditor /\ pc \in {"first", "second"} /\ root \in localVisited /\ e \in localVisited
        /\ editorStack \subseteq localVisited
    BY <1>1 DEF SInv, Shape, TypeOK
  <1>6. new \cap localVisited = {} /\ new \cap globalVisited = {} /\ new \subseteq Children(e)
    OBVIOUS
  <1>7. Children(e) \subseteq new \cup localVisited \cup globalVisited
    OBVIOUS
  <1> HIDE DEF new
  <1>8. \A X \in SUBSET cached : Closed(X) /\ root \in X => localVisited \subseteq X /\ Children(e) \subseteq X
    BY <1>5 DEF RInv, LocalReached, Closed
  <1>9. LocalReached'
    BY <1>1, <1>3, <1>4, <1>6, <1>8 DEF LocalReached
  <1>10. FirstInv'
    <2> SUFFICES ASSUME pc = "first" PROVE FirstInv'
      BY <1>3 DEF FirstInv
    <2>1. root \in roots /\ \A X \in SUBSET cached : Around(X) => globalVisited \subseteq X
      BY <1>5 DEF RInv, FirstInv
    <2>2. ASSUME NEW X \in SUBSET cached, Around(X)' PROVE globalVisited' \subseteq X
      <3>1. Around(X) /\ Closed(X) /\ root \in X
        BY <1>3, <1>4, <2>1, <2>2 DEF Around
      <3> QED BY <1>1, <1>6, <1>8, <2>1, <3>1
    <2> QED BY <1>3, <1>4, <2>1, <2>2 DEF RInv, FirstInv
  <1>11. SecondInv'
    <2> SUFFICES ASSUME pc = "second" PROVE SecondInv'
      BY <1>3 DEF SecondInv
    <2>1. \A d \in cached : HasParent(d) \/ d \in roots
      BY DEF RInv, SecondInv
    <2>2. ASSUME NEW X \in SUBSET cached, Around(X)' PROVE NoneLeadsBack(X)' /\ HasSource(X)'
      <3>1. Around(X) /\ Closed(X) /\ (isCycle' => root \in X)
        BY <1>2, <1>3, <1>4, <2>2 DEF Around
      <3>2. NoneLeadsBack(X) /\ HasSource(X)
        BY <3>1 DEF RInv, SecondInv
      <3>3. Seen' = Seen \cup new /\ localVisited \subseteq Seen
        BY <1>1, <1>3 DEF Seen
      <3>4. \A q \in Expanded' : q \in Seen /\ q \notin new /\ (q = e \/ q \in Expanded)
        BY <1>1, <3>3 DEF Expanded
      <3>5. \A q \in Expanded \ X : Children(q) \subseteq globalVisited /\ Children(q) \cap new = {}
            /\ (q \notin localVisited => Children(q) \cap localVisited = {})
        BY <1>6, <3>2 DEF NoneLeadsBack
      <3>6. CASE isCycle'
        <4>1. localVisited \subseteq X /\ Children(e) \subseteq X
          BY <1>8, <3>1, <3>6
        <4>2. e \in X /\ new \subseteq X
          BY <1>5, <1>6, <4>1
        <4>3. NoneLeadsBack(X)'
          <5> SUFFICES ASSUME NEW q \in Expanded' \ X
                       PROVE  Children(q) \subseteq globalVisited' /\ Children(q) \cap localVisited' = {}
            BY <1>4 DEF NoneLeadsBack
          <5>1. q \in Expanded \ X /\ q \notin localVisited
            BY <3>4, <4>1, <4>2
          <5> QED BY <1>1, <3>5, <5>1
        <4>4. HasSource(X)'
          <5> SUFFICES ASSUME NEW W \in SUBSET (Seen' \ X), W # {}
                       PROVE  \E w \in W : \A p \in W \cap Expanded' : w \notin Children(p)
            BY <1>4 DEF HasSource
          <5>1. W \in SUBSET (Seen \ X)
            BY <3>3, <4>2
          <5>2. W \cap Expanded' \subseteq W \cap Expanded
            BY <3>4, <4>2
          <5> QED BY <3>2, <5>1, <5>2 DEF HasSource
        <4> QED BY <4>3, <4>4
      <3>7. CASE ~ isCycle'
        <4>1. Children(e) \cap localVisited = {}
          BY <1>2, <3>7
        <4>2. NoneLeadsBack(X)'
          <5> SUFFICES ASSUME NEW q \in Expanded' \ X
                       PROVE  /\ Children(q) \subseteq globalVisited'
                              /\ q \notin localVisited' => Children(q) \cap localVisited' = {}
            BY <1>4 DEF NoneLeadsBack
          <5>1. CASE q = e
            BY <1>1, <1>5, <1>7, <4>1, <5>1
          <5>2. CASE q \in Expanded
            BY <1>1, <3>5, <5>2
          <5> QED BY <3>4, <5>1, <5>2
        <4>3. HasSource(X)'
          <5> SUFFICES ASSUME NEW W \in SUBSET (Seen' \ X), W # {}
                       PROVE  \E w \in W : \A p \in W \cap Expanded' : w \notin Children(p)
            BY <1>4 DEF HasSource
          <5>1. CASE W \cap localVisited # {}
            <6>1. W \cap localVisited \in SUBSET (Seen \ X)
              BY <3>3
            <6>2. PICK w \in W \cap localVisited :
                    \A p \in (W \cap localVisited) \cap Expanded : w \notin Children(p)
              BY <3>2, <5>1, <6>1 DEF HasSource
            <6>3. ASSUME NEW p \in W \cap Expanded' PROVE w \notin Children(p)
              <7>1. CASE p = e
                BY <4>1, <7>1
              <7>2. CASE p \in Expanded /\ p \in localVisited
                BY <6>2, <7>2
              <7>3. CASE p \in Expanded /\ p \notin localVisited
                BY <3>5, <7>3
              <7> QED BY <3>4, <7>1, <7>2, <7>3
            <6> QED BY <6>3
          <5>2. CASE W \cap localVisited = {} /\ W \cap new # {}
            <6>1. PICK w \in W : w \in new
              BY <5>2
            <6>2. ASSUME NEW p \in W \cap Expanded' PROVE w \notin Children(p)
              <7>1. p \in Expanded \ X
                BY <1>5, <3>4, <5>2
              <7> QED BY <3>5, <6>1, <7>1
            <6> QED BY <6>2
          <5>3. CASE W \cap localVisited = {} /\ W \cap new = {}
            <6>1. W \in SUBSET (Seen \ X)
              BY <3>3, <5>3
            <6>2. W \cap Expanded' \subseteq W \cap Expanded
              BY <1>5, <3>4, <5>3
            <6> QED BY <3>2, <6>1, <6>2 DEF HasSource
          <5> QED BY <5>1, <5>2, <5>3
        <4> QED BY <4>2, <4>3
      <3> QED BY <3>6, <3>7
    <2> QED BY <1>3, <1>4, <2>1, <2>2 DEF SecondInv
  <1>12. WalkInv'
    BY <1>3, <1>5 DEF WalkInv
  <1>13. OrderIsComplete'
    BY <1>3 DEF RInv, OrderIsComplete
  <1> QED BY <1>9, <1>10, <1>11, <1>12, <1>13 DEF RInv

\* The two loops over the editors.
LEMMA FirstRInv == ASSUME SInv, RInv, NEW e \in Ids, FirstTraversal(e) PROVE RInv'
  <1>1. pc = "first" /\ root = NoEditor /\ e \in todo /\ todo' = todo \ {e}
        /\ UNCHANGED <<cached, relationships, sortedEditors, isDirty, pc, globalVisited>>
    BY DEF FirstTraversal, InTurn, sorter
  <1>2. /\ \A d : Children(d)' = Children(d)
        /\ \A d : HasParent(d)' <=> HasParent(d)
        /\ \A X : Closed(X)' <=> Closed(X)
    BY <1>1, SameGraph
  <1>3. localVisited = {}
    BY <1>1 DEF SInv, Shape
  <1>4. \/ ~ HasParent(e) /\ roots' = roots \cup {e} /\ root' = e /\ localVisited' = {e}
        \/ HasParent(e) /\ UNCHANGED <<roots, root, localVisited>>
    BY DEF FirstTraversal, Traverse, traversal
  <1>5. LocalReached'
    BY <1>3, <1>4 DEF LocalReached
  <1>6. FirstInv'
    <2>1. \A d \in (cached \ todo)' : HasParent(d)' \/ d \in roots'
      BY <1>1, <1>2, <1>4 DEF RInv, FirstInv
    <2>2. root' # NoEditor => root' \in roots'
      BY <1>1, <1>4
    <2>3. \A X \in SUBSET cached : Around(X)' => Around(X)
      BY <1>1, <1>2, <1>4 DEF Around
    <2>4. \A X \in SUBSET cached : Around(X) => globalVisited \subseteq X
      BY <1>1 DEF RInv, FirstInv
    <2> QED BY <1>1, <2>1, <2>2, <2>3, <2>4 DEF FirstInv
  <1>7. SecondInv' /\ WalkInv'
    BY <1>1 DEF SecondInv, WalkInv
  <1>8. OrderIsComplete'
    BY <1>1 DEF RInv, OrderIsComplete
  <1> QED BY <1>5, <1>6, <1>7, <1>8 DEF RInv

LEMMA FirstDoneRInv == ASSUME SInv, RInv, FirstDone PROVE RInv'
  <1>1. pc = "first" /\ pc' = "second" /\ root = NoEditor /\ todo = {} /\ todo' = cached
        /\ UNCHANGED <<cached, relationships, sortedEditors, isDirty, roots, globalVisited, root,
                       localVisited, editorStack, isCycle>>
    BY DEF FirstDone, sorter, traversal
  <1>2. /\ \A d : Children(d)' = Children(d)
        /\ \A d : HasParent(d)' <=> HasParent(d)
        /\ \A X : Closed(X)' <=> Closed(X)
    BY <1>1, SameGraph
  <1>3. localVisited = {} /\ ~ isCycle
    BY <1>1 DEF SInv, Shape
  <1>4. LocalReached'
    BY <1>1, <1>3 DEF LocalReached
  <1>5. SecondInv'
    <2>1. \A d \in cached : HasParent(d) \/ d \in roots
      BY <1>1 DEF RInv, FirstInv
    <2>2. ASSUME NEW X \in SUBSET cached, Around(X)' PROVE NoneLeadsBack(X)' /\ HasSource(X)'
      <3>1. Around(X)
        BY <1>1, <1>2, <2>2 DEF Around
      <3>2. globalVisited \subseteq X
        BY <1>1, <3>1 DEF RInv, FirstInv
      <3>3. Seen' \subseteq X
        BY <1>1, <1>3, <3>2 DEF Seen
      <3> QED BY <3>3 DEF NoneLeadsBack, HasSource, Expanded
    <2> QED BY <1>1, <1>2, <2>1, <2>2 DEF SecondInv
  <1>6. FirstInv' /\ WalkInv'
    BY <1>1 DEF FirstInv, WalkInv
  <1>7. OrderIsComplete'
    BY <1>1 DEF RInv, OrderIsComplete
  <1> QED BY <1>4, <1>5, <1>6, <1>7 DEF RInv

LEMMA SecondRInv == ASSUME SInv, RInv, NEW e \in Ids, SecondTraversal(e) PROVE RInv'
  <1>1. pc = "second" /\ root = NoEditor /\ e \in todo /\ todo' = todo \ {e}
        /\ UNCHANGED <<cached, relationships, sortedEditors, isDirty, pc, roots, globalVisited>>
    BY DEF SecondTraversal, InTurn, sorter
  <1>2. /\ \A d : Children(d)' = Children(d)
        /\ \A d : HasParent(d)' <=> HasParent(d)
        /\ \A X : Closed(X)' <=> Closed(X)
    BY <1>1, SameGraph
  <1>3. localVisited = {} /\ editorStack = {} /\ ~ isCycle /\ e \in cached
    BY <1>1 DEF SInv, Shape, TypeOK
  <1>4. \/ e \notin globalVisited /\ root' = e /\ localVisited' = {e} /\ editorStack' = {e} /\ ~ isCycle'
        \/ e \in globalVisited /\ UNCHANGED <<root, localVisited, editorStack, isCycle>>
    BY DEF SecondTraversal, Traverse, traversal
  <1>5. LocalReached'
    BY <1>3, <1>4 DEF LocalReached
  <1>6. SecondInv'
    <2>1. \A d \in cached : HasParent(d) \/ d \in roots
      BY <1>1 DEF RInv, SecondInv
    <2>2. ASSUME NEW X \in SUBSET cached, Around(X)' PROVE NoneLeadsBack(X)' /\ HasSource(X)'
      <3>1. Around(X)
        BY <1>1, <1>2, <1>3, <2>2 DEF Around
      <3>2. NoneLeadsBack(X) /\ HasSource(X)
        BY <1>1, <3>1 DEF RInv, SecondInv
      <3>3. Seen' = Seen \cup {e} /\ Expanded = Seen
        BY <1>1, <1>3, <1>4 DEF Seen, Expanded
      <3>4. Expanded' \subseteq Expanded
        BY <1>3, <1>4, <3>3 DEF Expanded, Seen
      <3>5. NoneLeadsBack(X)'
        BY <1>1, <1>2, <1>3, <1>4, <3>2, <3>4 DEF NoneLeadsBack
      <3>6. HasSource(X)'
        <4> SUFFICES ASSUME NEW W \in SUBSET (Seen' \ X), W # {}
                     PROVE  \E w \in W : \A p \in W \cap Expanded' : w \notin Children(p)
          BY <1>2 DEF HasSource
        <4>1. CASE W \in SUBSET (Seen \ X)
          BY <3>2, <3>4, <4>1 DEF HasSource
        <4>2. CASE W \notin SUBSET (Seen \ X)
          <5>1. e \in W /\ e \notin Seen
            BY <3>3, <4>2
          <5>2. W \cap Expanded' \subseteq (W \ {e}) \cap Expanded /\ W \ {e} \in SUBSET (Seen \ X)
            BY <3>3, <3>4, <5>1
          <5>3. CASE W \ {e} # {}
            BY <3>2, <5>2, <5>3 DEF HasSource
          <5>4. CASE W \ {e} = {}
            BY <5>1, <5>2, <5>4
          <5> QED BY <5>3, <5>4
        <4> QED BY <4>1, <4>2
      <3> QED BY <3>5, <3>6
    <2> QED BY <1>1, <1>2, <2>1, <2>2 DEF SecondInv
  <1>7. FirstInv' /\ WalkInv'
    BY <1>1 DEF FirstInv, WalkInv
  <1>8. OrderIsComplete'
    BY <1>1 DEF RInv, OrderIsComplete
  <1> QED BY <1>5, <1>6, <1>7, <1>8 DEF RInv

\* A traversal returns: what made its editor a root was around X already.
LEMMA TraversedRInv == ASSUME SInv, RInv, Traversed PROVE RInv'
  <1>1. root # NoEditor /\ editorStack = {} /\ root' = NoEditor /\ localVisited' = {} /\ ~ isCycle'
        /\ roots' = NewRoots
        /\ UNCHANGED <<cached, relationships, sortedEditors, isDirty, pc, todo, globalVisited, editorStack>>
    BY DEF Traversed, sorter
  <1>2. /\ \A d : Children(d)' = Children(d)
        /\ \A d : HasParent(d)' <=> HasParent(d)
        /\ \A X : Closed(X)' <=> Closed(X)
    BY <1>1, SameGraph
  <1>3. pc \in {"first", "second"}
    BY <1>1 DEF SInv, Shape
  <1>4. roots \subseteq roots' /\ (pc = "second" /\ isCycle => root \in roots')
    BY <1>1 DEF NewRoots
  <1>5. \A X \in SUBSET cached : Around(X)' => Around(X)
    BY <1>2, <1>4 DEF Around
  <1>6. LocalReached'
    BY <1>1 DEF LocalReached
  <1>7. FirstInv'
    BY <1>1, <1>2, <1>4, <1>5 DEF RInv, FirstInv
  <1>8. SecondInv'
    <2> SUFFICES ASSUME pc = "second" PROVE SecondInv'
      BY <1>1 DEF SecondInv
    <2>1. \A d \in cached : HasParent(d) \/ d \in roots
      BY DEF RInv, SecondInv
    <2>2. ASSUME NEW X \in SUBSET cached, Around(X)' PROVE NoneLeadsBack(X)' /\ HasSource(X)'
      <3>1. NoneLeadsBack(X) /\ HasSource(X)
        BY <1>5, <2>2 DEF RInv, SecondInv
      <3>2. Seen' \subseteq Seen /\ Expanded' \subseteq Expanded
        BY <1>1 DEF Seen, Expanded
      <3>3. NoneLeadsBack(X)'
        BY <1>1, <1>2, <3>1, <3>2 DEF NoneLeadsBack
      <3>4. HasSource(X)'
        <4> SUFFICES ASSUME NEW W \in SUBSET (Seen' \ X), W # {}
                     PROVE  \E w \in W : \A p \in W \cap Expanded' : w \notin Children(p)
          BY <1>2 DEF HasSource
        <4>1. W \in SUBSET (Seen \ X)
          BY <3>2
        <4> QED BY <3>1, <3>2, <4>1 DEF HasSource
      <3> QED BY <3>3, <3>4
    <2> QED BY <1>1, <1>2, <1>4, <2>1, <2>2 DEF SecondInv
  <1>9. WalkInv'
    BY <1>1, <1>3 DEF WalkInv
  <1>10. OrderIsComplete'
    BY <1>1 DEF RInv, OrderIsComplete
  <1> QED BY <1>6, <1>7, <1>8, <1>9, <1>10 DEF RInv

\* When both loops are done the roots reach every editor: editors they did not reach would
\* have one among them without a parent there, and it has a parent.
LEMMA RootsReachAll ==
  ASSUME SInv, SecondInv, pc = "second", root = NoEditor, todo = {},
         NEW X \in SUBSET cached, Closed(X), roots \subseteq X
  PROVE  X = cached
  <1>1. editorStack = {} /\ ~ isCycle /\ globalVisited \subseteq cached /\ localVisited \subseteq cached
    BY DEF SInv, Shape, TypeOK
  <1>2. HasSource(X)
    BY <1>1 DEF SecondInv, Around
  <1>3. Seen = cached /\ Expanded = cached
    BY <1>1 DEF Seen, Expanded
  <1> DEFINE W == cached \ X
  <1>4. SUFFICES ASSUME W # {} PROVE FALSE
    OBVIOUS
  <1>5. PICK w \in W : \A p \in W : w \notin Children(p)
    BY <1>2, <1>3, <1>4 DEF HasSource
  <1>6. HasParent(w)
    BY DEF SecondInv
  <1>7. PICK p \in cached : <<p, w>> \in Graph
    BY <1>6 DEF HasParent
  <1>8. w \in Children(p)
    BY <1>7 DEF Children
  <1> QED BY <1>5, <1>8 DEF Closed

LEMMA SecondDoneRInv == ASSUME SInv, RInv, SecondDone PROVE RInv'
  <1>1. pc = "second" /\ pc' = "walk" /\ root = NoEditor /\ todo = {} /\ treeStack' \in Arrange[roots]
        /\ UNCHANGED <<cached, relationships, sortedEditors, isDirty, roots, root, localVisited>>
    BY DEF SecondDone, sorter, traversal
  <1>2. /\ \A d : Children(d)' = Children(d)
        /\ \A X : Closed(X)' <=> Closed(X)
    BY <1>1, SameGraph
  <1>3. LocalReached'
    BY <1>1, <1>2 DEF RInv, LocalReached
  <1>4. WalkInv'
    <2>1. \A X \in SUBSET cached : Closed(X) /\ roots \subseteq X => X = cached
      BY <1>1, RootsReachAll DEF RInv
    <2>2. ToSet(sortedEditors) = {}
      BY <1>1 DEF SInv, Shape, ToSet
    <2>3. ToSet(treeStack') = roots
      BY <1>1, ArrangedRoots DEF SInv
    <2> QED BY <1>1, <1>2, <2>1, <2>2, <2>3 DEF WalkInv
  <1>5. FirstInv' /\ SecondInv'
    BY <1>1 DEF FirstInv, SecondInv
  <1>6. OrderIsComplete'
    BY <1>1 DEF RInv, OrderIsComplete
  <1> QED BY <1>3, <1>4, <1>5, <1>6 DEF RInv

\* A step of the walk: what is popped, and what takes its place.
LEMMA VisitStep ==
  ASSUME SInv, Visit
  PROVE  LET e == treeStack[Len(treeStack)]
             rest == SubSeq(treeStack, 1, Len(treeStack) - 1)
         IN /\ pc = "walk"
            /\ UNCHANGED <<cached, relationships, isDirty, pc, roots, root, localVisited>>
            /\ e \in cached /\ rest \in Seq(cached) /\ treeStack \in Seq(cached) /\ sortedEditors \in Seq(Ids)
            /\ Len(treeStack) \in Nat /\ Len(treeStack) > 0 /\ Len(rest) = Len(treeStack) - 1
            /\ \A i \in 1..(Len(treeStack) - 1) : rest[i] = treeStack[i]
            /\ ToSet(treeStack) = ToSet(rest) \cup {e}
            /\ \E kids \in Seq(cached) :
                 /\ ToSet(kids) = Children(e)
                 /\ \/ e \in ToSet(sortedEditors) /\ treeStack' = rest /\ sortedEditors' = sortedEditors
                    \/ /\ e \notin ToSet(sortedEditors)
                       /\ sortedEditors' = Append(sortedEditors, e)
                       /\ treeStack' = rest \o kids
  <1>1. treeStack \in Seq(cached) /\ sortedEditors \in Seq(Ids) /\ treeStack # << >>
    BY DEF SInv, TypeOK, Visit
  <1>2. Len(treeStack) \in Nat /\ Len(treeStack) > 0
    BY <1>1
  <1> DEFINE e == treeStack[Len(treeStack)]
             rest == SubSeq(treeStack, 1, Len(treeStack) - 1)
  <1>3. PICK kids \in Arrange[Children(e)] :
          \/ e \in ToSet(sortedEditors) /\ treeStack' = rest /\ sortedEditors' = sortedEditors
          \/ e \notin ToSet(sortedEditors) /\ sortedEditors' = Append(sortedEditors, e) /\ treeStack' = rest \o kids
    <2>1. Arrange[Children(e)] # {}
      BY ArrangedChildren DEF SInv
    <2> QED BY <2>1 DEF Visit, Pushed
  <1>4. kids \in Seq(cached) /\ ToSet(kids) = Children(e)
    BY ArrangedChildren DEF SInv
  <1>5. pc = "walk" /\ UNCHANGED <<cached, relationships, isDirty, pc, roots, root, localVisited>>
    BY DEF Visit, sorter, traversal
  <1>6. /\ e \in cached /\ rest \in Seq(cached) /\ Len(rest) = Len(treeStack) - 1
        /\ \A i \in 1..(Len(treeStack) - 1) : rest[i] = treeStack[i]
        /\ ToSet(treeStack) = ToSet(rest) \cup {e}
    BY <1>1, <1>2, ListPopped
  <1> HIDE DEF e, rest
  <1> QED BY <1>1, <1>2, <1>3, <1>4, <1>5, <1>6 DEF e, rest

LEMMA VisitRInv == ASSUME SInv, RInv, Visit PROVE RInv'
  <1> DEFINE e == treeStack[Len(treeStack)]
             rest == SubSeq(treeStack, 1, Len(treeStack) - 1)
  <1>1. PICK kids \in Seq(cached) :
        /\ ToSet(kids) = Children(e)
        /\ pc = "walk"
        /\ UNCHANGED <<cached, relationships, isDirty, pc, roots, root, localVisited>>
        /\ e \in cached /\ rest \in Seq(cached) /\ sortedEditors \in Seq(Ids)
        /\ ToSet(treeStack) = ToSet(rest) \cup {e}
        /\ \/ e \in ToSet(sortedEditors) /\ treeStack' = rest /\ sortedEditors' = sortedEditors
           \/ e \notin ToSet(sortedEditors) /\ sortedEditors' = Append(sortedEditors, e) /\ treeStack' = rest \o kids
    BY VisitStep
  <1>2. /\ \A d : Children(d)' = Children(d)
        /\ \A X : Closed(X)' <=> Closed(X)
    BY <1>1, SameGraph
  <1>3. kids \in Seq(cached) /\ ToSet(kids) = Children(e)
    BY <1>1
  <1>4. isDirty
    BY <1>1 DEF SInv, Shape
  <1> HIDE DEF e, rest
  <1>5. ToSet(rest \o kids) = ToSet(rest) \cup Children(e)
    BY <1>1, <1>3, ListConcat
  <1>6. ToSet(Append(sortedEditors, e)) = ToSet(sortedEditors) \cup {e}
    BY <1>1, ListAppend
  <1>7. LocalReached'
    BY <1>1, <1>2 DEF RInv, LocalReached
  <1>8. WalkInv'
    <2>1. CASE e \in ToSet(sortedEditors)
      BY <1>1, <1>2, <2>1 DEF RInv, WalkInv
    <2>2. CASE e \notin ToSet(sortedEditors)
      <3>1. ToSet(sortedEditors') = ToSet(sortedEditors) \cup {e} /\ ToSet(treeStack') = ToSet(rest) \cup Children(e)
        BY <1>1, <1>5, <1>6, <2>2
      <3>2. ToSet(sortedEditors) \cup ToSet(treeStack) \subseteq ToSet(sortedEditors') \cup ToSet(treeStack')
        BY <1>1, <3>1
      <3>3. \A d \in ToSet(sortedEditors') : Children(d) \subseteq ToSet(sortedEditors') \cup ToSet(treeStack')
        BY <1>1, <3>1, <3>2 DEF RInv, WalkInv
      <3> QED BY <1>1, <1>2, <3>1, <3>2, <3>3 DEF RInv, WalkInv
    <2> QED BY <2>1, <2>2
  <1>9. FirstInv' /\ SecondInv'
    BY <1>1 DEF FirstInv, SecondInv
  <1>10. OrderIsComplete'
    <2>1. IsInjective(sortedEditors)
      BY DEF RInv, OrderIsComplete
    <2>2. CASE e \notin ToSet(sortedEditors)
      <3>1. DOMAIN Append(sortedEditors, e) = DOMAIN sortedEditors \cup {Len(sortedEditors) + 1}
            /\ Append(sortedEditors, e)[Len(sortedEditors) + 1] = e
            /\ \A i \in DOMAIN sortedEditors : Append(sortedEditors, e)[i] = sortedEditors[i]
        BY <1>1
      <3>2. \A i \in DOMAIN sortedEditors : sortedEditors[i] # e
        BY <2>2 DEF ToSet
      <3>3. IsInjective(Append(sortedEditors, e))
        BY <2>1, <3>1, <3>2 DEF IsInjective
      <3> QED BY <1>1, <1>4, <2>2, <3>3 DEF OrderIsComplete
    <2>3. CASE e \in ToSet(sortedEditors)
      BY <1>1, <1>4, <2>1, <2>3 DEF OrderIsComplete
    <2> QED BY <2>2, <2>3
  <1> QED BY <1>7, <1>8, <1>9, <1>10 DEF RInv

\* The walk ends with a list that is closed and has the roots.
LEMMA SortedAll == ASSUME RInv, pc = "walk", treeStack = << >> PROVE ToSet(sortedEditors) = cached
  <1>1. ToSet(treeStack) = {}
    BY DEF ToSet
  <1>2. ToSet(sortedEditors) \in SUBSET cached /\ roots \subseteq ToSet(sortedEditors)
        /\ Closed(ToSet(sortedEditors))
    BY <1>1 DEF RInv, WalkInv, Closed
  <1> QED BY <1>2 DEF RInv, WalkInv

LEMMA SortedRInv == ASSUME SInv, RInv, Sorted PROVE RInv'
  <1>1. pc = "walk" /\ treeStack = << >> /\ pc' \in {"idle", "go"}
        /\ UNCHANGED <<cached, relationships, sortedEditors, root, localVisited>>
    BY DEF Sorted, traversal
  <1>2. \A X : Closed(X)' <=> Closed(X)
    BY <1>1, SameGraph
  <1>3. LocalReached'
    BY <1>1, <1>2 DEF RInv, LocalReached
  <1>4. FirstInv' /\ SecondInv' /\ WalkInv'
    BY <1>1 DEF FirstInv, SecondInv, WalkInv
  <1>5. OrderIsComplete'
    BY <1>1, SortedAll DEF RInv, OrderIsComplete
  <1> QED BY <1>3, <1>4, <1>5 DEF RInv

\* Outside of sortEditors: a new copy makes the order dirty, and a sort begins from nothing.
LEMMA CallersRInv ==
  ASSUME SInv, RInv
  PROVE  /\ \A S \in SUBSET Ids : shouldCacheAndRegenerateRelationships(S) => RInv'
         /\ \A rels \in SUBSET Edges : buildRelationshipGraph(rels) => RInv'
         /\ getSortedEditors => RInv'
         /\ \A edge \in Joined : unconditionallyAddRelationship(edge) => RInv'
         /\ \A S \in Selections : resetIndex(S) => RInv'
         /\ \A d \in {1, - 1} : goToNextEditor(d) => RInv'
         /\ pc = "go" /\ getNextEditor(direction) => RInv'
  <1>1. ASSUME pc \in {"idle", "go"}, pc' \in {"idle", "go"}, UNCHANGED <<localVisited, sortedEditors>>,
               isDirty' \/ (~ isDirty' /\ UNCHANGED <<isDirty, cached>>)
        PROVE  RInv'
    <2>1. LocalReached'
      BY <1>1 DEF SInv, Shape, LocalReached
    <2>2. FirstInv' /\ SecondInv' /\ WalkInv'
      BY <1>1 DEF FirstInv, SecondInv, WalkInv
    <2>3. OrderIsComplete'
      BY <1>1 DEF RInv, OrderIsComplete
    <2> QED BY <2>1, <2>2, <2>3 DEF RInv
  <1>2. ASSUME NEW d, pc = "idle", sortEditors(d), cached' = cached PROVE RInv'
    <2>1. pc' = "first" /\ isDirty' /\ todo' = cached' /\ sortedEditors' = << >>
          /\ localVisited' = {} /\ globalVisited' = {} /\ root' = NoEditor
      BY <1>2 DEF sortEditors, traversal, SInv, Shape
    <2>2. LocalReached' /\ FirstInv'
      BY <2>1 DEF LocalReached, FirstInv
    <2>3. SecondInv' /\ WalkInv'
      BY <2>1 DEF SecondInv, WalkInv
    <2>4. OrderIsComplete'
      BY <2>1 DEF OrderIsComplete, IsInjective
    <2> QED BY <2>2, <2>3, <2>4 DEF RInv
  <1>3. ASSUME NEW S \in SUBSET Ids, shouldCacheAndRegenerateRelationships(S) PROVE RInv'
    BY <1>1, <1>3 DEF shouldCacheAndRegenerateRelationships, sorting, traversal
  <1>4. ASSUME NEW rels \in SUBSET Edges, buildRelationshipGraph(rels) PROVE RInv'
    <2>1. CASE sortEditors(0)
      BY <1>2, <1>4, <2>1 DEF buildRelationshipGraph
    <2>2. CASE ~ sortEditors(0)
      BY <1>1, <1>4, <2>2 DEF buildRelationshipGraph, sorting, traversal
    <2> QED BY <2>1, <2>2
  <1>5. getSortedEditors => RInv'
    BY <1>2 DEF getSortedEditors, sorter
  <1>6. ASSUME NEW edge \in Joined, unconditionallyAddRelationship(edge) PROVE RInv'
    BY <1>1, <1>6 DEF unconditionallyAddRelationship, sorting, traversal, SInv, TypeOK
  <1>7. ASSUME NEW S \in Selections, resetIndex(S) PROVE RInv'
    BY <1>1, <1>7 DEF resetIndex, sorting, traversal, SInv, TypeOK
  <1>8. ASSUME NEW d, pc \in {"idle", "go"}, getNextEditor(d) PROVE RInv'
    BY <1>1, <1>8 DEF getNextEditor, traversal, SInv, TypeOK
  <1>9. ASSUME NEW d \in {1, - 1}, goToNextEditor(d) PROVE RInv'
    BY <1>2, <1>8, <1>9 DEF goToNextEditor, sorter
  <1>10. ASSUME pc = "go", getNextEditor(direction) PROVE RInv'
    BY <1>8, <1>10
  <1> QED BY <1>3, <1>4, <1>5, <1>6, <1>7, <1>9, <1>10

LEMMA InitRInv == Init => RInv
  <1> SUFFICES ASSUME Init PROVE RInv
    OBVIOUS
  <1>1. LocalReached /\ FirstInv /\ SecondInv /\ WalkInv
    BY DEF Init, LocalReached, FirstInv, SecondInv, WalkInv
  <1>2. OrderIsComplete
    BY DEF Init, OrderIsComplete, IsInjective
  <1> QED BY <1>1, <1>2 DEF RInv

LEMMA NextRInv == SInv /\ RInv /\ [Next]_vars => RInv'
  <1> SUFFICES ASSUME SInv, RInv, [Next]_vars PROVE RInv'
    OBVIOUS
  <1>1. CASE UNCHANGED vars
    <2>1. /\ \A d : Children(d)' = Children(d)
          /\ \A d : HasParent(d)' <=> HasParent(d)
          /\ \A X : Closed(X)' <=> Closed(X)
      BY <1>1, SameGraph DEF vars
    <2>2. \A X : Around(X)' <=> Around(X)
      BY <1>1, <2>1 DEF Around, vars
    <2>3. LocalReached'
      BY <1>1, <2>1 DEF RInv, LocalReached, vars
    <2>4. FirstInv'
      BY <1>1, <2>1, <2>2 DEF RInv, FirstInv, vars
    <2>5. Seen' = Seen /\ Expanded' = Expanded
      BY <1>1 DEF Seen, Expanded, vars
    <2>6. \A X : (NoneLeadsBack(X)' <=> NoneLeadsBack(X)) /\ (HasSource(X)' <=> HasSource(X))
      BY <1>1, <2>1, <2>5 DEF NoneLeadsBack, HasSource, vars
    <2>7. SecondInv'
      BY <1>1, <2>1, <2>2, <2>6 DEF RInv, SecondInv, vars
    <2>8. WalkInv' /\ OrderIsComplete'
      BY <1>1, <2>1 DEF RInv, WalkInv, OrderIsComplete, vars
    <2> QED BY <2>3, <2>4, <2>7, <2>8 DEF RInv
  <1>2. CASE Sorting
    BY <1>2, FirstRInv, FirstDoneRInv, SecondRInv, DetectRInv, TraversedRInv, SecondDoneRInv, VisitRInv,
       SortedRInv DEF Sorting
  <1>3. CASE Next /\ ~ Sorting
    BY <1>3, CallersRInv DEF Next
  <1> QED BY <1>1, <1>2, <1>3

\* sortEditors lists every cached editor exactly once, for any canvas and any relationships:
\* the second traversal of buildTree finds a root for each cycle that the first one missed,
\* although the traversals share what they have visited.
THEOREM OrderComplete == Spec => []OrderIsComplete
  <1>1. RInv => OrderIsComplete
    BY DEF RInv
  <1> QED BY <1>1, InitSInv, NextSInv, InitRInv, NextRInv, PTL DEF Spec
-----------------------------------------------------------------------------
(* The walk is depth-first.                                                *)

Part(s, i, k) == {s[j] : j \in i .. k}

\* From editor i on up to k the list has only editors that i leads to along G without those
\* before it; what they lead to is among them, before, or on the stack above b, and the
\* stack is empty above b once the list has gone on.
Deep(G, order, stack, i, k, b) ==
  LET before == Part(order, 1, i - 1)
      part == Part(order, i, k)
      above == Part(stack, b + 1, Len(stack))
      reached == Reached(G, order[i], before)
  IN /\ k = Len(order) \/ b = Len(stack)
     /\ \A r \in G : r[1] \in part => r[2] \in part \cup before \cup above
     /\ part \subseteq reached
     /\ above \subseteq reached \cup before

AllDeep(G, order, stack) ==
  \A i \in DOMAIN order : \E k \in i .. Len(order), b \in 0 .. Len(stack) : Deep(G, order, stack, i, k, b)

DInv == pc = "walk" => AllDeep(Graph, sortedEditors, treeStack)

LEMMA PartAll ==
  ASSUME NEW S, NEW s \in Seq(S), NEW i \in DOMAIN s
  PROVE  ToSet(s) = Part(s, 1, i - 1) \cup Part(s, i, Len(s))
  <1>1. Len(s) \in Nat /\ DOMAIN s = 1..Len(s)
    OBVIOUS
  <1>2. \A j : j \in DOMAIN s <=> j \in 1..(i - 1) \/ j \in i..Len(s)
    BY <1>1
  <1> QED BY <1>2 DEF Part, ToSet

LEMMA PartAppend ==
  ASSUME NEW S, NEW s \in Seq(S), NEW e, NEW i \in Nat \ {0}
  PROVE  /\ \A k \in Nat : k <= Len(s) => Part(Append(s, e), i, k) = Part(s, i, k)
         /\ i <= Len(s) + 1 => Part(Append(s, e), i, Len(s) + 1) = Part(s, i, Len(s)) \cup {e}
  <1>1. Len(s) \in Nat /\ DOMAIN s = 1..Len(s)
    OBVIOUS
  <1>2. \A j \in 1..Len(s) : Append(s, e)[j] = s[j]
    OBVIOUS
  <1>3. Append(s, e)[Len(s) + 1] = e
    OBVIOUS
  <1>4. ASSUME NEW k \in Nat, k <= Len(s) PROVE Part(Append(s, e), i, k) = Part(s, i, k)
    <2>1. \A j \in i..k : j \in 1..Len(s)
      BY <1>1, <1>4
    <2> QED BY <1>2, <2>1 DEF Part
  <1>5. ASSUME i <= Len(s) + 1 PROVE Part(Append(s, e), i, Len(s) + 1) = Part(s, i, Len(s)) \cup {e}
    <2>1. \A j : j \in i..(Len(s) + 1) <=> j \in i..Len(s) \/ j = Len(s) + 1
      BY <1>1, <1>5
    <2>2. \A j \in i..Len(s) : j \in 1..Len(s)
      BY <1>1
    <2>3. \A j \in i..Len(s) : Append(s, e)[j] = s[j]
      BY <1>2, <2>2
    <2> QED BY <1>3, <2>1, <2>3 DEF Part
  <1> QED BY <1>4, <1>5

\* A stack above b: before and after its top is popped, and with a list pushed.
LEMMA PartPopped ==
  ASSUME NEW S, NEW s \in Seq(S), NEW rest \in Seq(S), Len(s) > 0, Len(rest) = Len(s) - 1,
         \A j \in 1..(Len(s) - 1) : rest[j] = s[j],
         NEW b \in Nat, b < Len(s)
  PROVE  Part(s, b + 1, Len(s)) = Part(rest, b + 1, Len(rest)) \cup {s[Len(s)]}
  <1>1. \A j : j \in b + 1 .. Len(s) <=> j \in b + 1 .. Len(rest) \/ j = Len(s)
    OBVIOUS
  <1>2. \A j \in b + 1 .. Len(rest) : rest[j] = s[j]
    OBVIOUS
  <1> QED BY <1>1, <1>2 DEF Part

LEMMA PartPushed ==
  ASSUME NEW S, NEW s \in Seq(S), NEW t \in Seq(S), NEW b \in Nat, b <= Len(s)
  PROVE  Part(s \o t, b + 1, Len(s \o t)) = Part(s, b + 1, Len(s)) \cup ToSet(t)
  <1>1. Len(s) \in Nat /\ Len(t) \in Nat /\ Len(s \o t) = Len(s) + Len(t) /\ DOMAIN t = 1..Len(t)
    OBVIOUS
  <1>2. \A j \in b + 1 .. Len(s) : j \in b + 1 .. Len(s \o t) /\ (s \o t)[j] = s[j]
    OBVIOUS
  <1>3. \A j \in DOMAIN t : j + Len(s) \in b + 1 .. Len(s \o t) /\ (s \o t)[j + Len(s)] = t[j]
    BY <1>1
  <1>4. \A j \in b + 1 .. Len(s \o t) :
          j \in b + 1 .. Len(s) \/ (j - Len(s) \in DOMAIN t /\ (s \o t)[j] = t[j - Len(s)])
    BY <1>1
  <1> DEFINE st == s \o t
  <1> HIDE DEF st
  <1>5. Part(st, b + 1, Len(st)) \subseteq Part(s, b + 1, Len(s)) \cup ToSet(t)
    BY <1>2, <1>4 DEF Part, ToSet, st
  <1>6. Part(s, b + 1, Len(s)) \subseteq Part(st, b + 1, Len(st))
    BY <1>2 DEF Part, st
  <1>7. ToSet(t) \subseteq Part(st, b + 1, Len(st))
    BY <1>3 DEF Part, ToSet, st
  <1> QED BY <1>5, <1>6, <1>7 DEF st

LEMMA PartEmpty == ASSUME NEW s, NEW n \in Nat PROVE Part(s, n + 1, n) = {}
  BY DEF Part

\* Reached is closed, around e, and within every such set.
LEMMA ReachedClosed ==
  ASSUME NEW G \in SUBSET (Ids \X Ids), NEW e \in Ids, NEW S
  PROVE  /\ e \in Reached(G, e, S)
         /\ \A r \in G : r[1] \in Reached(G, e, S) => r[2] \in Reached(G, e, S) \cup S
  BY DEF Reached

LEMMA ReachedLeast ==
  ASSUME NEW G \in SUBSET (Ids \X Ids), NEW e, NEW S, NEW Y \in SUBSET Ids, e \in Y,
         \A r \in G : r[1] \in Y => r[2] \in Y \cup S
  PROVE  Reached(G, e, S) \subseteq Y
  BY DEF Reached

\* The top of the stack is skipped: it is listed already.
LEMMA DeepSkipped ==
  ASSUME NEW G \in SUBSET (Ids \X Ids), NEW order \in Seq(Ids), NEW stack \in Seq(Ids), NEW rest \in Seq(Ids),
         Len(stack) > 0, Len(rest) = Len(stack) - 1, \A j \in 1..(Len(stack) - 1) : rest[j] = stack[j],
         stack[Len(stack)] \in ToSet(order), AllDeep(G, order, stack)
  PROVE  AllDeep(G, order, rest)
  <1> SUFFICES ASSUME NEW i \in DOMAIN order
               PROVE  \E k \in i .. Len(order), b \in 0 .. Len(rest) : Deep(G, order, rest, i, k, b)
    BY DEF AllDeep
  <1>0. Len(stack) \in Nat /\ Len(rest) \in Nat /\ Len(order) \in Nat /\ i \in Nat \ {0} /\ i <= Len(order)
    OBVIOUS
  <1>1. PICK k \in i .. Len(order), b \in 0 .. Len(stack) : Deep(G, order, stack, i, k, b)
    BY DEF AllDeep
  <1>2. CASE b = Len(stack)
    <2>1. Part(stack, b + 1, Len(stack)) = {} /\ Part(rest, Len(rest) + 1, Len(rest)) = {}
      BY <1>0, <1>2, PartEmpty
    <2>2. Deep(G, order, rest, i, k, Len(rest))
      BY <1>1, <2>1 DEF Deep
    <2>3. Len(rest) \in 0 .. Len(rest)
      BY <1>0
    <2> QED BY <2>2, <2>3
  <1>3. CASE b # Len(stack)
    <2>1. b < Len(stack) /\ b \in Nat /\ b \in 0 .. Len(rest)
      BY <1>0, <1>3
    <2>2. k = Len(order)
      BY <1>1, <1>3 DEF Deep
    <2>3. Part(stack, b + 1, Len(stack)) = Part(rest, b + 1, Len(rest)) \cup {stack[Len(stack)]}
      BY <2>1, PartPopped
    <2>4. stack[Len(stack)] \in Part(order, 1, i - 1) \cup Part(order, i, k)
      BY <2>2, PartAll
    <2>5. Deep(G, order, rest, i, k, b)
      BY <1>1, <2>2, <2>3, <2>4 DEF Deep
    <2> QED BY <2>1, <2>5
  <1> QED BY <1>2, <1>3

\* The top of the stack is listed, and its children take its place.
LEMMA DeepListed ==
  ASSUME NEW G \in SUBSET (Ids \X Ids), NEW order \in Seq(Ids), NEW stack \in Seq(Ids), NEW rest \in Seq(Ids),
         Len(stack) > 0, Len(rest) = Len(stack) - 1, \A j \in 1..(Len(stack) - 1) : rest[j] = stack[j],
         NEW e \in Ids, e = stack[Len(stack)], e \notin ToSet(order), AllDeep(G, order, stack),
         NEW kids \in Seq(Ids), \A d : d \in ToSet(kids) <=> <<e, d>> \in G
  PROVE  AllDeep(G, Append(order, e), rest \o kids)
  <1> DEFINE list == Append(order, e)
             pushed == rest \o kids
  <1>0. Len(stack) \in Nat /\ Len(rest) \in Nat /\ Len(order) \in Nat /\ Len(list) = Len(order) + 1
        /\ Len(pushed) \in Nat /\ Len(rest) <= Len(pushed)
    OBVIOUS
  <1>1. list[Len(order) + 1] = e /\ \A j \in DOMAIN order : list[j] = order[j]
    OBVIOUS
  <1>2. \A r \in G : r[1] = e => r[2] \in ToSet(kids)
    <2>1. \A r \in G : r = <<r[1], r[2]>>
      OBVIOUS
    <2> QED BY <2>1
  <1>3. \A b \in Nat : b <= Len(rest) => Part(pushed, b + 1, Len(pushed)) = Part(rest, b + 1, Len(rest)) \cup ToSet(kids)
    BY PartPushed
  <1>4. DOMAIN list = DOMAIN order \cup {Len(order) + 1}
    OBVIOUS
  <1>5. \A i \in Nat \ {0} : /\ \A k \in Nat : k <= Len(order) => Part(list, i, k) = Part(order, i, k)
                             /\ i <= Len(order) + 1 => Part(list, i, Len(order) + 1) = Part(order, i, Len(order)) \cup {e}
    BY PartAppend
  <1>6. ToSet(kids) \subseteq Ids
    BY ListType
  <1> HIDE DEF list, pushed
  <1>7. ASSUME NEW i \in DOMAIN order
        PROVE  \E k \in i .. Len(list), b \in 0 .. Len(pushed) : Deep(G, list, pushed, i, k, b)
    <2>1. i \in Nat \ {0} /\ i <= Len(order) /\ i - 1 \in Nat /\ i - 1 <= Len(order) /\ order[i] \in Ids
      OBVIOUS
    <2>2. PICK k \in i .. Len(order), b \in 0 .. Len(stack) : Deep(G, order, stack, i, k, b)
      BY DEF AllDeep
    <2>3. k \in Nat /\ k <= Len(order) /\ b \in Nat
      BY <1>0, <2>1
    <2> DEFINE before == Part(order, 1, i - 1)
               reached == Reached(G, order[i], before)
    <2>4. Part(list, 1, i - 1) = before /\ Part(list, i, k) = Part(order, i, k) /\ list[i] = order[i]
      BY <1>1, <1>5, <2>1, <2>3
    <2>5. CASE b = Len(stack)
      <3>1. Part(stack, b + 1, Len(stack)) = {} /\ Part(pushed, Len(pushed) + 1, Len(pushed)) = {}
        BY <1>0, <2>5, PartEmpty
      <3>2. Deep(G, list, pushed, i, k, Len(pushed))
        BY <2>2, <2>4, <3>1 DEF Deep
      <3>3. Len(pushed) \in 0 .. Len(pushed) /\ k \in i .. Len(list)
        BY <1>0, <2>1, <2>3
      <3> QED BY <3>2, <3>3
    <2>6. CASE b # Len(stack)
      <3>1. b < Len(stack) /\ b <= Len(rest) /\ b \in 0 .. Len(pushed) /\ Len(list) \in i .. Len(list)
        BY <1>0, <2>1, <2>3, <2>6
      <3>2. k = Len(order)
        BY <2>2, <2>6 DEF Deep
      <3>3. Part(stack, b + 1, Len(stack)) = Part(rest, b + 1, Len(rest)) \cup {e}
        BY <2>3, <3>1, PartPopped
      <3>4. Part(pushed, b + 1, Len(pushed)) = Part(rest, b + 1, Len(rest)) \cup ToSet(kids)
        BY <1>3, <2>3, <3>1
      <3>5. Part(list, i, Len(list)) = Part(order, i, k) \cup {e}
        BY <1>0, <1>5, <2>1, <3>2
      <3>6. e \notin before
        BY <2>1, PartAll
      <3>7. e \in reached /\ Part(order, i, k) \subseteq reached
            /\ Part(rest, b + 1, Len(rest)) \subseteq reached \cup before
        BY <2>2, <3>3, <3>6 DEF Deep
      <3>8. \A r \in G : r[1] \in reached => r[2] \in reached \cup before
        BY <2>1, ReachedClosed
      <3>9. ToSet(kids) \subseteq reached \cup before
        <4>1. \A d \in ToSet(kids) : <<e, d>> \in G /\ <<e, d>>[1] = e /\ <<e, d>>[2] = d
          OBVIOUS
        <4> QED BY <3>7, <3>8, <4>1
      <3>10. \A r \in G : r[1] \in Part(order, i, k) \cup {e}
               => r[2] \in Part(order, i, k) \cup {e} \cup before \cup Part(pushed, b + 1, Len(pushed))
        BY <1>2, <2>2, <3>3, <3>4 DEF Deep
      <3> HIDE DEF before, reached
      <3>11. Deep(G, list, pushed, i, Len(list), b)
        <4>1. Reached(G, list[i], Part(list, 1, i - 1)) = reached
          BY <2>4 DEF reached
        <4> QED BY <2>4, <3>4, <3>5, <3>7, <3>9, <3>10, <4>1 DEF Deep
      <3> QED BY <3>1, <3>11
    <2> QED BY <2>5, <2>6
  <1>8. ASSUME NEW i, i = Len(order) + 1
        PROVE  \E k \in i .. Len(list), b \in 0 .. Len(pushed) : Deep(G, list, pushed, i, k, b)
    <2> DEFINE before == Part(list, 1, i - 1)
               reached == Reached(G, e, before)
    <2>1. i \in Nat \ {0} /\ i \in i .. Len(list) /\ Len(rest) \in 0 .. Len(pushed) /\ i = Len(list)
      BY <1>0, <1>8
    <2>2. Part(list, i, i) = {e} /\ list[i] = e
      <3>1. Part(order, i, Len(order)) = {}
        BY <1>0, <1>8, PartEmpty
      <3>2. Part(list, i, Len(order) + 1) = Part(order, i, Len(order)) \cup {e}
        BY <1>5, <1>8, <2>1
      <3> QED BY <1>1, <1>8, <3>1, <3>2
    <2>3. Part(pushed, Len(rest) + 1, Len(pushed)) = ToSet(kids)
      <3>1. Part(rest, Len(rest) + 1, Len(rest)) = {}
        BY <1>0, PartEmpty
      <3>2. Part(pushed, Len(rest) + 1, Len(pushed)) = Part(rest, Len(rest) + 1, Len(rest)) \cup ToSet(kids)
        <4>1. Len(rest) \in Nat /\ Len(rest) <= Len(rest)
          BY <1>0
        <4> QED BY <1>3, <4>1
      <3> QED BY <3>1, <3>2
    <2> HIDE DEF before
    <2>4. e \in reached /\ \A r \in G : r[1] \in reached => r[2] \in reached \cup before
      <3>1. G \in SUBSET (Ids \X Ids) /\ e \in Ids
        OBVIOUS
      <3> QED BY <3>1, ReachedClosed
    <2>5. ToSet(kids) \subseteq reached \cup before
      <3>1. \A d \in ToSet(kids) : <<e, d>> \in G /\ <<e, d>>[1] = e /\ <<e, d>>[2] = d
        OBVIOUS
      <3> QED BY <2>4, <3>1
    <2> HIDE DEF before, reached
    <2>6. Deep(G, list, pushed, i, i, Len(rest))
      <3>1. Reached(G, list[i], Part(list, 1, i - 1)) = reached
        BY <2>2 DEF reached, before
      <3> QED BY <1>2, <2>1, <2>2, <2>3, <2>4, <2>5, <3>1 DEF Deep, before
    <2> QED BY <2>1, <2>6
  <1>9. AllDeep(G, list, pushed)
    BY <1>4, <1>7, <1>8 DEF AllDeep
  <1> QED BY <1>9 DEF list, pushed

LEMMA GraphType == ASSUME TypeOK PROVE Graph \in SUBSET (Ids \X Ids)
  BY SpatialAssumption DEF TypeOK, Graph

LEMMA VisitDInv == ASSUME SInv, DInv, Visit PROVE DInv'
  <1> DEFINE e == treeStack[Len(treeStack)]
             rest == SubSeq(treeStack, 1, Len(treeStack) - 1)
  <1>1. PICK kids \in Seq(cached) :
        /\ ToSet(kids) = Children(e)
        /\ pc = "walk" /\ UNCHANGED <<cached, relationships>>
        /\ e \in cached /\ rest \in Seq(cached) /\ treeStack \in Seq(cached) /\ sortedEditors \in Seq(Ids)
        /\ Len(treeStack) > 0 /\ Len(rest) = Len(treeStack) - 1
        /\ \A j \in 1..(Len(treeStack) - 1) : rest[j] = treeStack[j]
        /\ \/ e \in ToSet(sortedEditors) /\ treeStack' = rest /\ sortedEditors' = sortedEditors
           \/ e \notin ToSet(sortedEditors) /\ sortedEditors' = Append(sortedEditors, e) /\ treeStack' = rest \o kids
    BY VisitStep
  <1>2. Graph \in SUBSET (Ids \X Ids) /\ Graph' = Graph
    BY <1>1, GraphType DEF SInv, Graph
  <1>3. cached \subseteq Ids
    BY DEF SInv, TypeOK
  <1>4. kids \in Seq(cached) /\ ToSet(kids) = Children(e)
    BY <1>1
  <1>5. \A d : d \in ToSet(kids) <=> <<e, d>> \in Graph
    BY <1>4 DEF Children, Graph
  <1>6. AllDeep(Graph, sortedEditors, treeStack)
    BY <1>1 DEF DInv
  <1> HIDE DEF rest
  <1>7. treeStack \in Seq(Ids) /\ rest \in Seq(Ids) /\ kids \in Seq(Ids) /\ e \in Ids
    <2>1. \A s \in Seq(cached) : s \in Seq(Ids)
      BY <1>3, ListType, ListRetype
    <2> QED BY <1>1, <1>3, <1>4, <2>1
  <1>8. CASE e \in ToSet(sortedEditors)
    <2>1. AllDeep(Graph, sortedEditors, rest)
      BY <1>1, <1>2, <1>6, <1>7, <1>8, DeepSkipped
    <2> QED BY <1>1, <1>2, <1>8, <2>1 DEF DInv
  <1>9. CASE e \notin ToSet(sortedEditors)
    <2>1. AllDeep(Graph, Append(sortedEditors, e), rest \o kids)
      BY <1>1, <1>2, <1>5, <1>6, <1>7, <1>9, DeepListed
    <2> QED BY <1>1, <1>2, <1>9, <2>1 DEF DInv
  <1> QED BY <1>8, <1>9

LEMMA NextDInv == SInv /\ DInv /\ [Next]_vars => DInv'
  <1> SUFFICES ASSUME SInv, DInv, [Next]_vars PROVE DInv'
    OBVIOUS
  <1>1. ASSUME pc' # "walk" PROVE DInv'
    BY <1>1 DEF DInv
  <1>2. CASE UNCHANGED vars
    <2>1. Graph' = Graph /\ UNCHANGED <<pc, sortedEditors, treeStack>>
      BY <1>2 DEF Graph, vars
    <2> QED BY <2>1 DEF DInv
  <1>3. CASE Sorting
    <2>1. ASSUME NEW e \in Ids, FirstTraversal(e) \/ SecondTraversal(e) \/ detectCycle(e) PROVE DInv'
      BY <1>1, <2>1 DEF FirstTraversal, SecondTraversal, detectCycle, SInv, Shape
    <2>2. ASSUME FirstDone \/ Traversed \/ Sorted PROVE DInv'
      BY <1>1, <2>2 DEF FirstDone, Traversed, Sorted, SInv, Shape
    <2>3. ASSUME SecondDone PROVE DInv'
      <3>1. sortedEditors' = << >>
        BY <2>3 DEF SecondDone, SInv, Shape
      <3> QED BY <3>1 DEF DInv, AllDeep
    <2> QED BY <1>3, <2>1, <2>2, <2>3, VisitDInv DEF Sorting
  <1>4. CASE Next /\ ~ Sorting
    <2>1. ASSUME NEW d, getNextEditor(d) PROVE pc' # "walk"
      BY <2>1 DEF getNextEditor
    <2>2. ASSUME NEW d, sortEditors(d) PROVE pc' # "walk"
      BY <2>2 DEF sortEditors
    <2>3. ASSUME pc = "idle", UNCHANGED sorting PROVE pc' # "walk"
      BY <2>3 DEF sorting
    <2>4. pc' # "walk"
      BY <1>4, <2>1, <2>2, <2>3 DEF Next, shouldCacheAndRegenerateRelationships, buildRelationshipGraph,
         getSortedEditors, unconditionallyAddRelationship, resetIndex, goToNextEditor
    <2> QED BY <1>1, <2>4
  <1> QED BY <1>2, <1>3, <1>4

\* When the stack is empty each part is all that its first editor leads to.
LEMMA DeepDone ==
  ASSUME NEW G \in SUBSET (Ids \X Ids), NEW order \in Seq(Ids), AllDeep(G, order, << >>),
         NEW i \in DOMAIN order
  PROVE  \E k \in i .. Len(order) : Part(order, i, k) = Reached(G, order[i], Part(order, 1, i - 1))
  <1>1. PICK k \in i .. Len(order), b \in 0 .. Len(<< >>) : Deep(G, order, << >>, i, k, b)
    BY DEF AllDeep
  <1>2. b = 0 /\ Len(<< >>) = 0
    OBVIOUS
  <1> DEFINE before == Part(order, 1, i - 1)
             part == Part(order, i, k)
  <1>3. Part(<< >>, b + 1, Len(<< >>)) = {}
    BY <1>2 DEF Part
  <1>4. /\ \A r \in G : r[1] \in part => r[2] \in part \cup before
        /\ part \subseteq Reached(G, order[i], before)
    BY <1>1, <1>3 DEF Deep
  <1>5. order[i] \in part /\ part \in SUBSET Ids
    <2>1. \A j \in i .. k : j \in DOMAIN order
      OBVIOUS
    <2>2. i \in i .. k
      OBVIOUS
    <2> QED BY <2>1, <2>2 DEF Part
  <1> HIDE DEF before, part
  <1>6. Reached(G, order[i], before) \subseteq part
    BY <1>4, <1>5, ReachedLeast
  <1>7. part = Reached(G, order[i], before)
    BY <1>4, <1>6
  <1> QED BY <1>7 DEF part, before

\* The order that a sort gives to its caller.
LEMMA SortedDeep ==
  ASSUME SInv, RInv, DInv, Sorted PROVE IsDepthFirst(sortedEditors', relationships')
  <1>1. pc = "walk" /\ treeStack = << >> /\ UNCHANGED <<cached, relationships, sortedEditors>>
    BY DEF Sorted
  <1>2. AllDeep(Graph, sortedEditors, << >>) /\ sortedEditors \in Seq(Ids) /\ Graph \in SUBSET (Ids \X Ids)
    BY <1>1, GraphType DEF DInv, SInv, TypeOK
  <1>3. {r \in relationships : r[1] \in ToSet(sortedEditors) /\ r[2] \in ToSet(sortedEditors)} = Graph
    BY <1>1, SortedAll DEF Graph
  <1>4. \A i \in DOMAIN sortedEditors : \E k \in i .. Len(sortedEditors) :
          Part(sortedEditors, i, k) = Reached(Graph, sortedEditors[i], Part(sortedEditors, 1, i - 1))
    BY <1>2, DeepDone
  <1>5. IsDepthFirst(sortedEditors, relationships)
    BY <1>3, <1>4 DEF IsDepthFirst, Part
  <1> QED BY <1>1, <1>5

\* Every sort gives a depth-first order, for any canvas and any relationships, cycles and
\* pairs added twice included.
THEOREM DepthFirst == Spec => SortIsDepthFirst
  <1>1. Init => DInv
    BY DEF Init, DInv
  <1>2. SInv /\ RInv /\ DInv /\ [Next]_vars
          => [isDirty /\ ~ isDirty' => IsDepthFirst(sortedEditors', relationships')]_vars
    <2> SUFFICES ASSUME SInv, RInv, DInv, Next, isDirty, ~ isDirty'
                 PROVE  IsDepthFirst(sortedEditors', relationships')
      OBVIOUS
    <2>1. Sorted
      <3>1. ASSUME NEW d, getNextEditor(d) PROVE FALSE
        BY <3>1 DEF getNextEditor
      <3>2. ASSUME NEW d, sortEditors(d) PROVE FALSE
        BY <3>2 DEF sortEditors
      <3>3. Sorting
        BY <3>1, <3>2 DEF Next, shouldCacheAndRegenerateRelationships, buildRelationshipGraph,
           getSortedEditors, unconditionallyAddRelationship, resetIndex, goToNextEditor
      <3> QED BY <3>3 DEF Sorting, FirstTraversal, SecondTraversal, detectCycle, FirstDone, Traversed,
               SecondDone, Visit
    <2> QED BY <2>1, SortedDeep
  <1> QED BY <1>1, <1>2, InitSInv, NextSInv, InitRInv, NextRInv, NextDInv, PTL DEF Spec, SortIsDepthFirst
=============================================================================
