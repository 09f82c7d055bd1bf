-------------------------- MODULE SpatialGrouping ---------------------------
(***************************************************************************)
(* SpatialSorter: the order in which a set of editors is put on the stack  *)
(* of the walk, with rows and columns of editors kept together.            *)
(***************************************************************************)
EXTENDS Integers, SequencesExt

CONSTANT Rect    \* the rectangle of each editor; editors are numbered as they were inserted

RECTANGLE_MAX_DELTA == 50

ASSUME RectAssumption ==
  /\ DOMAIN Rect \subseteq Nat \ {0}
  /\ Rect \in [DOMAIN Rect -> [x : Int, y : Int, w : Nat, h : Nat]]

(* A SortEditor is an editor or a group of SortEditors, which has the      *)
(* rectangle of its first member.                                          *)

NoId == 0

EditorNode(e) == [id |-> e, rect |-> Rect[e], members |-> << >>]

GroupNode(members) == [id |-> NoId, rect |-> Head(members).rect, members |-> members]

\* Array.sort, which is stable.
StableSort(nodes, key(_)) ==
  LET before(i, j) == key(nodes[i]) < key(nodes[j]) \/ (key(nodes[i]) = key(nodes[j]) /\ i < j)
      places == SetToSortSeq(DOMAIN nodes, before)
  IN [i \in DOMAIN nodes |-> nodes[places[i]]]

\* By descending distance from the origin: the last is popped first.
sortGroup(nodes) == StableSort(nodes, LAMBDA n : 0 - n.rect.x - n.rect.y)

\* One pass over the nodes sorted by pos: a node joins the group before it if it lies
\* within the extent of the group's first member.
Group(nodes, pos(_), size(_)) ==
  LET fits(n, first) ==
        /\ pos(n) >= pos(first) - RECTANGLE_MAX_DELTA
        /\ pos(n) + size(n) <= pos(first) + size(first)
      step(groups, n) ==
        IF groups # << >> /\ fits(n, Head(Last(groups)))
          THEN [groups EXCEPT ![Len(groups)] = Append(@, n)]
          ELSE Append(groups, <<n>>)
      groups == FoldLeft(step, << >>, StableSort(nodes, pos))
  IN [i \in DOMAIN groups |-> IF Len(groups[i]) > 1 THEN GroupNode(groups[i]) ELSE groups[i][1]]

groupEditorsByRow(nodes) == Group(nodes, LAMBDA n : n.rect.y, LAMBDA n : n.rect.h)

groupEditorsByCol(nodes) == Group(nodes, LAMBDA n : n.rect.x, LAMBDA n : n.rect.w)

groupAndSortEditors(nodes) == sortGroup(groupEditorsByCol(groupEditorsByRow(nodes)))

\* A group that is popped leaves its members on the stack, sorted again, and the last of
\* them is popped next: the stack is as if it had held them in its place.
RowMembers(node) ==
  IF node.id # NoId THEN <<node.id>>
  ELSE LET sorted == sortGroup(node.members) IN [i \in DOMAIN sorted |-> sorted[i].id]

ColMembers(node) ==
  IF node.id # NoId THEN <<node.id>>
  ELSE LET sorted == sortGroup(node.members) IN FlattenSeq([i \in DOMAIN sorted |-> RowMembers(sorted[i])])

Arranged(editors) ==
  LET nodes == groupAndSortEditors([i \in DOMAIN editors |-> EditorNode(editors[i])])
  IN FlattenSeq([i \in DOMAIN nodes |-> ColMembers(nodes[i])])

\* The lists a set of editors may be given as: in the order of their relationships, with an
\* editor twice if it is related twice.
Lists(S) == SetToSeqs(S) \cup {Append(list, e) : list \in SetToSeqs(S), e \in S}
=============================================================================
