--------------------------- MODULE MCSpatialOrder ---------------------------
(***************************************************************************)
(* SpatialOrder with three editors: 1 and 2 are a row, 1 and 3 a column.   *)
(***************************************************************************)
EXTENDS SpatialOrder, SpatialGrouping

At(px, py) == [x |-> px, y |-> py, w |-> 100, h |-> 100]

MCRect == <<At(0, 0), At(300, 0), At(0, 300)>>

MCArrange == [S \in SUBSET Ids |-> {Arranged(list) : list \in Lists(S)}]

\* A cycle of two editors that 1 leads to or is reached from, a cycle of all three, and one
\* editor that depends on itself.
MCEdges == {<<1, 2>>, <<2, 3>>, <<3, 2>>, <<3, 1>>, <<3, 3>>}

MCJoined == {<<2, 3>>}

\* Two selected editors count as none.
MCSelections == {{}} \cup {{e} : e \in Ids}
=============================================================================
