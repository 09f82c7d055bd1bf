---------------------------- MODULE MCSortQueue -----------------------------
(***************************************************************************)
(* SortQueue with three editors.  The first two use each other; the second *)
(* moves into the first or is pinned.  The third, which uses the first,    *)
(* comes and goes, and while it is there the second shows its whole file,  *)
(* which the user may join to the first.                                   *)
(***************************************************************************)
EXTENDS SortQueue

CONSTANTS e1, e2, e3, p1, p2, p3, inside1, s

MCIds == {e1, e2, e3}
MCPlaces == {p1, p2, p3, inside1}
MCOverlaps == {<<p, p>> : p \in MCPlaces} \cup {<<p1, inside1>>, <<inside1, p1>>}
MCSymbols == {s, File}
MCDependencies == {<<e1, s, e2, s>>, <<e2, s, e1, s>>, <<e3, s, e1, s>>, <<e1, s, e2, File>>}
MCOrders == {{<<e1, e2>>, <<e1, e3>>, <<e2, e3>>}, {<<e3, e2>>, <<e3, e1>>, <<e2, e1>>}}
MCJoined == {<<e2, e1>>}

At(place) == [place |-> place, isPinned |-> FALSE, symbol |-> s]
Two(second) == [e \in {e1, e2} |-> IF e = e1 THEN At(p1) ELSE second]
Three ==
  [e \in MCIds |-> CASE e = e1 -> At(p1)
                    [] e = e2 -> [At(p2) EXCEPT !.symbol = File]
                    [] e = e3 -> At(p3)]

MCLayouts ==
  {Three, Two(At(p2)), Two(At(inside1)), Two([At(p2) EXCEPT !.isPinned = TRUE]),
   Two([At(p2) EXCEPT !.symbol = File])}
-----------------------------------------------------------------------------
\* The loop of generateDependencyArrows over the keys in order O: what symmetricalEditors
\* holds when the turn of an editor comes.
Loop(considered, P, O) ==
  LET before[x \in MCIds] ==
        {y \in MCIds : /\ <<y, x>> \in O
                       /\ \E z \in MCIds : /\ <<y, z>> \in considered
                                            /\ z \notin before[y]
                                            /\ <<z, y>> \in P}
  IN before

\* symmetricalEditors is what the loop computes, whatever is related, mounted and unpinned.
ASSUME LoopAgrees ==
  \A P \in SUBSET (MCIds \X MCIds), M \in SUBSET MCIds, U \in SUBSET MCIds, O \in MCOrders :
    LET R == {[from |-> p[1], to |-> p[2], type |-> "SYMBOL_DEPENDENCY"] : p \in P}
        considered == P \cap ((M \cap U) \X U)
    IN \A x \in MCIds :
         Loop(considered, P, O)[x] = {y \in symmetricalEditors(considered, R, O) : <<y, x>> \in O}
=============================================================================
