-------------------------- MODULE SelectionHistory --------------------------
(***************************************************************************)
(* The jumps between earlier selections inside one editor: selectionRange  *)
(* of each editor and the two maps previousEditorSelectionHistoryMap and   *)
(* nextEditorSelectionHistoryMap of the workspace store.                   *)
(*                                                                         *)
(* The maps hold arrays, and both jumps pop and push in place.  shared is  *)
(* the set of editors whose two entries are one and the same array.        *)
(***************************************************************************)
EXTENDS Integers, Sequences

CONSTANTS
  Ids,         \* the uuids of editors
  Ranges,      \* the selections: records of a first and a last line
  NoRange,     \* selectionRange is null
  LineCounts,  \* how long the file of an editor may be
  MaxStack     \* bound of each stack

Min2(a, b) == IF a < b THEN a ELSE b

\* What VS Code makes of a selection in a file of n lines.
Clamp(r, n) == [start |-> Min2(r.start, n), end |-> Min2(r.end, n)]

ASSUME SelectionAssumption ==
  /\ Ranges \subseteq [start : Nat, end : Nat]
  /\ LineCounts \subseteq Nat
  /\ NoRange \notin Ranges
  /\ \A r \in Ranges, n \in LineCounts : Clamp(r, n) \in Ranges
  /\ MaxStack \in Nat

VARIABLE h   \* the maps: ranges (its domain is idToEditorMap's), previous, next, and shared

TypeOK ==
  \E S \in SUBSET Ids :
    h \in [ranges : [S -> Ranges \cup {NoRange}], previous : [Ids -> Seq(Ranges)],
           next : [Ids -> Seq(Ranges)], shared : SUBSET Ids]

Init ==
  h = [ranges |-> [e \in {} |-> NoRange], previous |-> [e \in Ids |-> << >>],
       next |-> [e \in Ids |-> << >>], shared |-> {}]
-----------------------------------------------------------------------------
Top(stack) == stack[Len(stack)]

Pop(stack) == SubSeq(stack, 1, Len(stack) - 1)

\* Math.abs(a - b) > 5
Apart(a, b) == a - b > 5 \/ b - a > 5

Far(r, q) == Apart(r.start, q.start) \/ Apart(r.end, q.end)

\* Mutant of pushToEditorSelectionHistory: the older selections are not copied.
pushAfresh(hist, e, r) ==
  [hist EXCEPT !.previous[e] = <<r>>, !.next[e] = << >>, !.shared = @ \ {e}]

\* The next map starts as a copy of the previous one, arrays and all.
pushToEditorSelectionHistory(hist, e, r) ==
  [ranges   |-> hist.ranges,
   previous |-> [hist.previous EXCEPT ![e] = Append(@, r)],
   next     |-> [hist.previous EXCEPT ![e] = << >>],
   shared   |-> {d \in Ids \ {e} : hist.previous[d] # << >>}]

setSelectionRange(hist, e, r) ==
  LET old == hist.ranges[e]
      pushed == IF r # NoRange /\ old # NoRange /\ r # old /\ Far(old, r)
                  THEN pushToEditorSelectionHistory(hist, e, old)
                  ELSE hist
  IN [pushed EXCEPT !.ranges = [@ EXCEPT ![e] = r]]

\* The jump sets selectionRange, and the cursor listener then reports where VS Code put
\* the cursor: a call of setSelectionRange inside the jump, whose push the jump overwrites.
Jumped(hist, e, r, n) ==
  setSelectionRange([hist EXCEPT !.ranges = [@ EXCEPT ![e] = r]], e, Clamp(r, n)).ranges

\* Mutant of PushCurrent: null is pushed as well.
PushAny(stack, r) == Append(stack, r)

\* editor.selectionRange as it was before the jump is pushed unless it is null.
PushCurrent(stack, r) == IF r = NoRange THEN stack ELSE Append(stack, r)

\* Mutant of goToPreviousEditorSelection: what is kept is the selection jumped to.
goToPreviousKeepingTarget(hist, e, n) ==
  [hist EXCEPT !.ranges = Jumped(hist, e, Top(hist.previous[e]), n), !.previous[e] = Pop(@),
               !.next[e] = Append(@, Top(hist.previous[e])), !.shared = @ \ {e}]

goToPreviousEditorSelection(hist, e, n) ==
  LET rest == Pop(hist.previous[e])
      later == PushCurrent(IF e \in hist.shared THEN rest ELSE hist.next[e], hist.ranges[e])
  IN [ranges   |-> Jumped(hist, e, Top(hist.previous[e]), n),
      previous |-> [hist.previous EXCEPT ![e] = IF e \in hist.shared THEN later ELSE rest],
      next     |-> [hist.next EXCEPT ![e] = later],
      shared   |-> hist.shared \ {e}]

goToNextEditorSelection(hist, e, n) ==
  LET rest == Pop(hist.next[e])
      earlier == PushCurrent(IF e \in hist.shared THEN rest ELSE hist.previous[e], hist.ranges[e])
  IN [ranges   |-> Jumped(hist, e, Top(hist.next[e]), n),
      previous |-> [hist.previous EXCEPT ![e] = earlier],
      next     |-> [hist.next EXCEPT ![e] = IF e \in hist.shared THEN earlier ELSE rest],
      shared   |-> hist.shared \ {e}]
-----------------------------------------------------------------------------
\* onDidChangeCursorSelection: the cursor of e moves.
MoveCursor(e, r) ==
  /\ e \in DOMAIN h.ranges
  /\ Len(h.previous[e]) < MaxStack
  /\ h' = setSelectionRange(h, e, r)

\* The command Jump to Previous Selection, with the focus in e.
GoBackInSelection(e, n) ==
  /\ e \in DOMAIN h.ranges
  /\ h.previous[e] # << >>
  /\ Len(h.next[e]) < MaxStack
  /\ h' = goToPreviousEditorSelection(h, e, n)

\* The command Jump to Next Selection.
GoForwardInSelection(e, n) ==
  /\ e \in DOMAIN h.ranges
  /\ h.next[e] # << >>
  /\ Len(h.previous[e]) < MaxStack
  /\ h' = goToNextEditorSelection(h, e, n)

\* The map of editors is replaced: an editor is inserted, closed, or brought back by undo
\* with the selection it had.  The histories keep the entries of editors that left.
ReplaceMap(m) ==
  /\ m # h.ranges
  /\ h' = [h EXCEPT !.ranges = m]

Next ==
  \/ \E e \in Ids, r \in Ranges : MoveCursor(e, r)
  \/ \E e \in Ids, n \in LineCounts : GoBackInSelection(e, n)
  \/ \E e \in Ids, n \in LineCounts : GoForwardInSelection(e, n)
  \/ \E S \in SUBSET Ids : \E m \in [S -> Ranges \cup {NoRange}] : ReplaceMap(m)

Spec == Init /\ [][Next]_h
-----------------------------------------------------------------------------
\* Entries that are one array have one value.
SharedAgree == \A e \in h.shared : h.next[e] = h.previous[e]

\* Jumping back and then forward returns to the selection and leaves both stacks as they
\* were, wherever VS Code put the cursor in between, as long as the two entries of the
\* editor are arrays of their own and the cursor is somewhere the file still has.
BackThenForwardReturns ==
  \A e \in DOMAIN h.ranges \ h.shared : \A n \in LineCounts :
    /\ h.previous[e] # << >>
    /\ h.ranges[e] # NoRange
    => LET back == goToPreviousEditorSelection(h, e, n)
           there == goToNextEditorSelection(back, e, n)
       IN /\ there.next = h.next
          /\ Pop(there.previous[e]) = Pop(h.previous[e])
          /\ there.ranges[e] = Clamp(h.ranges[e], n)
          /\ Clamp(Top(h.previous[e]), n) = Top(h.previous[e]) => there.previous = h.previous

\* How a step may change the back stack of e.
StackStep(e) ==
  LET old == h.previous[e]
      new == h'.previous[e]
  IN \/ new = old
     \/ new # << >> /\ Pop(new) = old
     \/ /\ old # << >>
        /\ new = Pop(old) \/ (e \in h.shared /\ Pop(new) = Pop(old))
        /\ h.ranges[e] # NoRange => Top(h'.next[e]) = h.ranges[e]

\* No step, in whatever editor, loses an older selection of e: the back stack changes at
\* its top only, by one entry pushed or popped, and a selection a jump back leaves is the
\* next one to jump forward to.  Where the two arrays are one, the top is replaced instead.
OlderSelectionsKept == [][\A e \in Ids : StackStep(e)]_h
=============================================================================
