---------------------------- MODULE HistoryStack ----------------------------
(***************************************************************************)
(* The back and forward navigation between editors: the two history stacks *)
(* and focusedEditorId of the workspace store, HistoryStackMiddleware,     *)
(* which cleans the stacks whenever the set of editors changes, and the    *)
(* context keys that enable the two commands.  A stack holds uuids, null   *)
(* (the canvas) and undefined (pop of an empty array).                     *)
(***************************************************************************)
EXTENDS Naturals, Sequences, FiniteSetsExt

CONSTANTS
  Ids,        \* the uuids of editors
  Null,       \* null: the canvas has the focus
  Undefined,  \* undefined
  MaxStack    \* bound of each stack

ASSUME HistoryAssumption ==
  /\ Null \notin Ids
  /\ Undefined \notin Ids
  /\ Null # Undefined
  /\ MaxStack \in Nat

Entry == Ids \cup {Null, Undefined}

VARIABLES
  editors,      \* the keys of idToEditorMap
  history,      \* the two stacks and focusedEditorId
  canNavigate   \* the context keys canNavigateBack and canNavigateForward

vars == <<editors, history, canNavigate>>

History == [previous : Seq(Entry), next : Seq(Entry), focused : Entry]

TypeOK ==
  /\ editors \subseteq Ids
  /\ history \in History
  /\ canNavigate \in [back : BOOLEAN, forward : BOOLEAN]

Init ==
  /\ editors = {}
  /\ history = [previous |-> << >>, next |-> << >>, focused |-> Null]
  /\ canNavigate = [back |-> FALSE, forward |-> FALSE]
-----------------------------------------------------------------------------
\* id == null.
Nullish(id) == id \in {Null, Undefined}

Valid(id, S) == Nullish(id) \/ id \in S

Top(stack) == stack[Len(stack)]

Pop(stack) == SubSeq(stack, 1, Len(stack) - 1)

setNavigationButtonState(h) == [back |-> Len(h.previous) > 0, forward |-> Len(h.next) > 0]

pushToEditorHistoryStack(h, id) ==
  IF \/ Len(h.previous) >= 1 /\ Nullish(id)
     \/ Len(h.previous) > 1 /\ Top(h.previous) = id
    THEN h
    ELSE [h EXCEPT !.previous = Append(@, id), !.next = << >>]

\* The new focus leaves the top of the stack.
PopFocused(h, id) ==
  IF Len(h.previous) > 0 /\ Top(h.previous) = id THEN [h EXCEPT !.previous = Pop(@)] ELSE h

\* Mutant of Focus: an editor that has been deleted is pushed as well.
FocusUnchecked(h, id, S) ==
  [PopFocused(pushToEditorHistoryStack(h, h.focused), id) EXCEPT !.focused = id]

Focus(h, id, S) ==
  LET pushed == IF Valid(h.focused, S) THEN pushToEditorHistoryStack(h, h.focused) ELSE h
  IN [PopFocused(pushed, id) EXCEPT !.focused = id]

\* The places of a stack that hold the canvas or an editor that still exists.
Places(stack, S) == {i \in DOMAIN stack : Valid(stack[i], S)}

\* Where the pops of a stack stop: at the last of these places.
Landing(stack, S) == Max({0} \cup Places(stack, S))

\* Mutant of Landed: the position instead of the entry.
LandedIndex(stack, S) == Landing(stack, S)

Landed(stack, S) == IF Landing(stack, S) = 0 THEN Undefined ELSE stack[Landing(stack, S)]

Popped(stack, S) == SubSeq(stack, 1, Landing(stack, S) - 1)

\* Mutant of GoBack: what was focused is not kept.
GoBackForgets(h, S) ==
  [previous |-> Popped(h.previous, S), next |-> h.next, focused |-> Landed(h.previous, S)]

GoBack(h, S) ==
  [previous |-> Popped(h.previous, S), next |-> Append(h.next, h.focused),
   focused |-> Landed(h.previous, S)]

GoForward(h, S) ==
  [previous |-> Append(h.previous, h.focused), next |-> Popped(h.next, S),
   focused |-> Landed(h.next, S)]

\* The k-th place of P.
Place(P, k) == CHOOSE i \in P : Cardinality({j \in P : j <= i}) = k

\* The entries at the places that still hold something, in their order.
Filter(stack, S) == [k \in 1 .. Cardinality(Places(stack, S)) |-> stack[Place(Places(stack, S), k)]]

\* A canvas entry alone, while the canvas has the focus, is dropped.
cleanHistoryStacks(h, S) ==
  LET kept == Filter(h.previous, S)
      cleaned == IF Nullish(h.focused) /\ Len(kept) = 1 /\ Nullish(kept[1]) THEN << >> ELSE kept
  IN [h EXCEPT !.previous = cleaned,
               !.next = IF Len(cleaned) # Len(h.previous) THEN << >> ELSE @]
-----------------------------------------------------------------------------
\* Mutant of handleStoreChange: the context keys are not updated.
cleanOnly(S) ==
  /\ editors' = S
  /\ history' = IF S # editors THEN cleanHistoryStacks(history, S) ELSE history
  /\ UNCHANGED canNavigate

\* set({idToEditorMap}), the editors becoming S: the middleware runs before the map changes.
handleStoreChange(S) ==
  /\ editors' = S
  /\ \/ /\ S # editors
        /\ history' = cleanHistoryStacks(history, S)
        /\ canNavigate' = setNavigationButtonState(history')
     \/ /\ S = editors
        /\ UNCHANGED <<history, canNavigate>>

\* An editor takes the focus, or loses it to the canvas.
setFocusedEditor(id) ==
  /\ id \in editors \/ (id = Null /\ history.focused \in editors)
  /\ id # history.focused
  /\ Len(history.previous) < MaxStack
  /\ history' = Focus(history, id, editors)
  /\ canNavigate' = setNavigationButtonState(history')
  /\ UNCHANGED editors

\* The commands Go Back and Go Forward.
goToPreviousEditorInHistoryStack ==
  /\ canNavigate.back
  /\ Len(history.next) < MaxStack
  /\ history' = GoBack(history, editors)
  /\ canNavigate' = setNavigationButtonState(history')
  /\ UNCHANGED editors

goToNextEditorInHistoryStack ==
  /\ canNavigate.forward
  /\ Len(history.previous) < MaxStack
  /\ history' = GoForward(history, editors)
  /\ canNavigate' = setNavigationButtonState(history')
  /\ UNCHANGED editors

\* closeEditor and deleteEditorsInSelection, S being the editors deleted: with nothing
\* left selected they go back.
CloseAndGoBack(S) ==
  LET left == editors \ S
      cleaned == IF left # editors THEN cleanHistoryStacks(history, left) ELSE history
  IN /\ Len(history.next) < MaxStack
     /\ editors' = left
     /\ history' = GoBack(cleaned, left)
     /\ canNavigate' = setNavigationButtonState(history')

Next ==
  \/ \E S \in SUBSET Ids : handleStoreChange(S)
  \/ \E id \in Ids \cup {Null} : setFocusedEditor(id)
  \/ goToPreviousEditorInHistoryStack
  \/ goToNextEditorInHistoryStack
  \/ \E S \in SUBSET Ids : CloseAndGoBack(S)

Spec == Init /\ [][Next]_vars
-----------------------------------------------------------------------------
\* Go Back and Go Forward are enabled exactly when their stack is not empty: every handler
\* that changes a stack refreshes the context keys, the middleware included.  Whether the
\* entries can still be gone to is another matter: see DeletedLeaveBackStack.
ButtonsMatchStacks ==
  /\ canNavigate.back <=> history.previous # << >>
  /\ canNavigate.forward <=> history.next # << >>

\* No entry of the back stack is a deleted editor.
BackIsClean == \A i \in DOMAIN history.previous : Valid(history.previous[i], editors)

\* When the editors change, the deleted ones leave the back stack, and until they change
\* again no step puts one there, but for the one exception that the code has: Go Forward,
\* while the editor that has the focus has been deleted, pushes it without a look.  For the
\* forward stack the code does no such thing: it is emptied when something left the back
\* stack, and otherwise keeps its deleted editors.
DeletedLeaveBackStack ==
  [][editors' # editors \/ BackIsClean
       => BackIsClean' \/ (goToNextEditorInHistoryStack /\ history.focused \notin editors)]_vars

\* Going back and then forward returns to the same editor with the same stacks, as long
\* as no deleted editor is in the way.
BackThenForwardReturns ==
  canNavigate.back /\ Valid(history.focused, editors) /\ Valid(Top(history.previous), editors)
    => GoForward(GoBack(history, editors), editors) = history
=============================================================================
