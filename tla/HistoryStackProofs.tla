------------------------- MODULE HistoryStackProofs -------------------------
(***************************************************************************)
(* The navigation history keeps its types, its buttons and its round trips,*)
(* and deleted editors leave the back stack,                               *)
(* for every set of editors and every length of the stacks.                *)
(***************************************************************************)
EXTENDS HistoryStack, FiniteSetTheorems, SequenceTheorems, WellFoundedInduction, TLAPS

USE HistoryAssumption

\* A stack whose top is the canvas or an existing editor is popped exactly once.
LEMMA LandingAtTop ==
  ASSUME NEW stack \in Seq(Entry), stack # << >>, NEW S, Valid(Top(stack), S)
  PROVE  Landing(stack, S) = Len(stack)
  <1> DEFINE n == Len(stack)
             K == {0} \cup Places(stack, S)
  <1>1. n \in Nat /\ n > 0 /\ DOMAIN stack = 1 .. n
    OBVIOUS
  <1>2. n \in K
    BY <1>1 DEF Top, Places
  <1>3. \A y \in K : y \in Nat /\ n >= y
    BY <1>1 DEF Places
  <1> HIDE DEF K, n
  <1>4. \A x \in K : (\A y \in K : x >= y) => x = n
    <2> SUFFICES ASSUME NEW x \in K, \A y \in K : x >= y PROVE x = n
      OBVIOUS
    <2>1. x >= n /\ n >= x /\ x \in Nat /\ n \in Nat
      BY <1>2, <1>3
    <2> QED BY <2>1
  <1>5. Max(K) = n
    BY <1>2, <1>3, <1>4 DEF Max
  <1> QED BY <1>5 DEF Landing, K, n

\* Appending the top to the rest of a stack gives the stack.
LEMMA PushPopped ==
  ASSUME NEW stack \in Seq(Entry), stack # << >>
  PROVE  Append(SubSeq(stack, 1, Len(stack) - 1), Top(stack)) = stack
  <1>1. Len(stack) \in Nat /\ Len(stack) > 0
    OBVIOUS
  <1> QED BY <1>1 DEF Top

\* Going back from an existing editor (or the canvas) to an existing one (or the canvas)
\* and then forward is the identity on the stacks and the focus: Go Back and Go Forward
\* lose nothing, for every set of editors and every length of the stacks.
THEOREM BackThenForward ==
  ASSUME NEW h \in History, NEW S \in SUBSET Ids, h.previous # << >>,
         Valid(h.focused, S), Valid(Top(h.previous), S)
  PROVE  GoForward(GoBack(h, S), S) = h
  <1> DEFINE pushed == Append(h.next, h.focused)
             b == GoBack(h, S)
  <1>1. h.previous \in Seq(Entry) /\ h.next \in Seq(Entry) /\ h.focused \in Entry
    BY DEF History
  <1>2. pushed \in Seq(Entry) /\ pushed # << >> /\ Top(pushed) = h.focused
        /\ SubSeq(pushed, 1, Len(pushed) - 1) = h.next
    BY <1>1 DEF Top
  <1>3. Landing(h.previous, S) = Len(h.previous)
    BY <1>1, LandingAtTop
  <1>4. Landing(pushed, S) = Len(pushed)
    <2> HIDE DEF pushed
    <2> QED BY <1>2, LandingAtTop
  <1>5. Len(h.previous) # 0 /\ Len(pushed) # 0
    BY <1>1, <1>2
  <1>6. b = [previous |-> SubSeq(h.previous, 1, Len(h.previous) - 1), next |-> pushed,
             focused |-> Top(h.previous)]
    BY <1>3, <1>5 DEF GoBack, Popped, Landed, Top
  <1>7. Popped(pushed, S) = h.next /\ Landed(pushed, S) = h.focused
    <2> HIDE DEF pushed
    <2> QED BY <1>2, <1>4, <1>5 DEF Popped, Landed, Top
  <1>8. Append(b.previous, b.focused) = h.previous
    BY <1>1, <1>6, PushPopped
  <1>9. GoForward(b, S) = [previous |-> h.previous, next |-> h.next, focused |-> h.focused]
    <2>1. b.next = pushed
      BY <1>6
    <2> HIDE DEF b, pushed
    <2> QED BY <1>7, <1>8, <2>1 DEF GoForward
  <1> QED BY <1>9 DEF History
-----------------------------------------------------------------------------
\* A set of numbers that is not empty has a least one.
LEMMA Least ==
  ASSUME NEW T, T \subseteq Nat, T # {}
  PROVE  \E x \in T : \A y \in T : x <= y
  <1>1. IsWellFoundedOn(OpToRel(<, Nat), Nat)
    BY NatLessThanWellFounded
  <1>2. PICK x \in T : \A y \in T : <<y, x>> \notin OpToRel(<, Nat)
    BY <1>1, WFMin
  <1>3. \A y \in T : ~ (y < x)
    BY <1>2 DEF OpToRel
  <1> QED BY <1>3

\* If it has a bound it has a greatest one.
LEMMA Greatest ==
  ASSUME NEW n \in Nat, NEW T, T \subseteq 0 .. n, T # {}
  PROVE  Max(T) \in T /\ \A y \in T : Max(T) >= y
  <1> DEFINE D == {n - x : x \in T}
  <1>1. D \subseteq Nat /\ D # {}
    <2>1. \A x \in T : x \in 0 .. n /\ n - x \in Nat
      OBVIOUS
    <2>2. PICK x \in T : TRUE
      OBVIOUS
    <2>3. n - x \in D
      OBVIOUS
    <2> QED BY <2>1, <2>3
  <1>2. PICK d \in D : \A e \in D : d <= e
    <2> HIDE DEF D
    <2> QED BY <1>1, Least
  <1>3. PICK x \in T : d = n - x
    OBVIOUS
  <1>4. \A y \in T : x >= y
    <2> SUFFICES ASSUME NEW y \in T PROVE x >= y
      OBVIOUS
    <2>1. n - x <= n - y
      BY <1>2, <1>3
    <2> QED BY <2>1
  <1> QED BY <1>3, <1>4 DEF Max

LEMMA PlacesFinite ==
  ASSUME NEW stack \in Seq(Entry), NEW S
  PROVE  /\ Places(stack, S) \subseteq 1 .. Len(stack)
         /\ IsFiniteSet(Places(stack, S))
         /\ Cardinality(Places(stack, S)) \in Nat
  <1>1. Places(stack, S) \subseteq 1 .. Len(stack) /\ Len(stack) \in Nat
    BY DEF Places
  <1>2. IsFiniteSet(1 .. Len(stack))
    BY <1>1, FS_Interval
  <1>3. IsFiniteSet(Places(stack, S))
    BY <1>1, <1>2, FS_Subset
  <1> QED BY <1>1, <1>3, FS_CardinalityType

\* Among the places up to n there is a k-th one for every k up to their number: the number
\* of places up to i grows by at most one with i.
LEMMA PlaceExists ==
  ASSUME NEW n \in Nat, NEW P, P \subseteq 1 .. n, NEW k \in 1 .. Cardinality(P)
  PROVE  Place(P, k) \in P
  <1> DEFINE U(i) == {j \in P : j <= i}
             T == {i \in 0 .. n : Cardinality(U(i)) >= k}
  <1>1. IsFiniteSet(P) /\ Cardinality(P) \in Nat /\ k \in Nat /\ k > 0 /\ k <= Cardinality(P)
    <2>1. IsFiniteSet(1 .. n)
      BY FS_Interval
    <2>2. IsFiniteSet(P)
      BY <2>1, FS_Subset
    <2>3. Cardinality(P) \in Nat
      BY <2>2, FS_CardinalityType
    <2> QED BY <2>2, <2>3
  <1>2. \A j \in P : j \in Nat /\ 1 <= j /\ j <= n
    OBVIOUS
  <1>3. ASSUME NEW i \in Nat PROVE IsFiniteSet(U(i)) /\ Cardinality(U(i)) \in Nat
    <2>1. U(i) \in SUBSET P
      OBVIOUS
    <2> HIDE DEF U
    <2>2. IsFiniteSet(U(i))
      BY <1>1, <2>1, FS_Subset
    <2> QED BY <2>2, FS_CardinalityType
  <1>4. U(n) = P /\ U(0) = {}
    <2>1. \A j \in P : j <= n /\ ~ (j <= 0)
      BY <1>2
    <2> QED BY <2>1, Zenon
  <1>5. ASSUME NEW i \in Nat, i > 0
        PROVE  /\ i - 1 \in Nat
               /\ i \in P => U(i) = U(i - 1) \cup {i} /\ i \notin U(i - 1)
               /\ i \notin P => U(i) = U(i - 1)
    <2>1. i - 1 \in Nat /\ ~ (i <= i - 1)
      BY <1>5
    <2>2. \A j \in P : j <= i <=> j = i \/ j <= i - 1
      BY <1>2, <1>5
    <2> QED BY <2>1, <2>2
  <1> HIDE DEF U
  <1>6. n \in T
    BY <1>1, <1>4
  <1>7. PICK i \in T : \A y \in T : i <= y
    <2>1. T \subseteq Nat /\ T # {}
      BY <1>6
    <2> HIDE DEF T
    <2> QED BY <2>1, Least
  <1>8. i \in Nat /\ i <= n /\ Cardinality(U(i)) >= k
    OBVIOUS
  <1>9. i > 0
    <2>1. Cardinality(U(0)) = 0
      BY <1>4, FS_EmptySet
    <2> HIDE DEF T
    <2> QED BY <1>1, <1>8, <2>1
  <1>10. i - 1 \in Nat /\ Cardinality(U(i - 1)) \in Nat /\ Cardinality(U(i - 1)) < k
    <2>1. i - 1 \in Nat /\ i - 1 \in 0 .. n /\ ~ (i <= i - 1)
      BY <1>8, <1>9
    <2>2. i - 1 \notin T
      <3> HIDE DEF T
      <3> QED BY <1>7, <2>1
    <2>3. ~ (Cardinality(U(i - 1)) >= k) /\ Cardinality(U(i - 1)) \in Nat
      BY <1>3, <2>1, <2>2
    <2> HIDE DEF T
    <2> QED BY <1>1, <2>1, <2>3
  <1> HIDE DEF T
  <1>11. i \in P
    BY <1>1, <1>5, <1>8, <1>9, <1>10
  <1>12. Cardinality(U(i)) = Cardinality(U(i - 1)) + 1
    BY <1>3, <1>5, <1>8, <1>9, <1>10, <1>11, FS_AddElement
  <1>13. Cardinality({j \in P : j <= i}) = k
    BY <1>1, <1>8, <1>10, <1>12 DEF U
  <1> QED BY <1>11, <1>13 DEF Place

\* filter gives a stack of the same entries.
LEMMA FilterType ==
  ASSUME NEW stack \in Seq(Entry), NEW S
  PROVE  Filter(stack, S) \in Seq(Entry)
  <1> DEFINE P == Places(stack, S)
  <1>1. P \subseteq 1 .. Len(stack) /\ Cardinality(P) \in Nat /\ Len(stack) \in Nat
    BY PlacesFinite
  <1>2. \A k \in 1 .. Cardinality(P) : Place(P, k) \in P
    <2> HIDE DEF P
    <2> QED BY <1>1, PlaceExists
  <1>3. \A i \in P : stack[i] \in Entry
    BY DEF Places
  <1> HIDE DEF P
  <1>4. [k \in 1 .. Cardinality(P) |-> stack[Place(P, k)]] \in Seq(Entry)
    <2> DEFINE f == [k \in 1 .. Cardinality(P) |-> stack[Place(P, k)]]
    <2>1. f \in [1 .. Cardinality(P) -> Entry]
      BY <1>2, <1>3
    <2> HIDE DEF f
    <2>2. f \in Seq(Entry)
      BY <1>1, <2>1, SeqDef
    <2> QED BY <2>2 DEF f
  <1> QED BY <1>4 DEF Filter, P

\* Where a stack is popped to, and what is left of it.
LEMMA LandingType ==
  ASSUME NEW stack \in Seq(Entry), NEW S
  PROVE  Landed(stack, S) \in Entry /\ Popped(stack, S) \in Seq(Entry)
  <1>1. Len(stack) \in Nat /\ {0} \cup Places(stack, S) \subseteq 0 .. Len(stack)
    BY DEF Places
  <1>2. Landing(stack, S) \in {0} \cup Places(stack, S)
    BY <1>1, Greatest DEF Landing
  <1>3. Landing(stack, S) \in 0 .. Len(stack)
    BY <1>1, <1>2
  <1>4. Landing(stack, S) # 0 => stack[Landing(stack, S)] \in Entry
    BY <1>2 DEF Places
  <1>5. Popped(stack, S) \in Seq(Entry)
    BY <1>1, <1>3 DEF Popped
  <1> QED BY <1>4, <1>5 DEF Landed, Entry
-----------------------------------------------------------------------------
\* The stacks stay stacks under every operation.
LEMMA GoType ==
  ASSUME NEW h \in History, NEW S
  PROVE  GoBack(h, S) \in History /\ GoForward(h, S) \in History
  <1>1. h.previous \in Seq(Entry) /\ h.next \in Seq(Entry) /\ h.focused \in Entry
    BY DEF History
  <1>2. /\ Landed(h.previous, S) \in Entry /\ Popped(h.previous, S) \in Seq(Entry)
        /\ Landed(h.next, S) \in Entry /\ Popped(h.next, S) \in Seq(Entry)
    BY <1>1, LandingType
  <1>3. Append(h.next, h.focused) \in Seq(Entry) /\ Append(h.previous, h.focused) \in Seq(Entry)
    BY <1>1
  <1> QED BY <1>2, <1>3 DEF GoBack, GoForward, History

LEMMA CleanType ==
  ASSUME NEW h \in History, NEW S
  PROVE  cleanHistoryStacks(h, S) \in History
  <1>1. h.previous \in Seq(Entry) /\ h.next \in Seq(Entry) /\ h.focused \in Entry
    BY DEF History
  <1>2. Filter(h.previous, S) \in Seq(Entry) /\ << >> \in Seq(Entry)
    BY <1>1, FilterType
  <1> QED BY <1>1, <1>2 DEF cleanHistoryStacks, History

LEMMA FocusType ==
  ASSUME NEW h \in History, NEW S, NEW id \in Entry
  PROVE  Focus(h, id, S) \in History
  <1> DEFINE pushed == IF Valid(h.focused, S) THEN pushToEditorHistoryStack(h, h.focused) ELSE h
  <1>1. h.previous \in Seq(Entry) /\ h.next \in Seq(Entry) /\ h.focused \in Entry
    BY DEF History
  <1>2. pushed \in History
    <2>1. Append(h.previous, h.focused) \in Seq(Entry) /\ << >> \in Seq(Entry)
      BY <1>1
    <2>2. [h EXCEPT !.previous = Append(h.previous, h.focused), !.next = << >>] \in History
      BY <2>1 DEF History
    <2> QED BY <2>2 DEF pushToEditorHistoryStack
  <1> HIDE DEF pushed
  <1>3. PopFocused(pushed, id) \in History
    <2>1. pushed.previous \in Seq(Entry)
      BY <1>2 DEF History
    <2>2. Len(pushed.previous) > 0 => Pop(pushed.previous) \in Seq(Entry)
      BY <2>1 DEF Pop
    <2> QED BY <1>2, <2>2 DEF PopFocused, History
  <1>4. [PopFocused(pushed, id) EXCEPT !.focused = id] \in History
    BY <1>3 DEF History
  <1> QED BY <1>4 DEF Focus, pushed

\* The keys that setNavigationButtonState computes match the stacks it reads.
Matching(c, h) ==
  /\ c \in [back : BOOLEAN, forward : BOOLEAN]
  /\ c.back <=> h.previous # << >>
  /\ c.forward <=> h.next # << >>

LEMMA ButtonsOf ==
  ASSUME NEW h \in History
  PROVE  Matching(setNavigationButtonState(h), h)
  <1>1. h.previous \in Seq(Entry) /\ h.next \in Seq(Entry)
    BY DEF History
  <1>2. (Len(h.previous) > 0 <=> h.previous # << >>) /\ (Len(h.next) > 0 <=> h.next # << >>)
    BY <1>1
  <1>3. (Len(h.previous) > 0) \in BOOLEAN /\ (Len(h.next) > 0) \in BOOLEAN
    OBVIOUS
  <1>4. /\ setNavigationButtonState(h) \in [back : BOOLEAN, forward : BOOLEAN]
        /\ setNavigationButtonState(h).back <=> Len(h.previous) > 0
        /\ setNavigationButtonState(h).forward <=> Len(h.next) > 0
    BY <1>3, Zenon DEF setNavigationButtonState
  <1> QED BY <1>2, <1>4, Zenon DEF Matching

IInv == editors \subseteq Ids /\ history \in History /\ Matching(canNavigate, history)

LEMMA InitHolds == Init => IInv
  BY DEF Init, IInv, History, Entry, Matching

\* Every step that changes the stacks ends with setNavigationButtonState.
LEMMA StepHolds == IInv /\ [Next]_vars => IInv'
  <1> SUFFICES ASSUME IInv, [Next]_vars PROVE IInv'
    OBVIOUS
  <1>1. history \in History /\ editors \subseteq Ids
    BY DEF IInv
  <1>2. ASSUME history' \in History, canNavigate' = setNavigationButtonState(history'), editors' \subseteq Ids
        PROVE  IInv'
    <2>1. Matching(setNavigationButtonState(history'), history')
      BY <1>2, ButtonsOf
    <2> QED BY <1>2, <2>1 DEF IInv
  <1>3. ASSUME NEW S \in SUBSET Ids, handleStoreChange(S) PROVE IInv'
    <2>1. CASE S = editors
      BY <1>3, <2>1 DEF handleStoreChange, IInv
    <2>2. CASE S # editors
      <3>1. history' \in History
        BY <1>1, <1>3, <2>2, CleanType DEF handleStoreChange
      <3> QED BY <1>2, <1>3, <2>2, <3>1 DEF handleStoreChange
    <2> QED BY <2>1, <2>2
  <1>4. ASSUME NEW id \in Ids \cup {Null}, setFocusedEditor(id) PROVE IInv'
    <2>1. id \in Entry
      BY DEF Entry
    <2>2. history' \in History
      BY <1>1, <1>4, <2>1, FocusType DEF setFocusedEditor
    <2> QED BY <1>1, <1>2, <1>4, <2>2 DEF setFocusedEditor
  <1>5. CASE goToPreviousEditorInHistoryStack
    <2>1. history' \in History
      BY <1>1, <1>5, GoType DEF goToPreviousEditorInHistoryStack
    <2> QED BY <1>1, <1>2, <1>5, <2>1 DEF goToPreviousEditorInHistoryStack
  <1>6. CASE goToNextEditorInHistoryStack
    <2>1. history' \in History
      BY <1>1, <1>6, GoType DEF goToNextEditorInHistoryStack
    <2> QED BY <1>1, <1>2, <1>6, <2>1 DEF goToNextEditorInHistoryStack
  <1>7. ASSUME NEW S \in SUBSET Ids, CloseAndGoBack(S) PROVE IInv'
    <2> DEFINE left == editors \ S
               cleaned == IF left # editors THEN cleanHistoryStacks(history, left) ELSE history
    <2>1. cleaned \in History
      BY <1>1, CleanType
    <2>2. history' = GoBack(cleaned, left)
      BY <1>7 DEF CloseAndGoBack
    <2>3. history' \in History
      <3> HIDE DEF cleaned, left
      <3> QED BY <2>1, <2>2, GoType
    <2> QED BY <1>1, <1>2, <1>7, <2>3 DEF CloseAndGoBack
  <1>8. CASE UNCHANGED vars
    BY <1>8 DEF vars, IInv
  <1> QED BY <1>3, <1>4, <1>5, <1>6, <1>7, <1>8 DEF Next

LEMMA Inductive == Spec => []IInv
  BY InitHolds, StepHolds, PTL DEF Spec

\* The stacks, the focus and the context keys keep their types, the filter of the
\* middleware and the pops of Go Back and Go Forward included.
THEOREM TypeCorrect == Spec => []TypeOK
  <1>1. IInv => TypeOK
    BY DEF IInv, TypeOK, Matching
  <1> QED BY <1>1, Inductive, PTL

\* A navigation command is enabled exactly when its stack is not empty, whatever changes
\* the stacks: the commands, the focus, or the middleware that cleans them.
THEOREM ButtonsCorrect == Spec => []ButtonsMatchStacks
  <1>1. IInv => ButtonsMatchStacks
    BY DEF IInv, ButtonsMatchStacks, Matching
  <1> QED BY <1>1, Inductive, PTL

-----------------------------------------------------------------------------
\* The entries of a stack are the canvas or editors of S.
Clean(stack, S) == \A i \in DOMAIN stack : Valid(stack[i], S)

LEMMA FilterClean ==
  ASSUME NEW stack \in Seq(Entry), NEW S
  PROVE  Clean(Filter(stack, S), S)
  <1> DEFINE P == Places(stack, S)
  <1>1. P \subseteq 1 .. Len(stack) /\ Len(stack) \in Nat
    BY PlacesFinite
  <1>2. \A k \in 1 .. Cardinality(P) : Place(P, k) \in P
    <2> HIDE DEF P
    <2> QED BY <1>1, PlaceExists
  <1>3. \A i \in P : Valid(stack[i], S)
    BY DEF Places
  <1> HIDE DEF P
  <1>4. Filter(stack, S) = [k \in 1 .. Cardinality(P) |-> stack[Place(P, k)]]
    BY DEF Filter, P
  <1> QED BY <1>2, <1>3, <1>4, Zenon DEF Clean

\* What is left of a stack when it is popped is its beginning.
LEMMA PoppedClean ==
  ASSUME NEW stack \in Seq(Entry), NEW S, Clean(stack, S)
  PROVE  Clean(Popped(stack, S), S)
  <1>1. Len(stack) \in Nat /\ {0} \cup Places(stack, S) \subseteq 0 .. Len(stack)
    BY DEF Places
  <1>2. Landing(stack, S) \in {0} \cup Places(stack, S)
    BY <1>1, Greatest DEF Landing
  <1>3. Landing(stack, S) \in 0 .. Len(stack)
    BY <1>1, <1>2
  <1>4. \A i \in DOMAIN Popped(stack, S) : i \in DOMAIN stack /\ Popped(stack, S)[i] = stack[i]
    BY <1>1, <1>3 DEF Popped
  <1> QED BY <1>4, Zenon DEF Clean

LEMMA PushClean ==
  ASSUME NEW stack \in Seq(Entry), NEW S, Clean(stack, S), NEW id \in Entry, Valid(id, S)
  PROVE  Clean(Append(stack, id), S)
  <1>1. \A i \in DOMAIN Append(stack, id) :
          \/ i \in DOMAIN stack /\ Append(stack, id)[i] = stack[i]
          \/ Append(stack, id)[i] = id
    OBVIOUS
  <1> QED BY <1>1, Zenon DEF Clean

\* cleanHistoryStacks leaves a clean back stack, whatever it was.
LEMMA CleanClean ==
  ASSUME NEW h \in History, NEW S
  PROVE  Clean(cleanHistoryStacks(h, S).previous, S)
  <1>1. h.previous \in Seq(Entry)
    BY DEF History
  <1>2. Clean(Filter(h.previous, S), S)
    BY <1>1, FilterClean
  <1>3. Clean(<< >>, S)
    BY DEF Clean
  <1>4. cleanHistoryStacks(h, S).previous \in {Filter(h.previous, S), << >>}
    BY DEF cleanHistoryStacks, History
  <1> QED BY <1>2, <1>3, <1>4

\* A focus pushes the editor focused before only if it still exists.
LEMMA FocusClean ==
  ASSUME NEW h \in History, NEW S, NEW id \in Entry, Clean(h.previous, S)
  PROVE  Clean(Focus(h, id, S).previous, S)
  <1> DEFINE pushed == IF Valid(h.focused, S) THEN pushToEditorHistoryStack(h, h.focused) ELSE h
  <1>1. h.previous \in Seq(Entry) /\ h.next \in Seq(Entry) /\ h.focused \in Entry
    BY DEF History
  <1>2. pushed \in History /\ Clean(pushed.previous, S)
    <2> DEFINE h1 == [h EXCEPT !.previous = Append(h.previous, h.focused), !.next = << >>]
    <2>1. Append(h.previous, h.focused) \in Seq(Entry) /\ << >> \in Seq(Entry)
      BY <1>1
    <2>2. h1 \in History /\ h1.previous = Append(h.previous, h.focused)
      BY <2>1 DEF History
    <2>3. Valid(h.focused, S) => Clean(h1.previous, S)
      BY <1>1, <2>2, PushClean
    <2>4. pushed = h \/ (pushed = h1 /\ Valid(h.focused, S))
      BY DEF pushToEditorHistoryStack
    <2> QED BY <2>2, <2>3, <2>4
  <1> HIDE DEF pushed
  <1>3. pushed.previous \in Seq(Entry)
    BY <1>2 DEF History
  <1>4. \/ PopFocused(pushed, id) = pushed
        \/ /\ PopFocused(pushed, id) = [pushed EXCEPT !.previous = Pop(pushed.previous)]
           /\ Len(pushed.previous) > 0
    BY DEF PopFocused
  <1>5. PopFocused(pushed, id).previous = pushed.previous
        \/ (PopFocused(pushed, id).previous = Pop(pushed.previous) /\ Len(pushed.previous) > 0)
    BY <1>2, <1>4 DEF History
  <1>6. Len(pushed.previous) > 0 => Clean(Pop(pushed.previous), S)
    <2>1. Len(pushed.previous) > 0 => \A i \in DOMAIN Pop(pushed.previous) :
            i \in DOMAIN pushed.previous /\ Pop(pushed.previous)[i] = pushed.previous[i]
      BY <1>3 DEF Pop
    <2> QED BY <1>2, <2>1, Zenon DEF Clean
  <1>7. Focus(h, id, S) = [PopFocused(pushed, id) EXCEPT !.focused = id]
    BY DEF Focus, pushed
  <1>8. Focus(h, id, S).previous = PopFocused(pushed, id).previous
    <2>1. PopFocused(pushed, id) \in History
      <3>1. Len(pushed.previous) > 0 => Pop(pushed.previous) \in Seq(Entry)
        BY <1>3 DEF Pop
      <3> QED BY <1>2, <1>4, <3>1 DEF History
    <2> QED BY <1>7, <2>1 DEF History
  <1> QED BY <1>2, <1>5, <1>6, <1>8

\* Deleted editors leave the back stack when the editors change and do not come back to it,
\* except through Go Forward from a deleted editor: the filter of the middleware, the check
\* before a push, and the pops together.
THEOREM BackStackCleaned == Spec => DeletedLeaveBackStack
  <1> DEFINE Step == editors' # editors \/ BackIsClean
                       => BackIsClean' \/ (goToNextEditorInHistoryStack /\ history.focused \notin editors)
  <1>1. ASSUME IInv, [Next]_vars, editors' # editors \/ BackIsClean,
               ~ (goToNextEditorInHistoryStack /\ history.focused \notin editors)
        PROVE  BackIsClean'
    <2>1. history \in History /\ editors \subseteq Ids /\ history.previous \in Seq(Entry)
          /\ history.focused \in Entry
      BY <1>1 DEF IInv, History
    <2>2. BackIsClean <=> Clean(history.previous, editors)
      BY Zenon DEF BackIsClean, Clean
    <2>3. Clean(history'.previous, editors') => BackIsClean'
      BY Zenon DEF BackIsClean, Clean
    <2>4. ASSUME NEW S \in SUBSET Ids, handleStoreChange(S) PROVE BackIsClean'
      <3>1. CASE S = editors
        BY <1>1, <2>2, <2>3, <2>4, <3>1 DEF handleStoreChange
      <3>2. CASE S # editors
        <4>1. history' = cleanHistoryStacks(history, S) /\ editors' = S
          BY <2>4, <3>2 DEF handleStoreChange
        <4> QED BY <2>1, <2>3, <4>1, CleanClean
      <3> QED BY <3>1, <3>2
    <2>5. ASSUME NEW id \in Ids \cup {Null}, setFocusedEditor(id) PROVE BackIsClean'
      <3>1. id \in Entry /\ editors' = editors /\ history' = Focus(history, id, editors)
        BY <2>5 DEF Entry, setFocusedEditor
      <3>2. Clean(history.previous, editors)
        BY <1>1, <2>2, <3>1
      <3> QED BY <2>1, <2>3, <3>1, <3>2, FocusClean
    <2>6. CASE goToPreviousEditorInHistoryStack
      <3>1. editors' = editors /\ history' = GoBack(history, editors)
        BY <2>6 DEF goToPreviousEditorInHistoryStack
      <3>2. Clean(history.previous, editors)
        BY <1>1, <2>2, <3>1
      <3>3. history'.previous = Popped(history.previous, editors)
        BY <3>1 DEF GoBack
      <3> QED BY <2>1, <2>3, <3>1, <3>2, <3>3, PoppedClean
    <2>7. CASE goToNextEditorInHistoryStack
      <3>1. editors' = editors /\ history' = GoForward(history, editors)
        BY <2>7 DEF goToNextEditorInHistoryStack
      <3>2. Clean(history.previous, editors) /\ Valid(history.focused, editors)
        BY <1>1, <2>2, <2>7, <3>1 DEF Valid
      <3>3. history'.previous = Append(history.previous, history.focused)
        BY <3>1 DEF GoForward
      <3> QED BY <2>1, <2>3, <3>1, <3>2, <3>3, PushClean
    <2>8. ASSUME NEW S \in SUBSET Ids, CloseAndGoBack(S) PROVE BackIsClean'
      <3> DEFINE left == editors \ S
                 cleaned == IF left # editors THEN cleanHistoryStacks(history, left) ELSE history
      <3>1. editors' = left /\ history' = GoBack(cleaned, left)
        BY <2>8 DEF CloseAndGoBack
      <3>2. cleaned \in History
        BY <2>1, CleanType
      <3>3. Clean(cleaned.previous, left)
        <4>1. CASE left # editors
          <5>1. cleaned = cleanHistoryStacks(history, left)
            BY <4>1
          <5> HIDE DEF left, cleaned
          <5> QED BY <2>1, <5>1, CleanClean
        <4>2. CASE left = editors
          <5>1. cleaned = history
            BY <4>2
          <5> HIDE DEF left, cleaned
          <5> QED BY <1>1, <2>2, <3>1, <4>2, <5>1
        <4> HIDE DEF left
        <4> QED BY <4>1, <4>2
      <3> HIDE DEF left, cleaned
      <3>4. history'.previous = Popped(cleaned.previous, left)
        BY <3>1 DEF GoBack
      <3>5. cleaned.previous \in Seq(Entry)
        BY <3>2 DEF History
      <3> QED BY <2>3, <3>1, <3>3, <3>4, <3>5, PoppedClean
    <2>9. CASE UNCHANGED vars
      BY <1>1, <2>2, <2>3, <2>9 DEF vars
    <2> QED BY <1>1, <2>4, <2>5, <2>6, <2>7, <2>8, <2>9 DEF Next
  <1>2. IInv /\ [Next]_vars => [Step]_vars
    BY <1>1
  <1> HIDE DEF Step
  <1>3. Spec => [][Step]_vars
    BY <1>2, Inductive, PTL DEF Spec
  <1> QED BY <1>3 DEF Step, DeletedLeaveBackStack

\* In every reachable state Go Back and then Go Forward returns to the same editor with the
\* same stacks, unless a deleted editor is in the way.
THEOREM RoundTrip == Spec => []BackThenForwardReturns
  <1>1. IInv => BackThenForwardReturns
    <2> SUFFICES ASSUME IInv, canNavigate.back, Valid(history.focused, editors),
                        Valid(Top(history.previous), editors)
                 PROVE  GoForward(GoBack(history, editors), editors) = history
      BY DEF BackThenForwardReturns
    <2>1. history \in History /\ editors \in SUBSET Ids /\ history.previous # << >>
      BY DEF IInv, Matching
    <2> QED BY <2>1, BackThenForward
  <1> QED BY <1>1, Inductive, PTL
=============================================================================
