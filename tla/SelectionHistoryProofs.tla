----------------------- MODULE SelectionHistoryProofs -----------------------
(***************************************************************************)
(* The selection histories for every set of editors, of selections and of  *)
(* file lengths, and every length of the stacks.                           *)
(***************************************************************************)
EXTENDS SelectionHistory, SequenceTheorems, TLAPS

Values == Ranges \cup {NoRange}

HistoryOf(S) ==
  [ranges : [S -> Values], previous : [Ids -> Seq(Ranges)], next : [Ids -> Seq(Ranges)],
   shared : SUBSET Ids]

Agree(hist) == \A d \in hist.shared : hist.next[d] = hist.previous[d]

PushedOnto(new, old, e) == \E r \in Ranges : new = [old EXCEPT ![e] = Append(@, r)]

\* A stack that is not empty is its rest with its top.
LEMMA StackParts ==
  ASSUME NEW stack \in Seq(Ranges), stack # << >>
  PROVE  /\ Top(stack) \in Ranges
         /\ Pop(stack) \in Seq(Ranges)
         /\ Append(Pop(stack), Top(stack)) = stack
  <1>1. Len(stack) \in Nat /\ Len(stack) > 0
    OBVIOUS
  <1>2. Append(SubSeq(stack, 1, Len(stack) - 1), stack[Len(stack)]) = stack
    BY <1>1
  <1> QED BY <1>1, <1>2 DEF Top, Pop

\* What is pushed is popped first.
LEMMA PushPop ==
  ASSUME NEW stack \in Seq(Ranges), NEW r \in Ranges
  PROVE  /\ Append(stack, r) \in Seq(Ranges)
         /\ Append(stack, r) # << >>
         /\ Top(Append(stack, r)) = r
         /\ Pop(Append(stack, r)) = stack
  BY DEF Top, Pop

LEMMA PushCurrentType ==
  ASSUME NEW stack \in Seq(Ranges), NEW r \in Values
  PROVE  PushCurrent(stack, r) \in Seq(Ranges)
  BY DEF PushCurrent, Values

\* pushToEditorSelectionHistory, field by field.
LEMMA PushFields ==
  ASSUME NEW S \in SUBSET Ids, NEW hist \in HistoryOf(S), NEW e \in Ids, NEW r \in Ranges
  PROVE  LET p == pushToEditorSelectionHistory(hist, e, r)
         IN /\ p \in HistoryOf(S)
            /\ p.ranges = hist.ranges
            /\ p.previous = [hist.previous EXCEPT ![e] = Append(@, r)]
            /\ Agree(p)
  <1> DEFINE p == pushToEditorSelectionHistory(hist, e, r)
             prev == [hist.previous EXCEPT ![e] = Append(@, r)]
             nxt == [hist.previous EXCEPT ![e] = << >>]
             sh == {d \in Ids \ {e} : hist.previous[d] # << >>}
  <1>1. /\ hist.ranges \in [S -> Values]
        /\ hist.previous \in [Ids -> Seq(Ranges)]
        /\ hist.next \in [Ids -> Seq(Ranges)]
    BY DEF HistoryOf
  <1>2. p = [ranges |-> hist.ranges, previous |-> prev, next |-> nxt, shared |-> sh]
    BY DEF HistoryOf, pushToEditorSelectionHistory
  <1>3. prev \in [Ids -> Seq(Ranges)] /\ nxt \in [Ids -> Seq(Ranges)] /\ sh \in SUBSET Ids
    BY <1>1
  <1> HIDE DEF prev, nxt, sh, p
  <1>4. p \in HistoryOf(S) /\ p.ranges = hist.ranges /\ p.previous = prev
    BY <1>1, <1>2, <1>3 DEF HistoryOf
  <1>5. Agree(p)
    BY <1>1, <1>2 DEF prev, nxt, sh, Agree
  <1> QED BY <1>4, <1>5 DEF p, prev

\* setSelectionRange writes the range, and pushes the old one or leaves the stacks alone.
LEMMA SetFields ==
  ASSUME NEW S \in SUBSET Ids, NEW hist \in HistoryOf(S), NEW e \in S, NEW r \in Values
  PROVE  LET s == setSelectionRange(hist, e, r)
         IN /\ s \in HistoryOf(S)
            /\ s.ranges = [hist.ranges EXCEPT ![e] = r]
            /\ \/ s.previous = hist.previous /\ s.next = hist.next /\ s.shared = hist.shared
               \/ Agree(s)
            /\ s.previous = hist.previous \/ PushedOnto(s.previous, hist.previous, e)
  <1> DEFINE old == hist.ranges[e]
             pushed == IF r # NoRange /\ old # NoRange /\ r # old /\ Far(old, r)
                         THEN pushToEditorSelectionHistory(hist, e, old)
                         ELSE hist
             s == setSelectionRange(hist, e, r)
  <1>1. e \in Ids /\ old \in Values /\ (old # NoRange => old \in Ranges)
    BY DEF HistoryOf, Values
  <1>2. /\ pushed \in HistoryOf(S)
        /\ pushed.ranges = hist.ranges
        /\ pushed = hist \/ Agree(pushed)
        /\ pushed.previous = hist.previous \/ PushedOnto(pushed.previous, hist.previous, e)
    <2>1. CASE r # NoRange /\ old # NoRange /\ r # old /\ Far(old, r)
      <3>1. pushed = pushToEditorSelectionHistory(hist, e, old)
        BY <2>1
      <3>2. old \in Ranges
        BY <1>1, <2>1
      <3> HIDE DEF pushed, old
      <3>3. LET p == pushToEditorSelectionHistory(hist, e, old)
            IN /\ p \in HistoryOf(S)
               /\ p.ranges = hist.ranges
               /\ p.previous = [hist.previous EXCEPT ![e] = Append(@, old)]
               /\ Agree(p)
        BY <1>1, <3>2, PushFields
      <3>4. PushedOnto(pushed.previous, hist.previous, e)
        BY <3>1, <3>2, <3>3 DEF PushedOnto
      <3> QED BY <3>1, <3>3, <3>4
    <2>2. CASE ~(r # NoRange /\ old # NoRange /\ r # old /\ Far(old, r))
      BY <2>2
    <2> QED BY <2>1, <2>2
  <1>3. s = [pushed EXCEPT !.ranges = [@ EXCEPT ![e] = r]]
    BY DEF setSelectionRange
  <1> HIDE DEF pushed, s, old
  <1>4. /\ s \in HistoryOf(S)
        /\ s.ranges = [hist.ranges EXCEPT ![e] = r]
        /\ s.previous = pushed.previous /\ s.next = pushed.next /\ s.shared = pushed.shared
    BY <1>2, <1>3 DEF HistoryOf
  <1>5. Agree(pushed) => Agree(s)
    BY <1>4 DEF Agree
  <1> QED BY <1>2, <1>4, <1>5 DEF s

\* After a jump the editor's selection is where VS Code put the cursor.
LEMMA JumpedRanges ==
  ASSUME NEW S \in SUBSET Ids, NEW hist \in HistoryOf(S), NEW e \in S, NEW r \in Ranges,
         NEW n \in LineCounts
  PROVE  /\ Jumped(hist, e, r, n) = [hist.ranges EXCEPT ![e] = Clamp(r, n)]
         /\ Jumped(hist, e, r, n) \in [S -> Values]
  <1> DEFINE set == [hist EXCEPT !.ranges = [@ EXCEPT ![e] = r]]
  <1>1. set \in HistoryOf(S) /\ set.ranges = [hist.ranges EXCEPT ![e] = r]
    BY DEF HistoryOf, Values
  <1>2. Clamp(r, n) \in Values
    BY SelectionAssumption DEF Values
  <1> HIDE DEF set
  <1>3. /\ setSelectionRange(set, e, Clamp(r, n)).ranges = [set.ranges EXCEPT ![e] = Clamp(r, n)]
        /\ setSelectionRange(set, e, Clamp(r, n)) \in HistoryOf(S)
    BY <1>1, <1>2, SetFields
  <1>4. Jumped(hist, e, r, n) = setSelectionRange(set, e, Clamp(r, n)).ranges
    BY DEF Jumped, set
  <1>5. hist.ranges \in [S -> Values]
    BY DEF HistoryOf
  <1> QED BY <1>1, <1>2, <1>3, <1>4, <1>5

\* A jump back keeps the types.
LEMMA BackType ==
  ASSUME NEW S \in SUBSET Ids, NEW hist \in HistoryOf(S), NEW e \in S, NEW n \in LineCounts,
         hist.previous[e] # << >>
  PROVE  goToPreviousEditorSelection(hist, e, n) \in HistoryOf(S)
  <1> DEFINE rest == Pop(hist.previous[e])
             later == PushCurrent(IF e \in hist.shared THEN rest ELSE hist.next[e], hist.ranges[e])
             j == Jumped(hist, e, Top(hist.previous[e]), n)
  <1>1. /\ e \in Ids /\ hist.ranges[e] \in Values /\ hist.previous \in [Ids -> Seq(Ranges)]
        /\ hist.next \in [Ids -> Seq(Ranges)] /\ hist.shared \in SUBSET Ids
    BY DEF HistoryOf
  <1>2. rest \in Seq(Ranges) /\ Top(hist.previous[e]) \in Ranges
    BY <1>1, StackParts
  <1>3. later \in Seq(Ranges)
    BY <1>1, <1>2, PushCurrentType
  <1>4. j \in [S -> Values]
    BY <1>2, JumpedRanges
  <1>5. goToPreviousEditorSelection(hist, e, n) =
          [ranges |-> j, previous |-> [hist.previous EXCEPT ![e] = IF e \in hist.shared THEN later ELSE rest],
           next |-> [hist.next EXCEPT ![e] = later], shared |-> hist.shared \ {e}]
    BY DEF goToPreviousEditorSelection
  <1> HIDE DEF rest, later, j
  <1> QED BY <1>1, <1>2, <1>3, <1>4, <1>5 DEF HistoryOf

\* A jump forward keeps the types.
LEMMA ForwardType ==
  ASSUME NEW S \in SUBSET Ids, NEW hist \in HistoryOf(S), NEW e \in S, NEW n \in LineCounts,
         hist.next[e] # << >>
  PROVE  goToNextEditorSelection(hist, e, n) \in HistoryOf(S)
  <1> DEFINE rest == Pop(hist.next[e])
             earlier == PushCurrent(IF e \in hist.shared THEN rest ELSE hist.previous[e], hist.ranges[e])
             j == Jumped(hist, e, Top(hist.next[e]), n)
  <1>1. /\ e \in Ids /\ hist.ranges[e] \in Values /\ hist.previous \in [Ids -> Seq(Ranges)]
        /\ hist.next \in [Ids -> Seq(Ranges)] /\ hist.shared \in SUBSET Ids
    BY DEF HistoryOf
  <1>2. rest \in Seq(Ranges) /\ Top(hist.next[e]) \in Ranges
    BY <1>1, StackParts
  <1>3. earlier \in Seq(Ranges)
    BY <1>1, <1>2, PushCurrentType
  <1>4. j \in [S -> Values]
    BY <1>2, JumpedRanges
  <1>5. goToNextEditorSelection(hist, e, n) =
          [ranges |-> j, previous |-> [hist.previous EXCEPT ![e] = earlier],
           next |-> [hist.next EXCEPT ![e] = IF e \in hist.shared THEN earlier ELSE rest],
           shared |-> hist.shared \ {e}]
    BY DEF goToNextEditorSelection
  <1> HIDE DEF rest, earlier, j
  <1> QED BY <1>1, <1>2, <1>3, <1>4, <1>5 DEF HistoryOf

\* there is hist after a jump back and one forward in e.
Returned(there, hist, e, n) ==
  /\ there.next = hist.next
  /\ there.ranges = [hist.ranges EXCEPT ![e] = Clamp(hist.ranges[e], n)]
  /\ there.previous =
       [hist.previous EXCEPT ![e] = Append(Pop(hist.previous[e]), Clamp(Top(hist.previous[e]), n))]

\* Jumping back and then forward in one editor, for arrays of its own.
LEMMA BackThenForward ==
  ASSUME NEW S \in SUBSET Ids, NEW hist \in HistoryOf(S), NEW e \in S, NEW n \in LineCounts,
         e \notin hist.shared, hist.previous[e] # << >>, hist.ranges[e] # NoRange
  PROVE  Returned(goToNextEditorSelection(goToPreviousEditorSelection(hist, e, n), e, n), hist, e, n)
  <1> DEFINE back == goToPreviousEditorSelection(hist, e, n)
             there == goToNextEditorSelection(back, e, n)
             now == hist.ranges[e]
             rest == Pop(hist.previous[e])
             top == Top(hist.previous[e])
  <1>1. /\ e \in Ids /\ now \in Ranges /\ hist.previous \in [Ids -> Seq(Ranges)]
        /\ hist.next \in [Ids -> Seq(Ranges)] /\ hist.ranges \in [S -> Values]
    BY DEF HistoryOf, Values
  <1>2. rest \in Seq(Ranges) /\ top \in Ranges /\ Clamp(top, n) \in Ranges /\ Clamp(now, n) \in Ranges
    BY <1>1, StackParts, SelectionAssumption
  <1>3. Jumped(hist, e, top, n) = [hist.ranges EXCEPT ![e] = Clamp(top, n)]
    BY <1>2, JumpedRanges
  <1>4. back = [ranges |-> [hist.ranges EXCEPT ![e] = Clamp(top, n)],
                previous |-> [hist.previous EXCEPT ![e] = rest],
                next |-> [hist.next EXCEPT ![e] = Append(@, now)], shared |-> hist.shared \ {e}]
    BY <1>1, <1>3 DEF goToPreviousEditorSelection, PushCurrent
  <1>5. back \in HistoryOf(S)
    BY BackType
  <1> HIDE DEF rest, top, now
  <1>6. /\ back.ranges = [hist.ranges EXCEPT ![e] = Clamp(top, n)]
        /\ back.ranges[e] = Clamp(top, n)
        /\ back.previous[e] = rest
        /\ back.previous = [hist.previous EXCEPT ![e] = rest]
        /\ back.next = [hist.next EXCEPT ![e] = Append(@, now)]
        /\ back.next[e] = Append(hist.next[e], now)
        /\ e \notin back.shared
    <2> HIDE DEF back
    <2> QED BY <1>1, <1>4
  <1> HIDE DEF back
  <1>7. Top(back.next[e]) = now /\ Pop(back.next[e]) = hist.next[e]
    BY <1>1, <1>6, PushPop
  <1>8. Jumped(back, e, now, n) = [back.ranges EXCEPT ![e] = Clamp(now, n)]
    BY <1>1, <1>5, JumpedRanges
  <1>9. Clamp(top, n) # NoRange
    BY <1>2, SelectionAssumption
  <1>10. there = [ranges |-> [back.ranges EXCEPT ![e] = Clamp(now, n)],
                  previous |-> [back.previous EXCEPT ![e] = Append(rest, Clamp(top, n))],
                  next |-> [back.next EXCEPT ![e] = hist.next[e]], shared |-> back.shared \ {e}]
    BY <1>6, <1>7, <1>8, <1>9 DEF goToNextEditorSelection, PushCurrent
  <1>11. [back.ranges EXCEPT ![e] = Clamp(now, n)] = [hist.ranges EXCEPT ![e] = Clamp(now, n)]
    BY <1>1, <1>6
  <1>12. [back.next EXCEPT ![e] = hist.next[e]] = hist.next
    BY <1>1, <1>6
  <1>13. [back.previous EXCEPT ![e] = Append(rest, Clamp(top, n))]
           = [hist.previous EXCEPT ![e] = Append(rest, Clamp(top, n))]
    BY <1>1, <1>6
  <1> HIDE DEF there
  <1>14. /\ there.next = hist.next
         /\ there.ranges = [hist.ranges EXCEPT ![e] = Clamp(now, n)]
         /\ there.previous = [hist.previous EXCEPT ![e] = Append(rest, Clamp(top, n))]
    BY <1>10, <1>11, <1>12, <1>13
  <1>15. Returned(there, hist, e, n)
    BY <1>14 DEF Returned, now, rest, top
  <1> QED BY <1>15 DEF there, back
-----------------------------------------------------------------------------
\* The inductive invariant.
IInv == TypeOK /\ SharedAgree

LEMMA TypeOKMeaning == TypeOK <=> \E S \in SUBSET Ids : h \in HistoryOf(S)
  BY DEF TypeOK, HistoryOf, Values

LEMMA TypeOKMeaningNext == TypeOK' <=> \E S \in SUBSET Ids : h' \in HistoryOf(S)
  BY DEF TypeOK, HistoryOf, Values

LEMMA InitIInv == Init => IInv
  <1> SUFFICES ASSUME Init PROVE IInv
    OBVIOUS
  <1>1. h \in HistoryOf({})
    BY DEF Init, HistoryOf
  <1> QED BY <1>1, TypeOKMeaning DEF Init, IInv, SharedAgree

\* A cursor moves.
LEMMA MoveCursorStep ==
  ASSUME IInv, NEW e \in Ids, NEW r \in Ranges, MoveCursor(e, r)
  PROVE  IInv' /\ \A d \in Ids : StackStep(d)
  <1>1. PICK S \in SUBSET Ids : h \in HistoryOf(S)
    BY TypeOKMeaning DEF IInv
  <1>2. e \in S /\ h' = setSelectionRange(h, e, r) /\ r \in Values
    BY <1>1 DEF MoveCursor, HistoryOf, Values
  <1>3. /\ h' \in HistoryOf(S)
        /\ \/ h'.previous = h.previous /\ h'.next = h.next /\ h'.shared = h.shared
           \/ Agree(h')
        /\ h'.previous = h.previous \/ PushedOnto(h'.previous, h.previous, e)
    <2>1. LET s == setSelectionRange(h, e, r)
          IN /\ s \in HistoryOf(S)
             /\ \/ s.previous = h.previous /\ s.next = h.next /\ s.shared = h.shared
                \/ Agree(s)
             /\ s.previous = h.previous \/ PushedOnto(s.previous, h.previous, e)
      BY <1>1, <1>2, SetFields
    <2> QED BY <1>2, <2>1
  <1>4. IInv'
    BY <1>3, TypeOKMeaningNext DEF IInv, SharedAgree, Agree
  <1>5. ASSUME NEW d \in Ids PROVE StackStep(d)
    <2>1. CASE h'.previous[d] = h.previous[d]
      BY <2>1 DEF StackStep
    <2>2. CASE h'.previous[d] # h.previous[d]
      <3>1. PICK old \in Ranges : h'.previous = [h.previous EXCEPT ![e] = Append(@, old)]
        BY <1>3, <2>2 DEF PushedOnto
      <3>2. h.previous \in [Ids -> Seq(Ranges)]
        BY <1>1 DEF HistoryOf
      <3>3. d = e /\ h'.previous[d] = Append(h.previous[d], old) /\ h.previous[d] \in Seq(Ranges)
        BY <2>2, <3>1, <3>2
      <3>4. h'.previous[d] # << >> /\ Pop(h'.previous[d]) = h.previous[d]
        BY <3>3, PushPop
      <3> QED BY <3>4 DEF StackStep
    <2> QED BY <2>1, <2>2
  <1> QED BY <1>4, <1>5

\* A jump back.
LEMMA BackStep ==
  ASSUME IInv, NEW e \in Ids, NEW n \in LineCounts, GoBackInSelection(e, n)
  PROVE  IInv' /\ \A d \in Ids : StackStep(d)
  <1> DEFINE rest == Pop(h.previous[e])
             kept == IF e \in h.shared THEN rest ELSE h.next[e]
             later == PushCurrent(kept, h.ranges[e])
  <1>1. PICK S \in SUBSET Ids : h \in HistoryOf(S)
    BY TypeOKMeaning DEF IInv
  <1>2. e \in S /\ h.previous[e] # << >> /\ h' = goToPreviousEditorSelection(h, e, n)
    BY <1>1 DEF GoBackInSelection, HistoryOf
  <1>3. /\ h.previous \in [Ids -> Seq(Ranges)] /\ h.next \in [Ids -> Seq(Ranges)]
        /\ h.ranges[e] \in Values /\ h.shared \in SUBSET Ids
    BY <1>1, <1>2 DEF HistoryOf
  <1>4. rest \in Seq(Ranges)
    BY <1>2, <1>3, StackParts
  <1>5. kept \in Seq(Ranges)
    BY <1>3, <1>4
  <1>6. /\ h'.previous = [h.previous EXCEPT ![e] = IF e \in h.shared THEN later ELSE rest]
        /\ h'.next = [h.next EXCEPT ![e] = later]
        /\ h'.shared = h.shared \ {e}
    BY <1>2 DEF goToPreviousEditorSelection
  <1>7. h' \in HistoryOf(S)
    BY <1>1, <1>2, BackType
  <1> HIDE DEF rest, kept, later
  <1>8. IInv'
    <2>1. SharedAgree'
      BY <1>3, <1>6 DEF IInv, SharedAgree
    <2> QED BY <1>7, <2>1, TypeOKMeaningNext DEF IInv
  <1>9. h.ranges[e] = NoRange => later = kept
    BY DEF later, PushCurrent
  <1>10. h.ranges[e] # NoRange => Top(later) = h.ranges[e] /\ Pop(later) = kept
    BY <1>3, <1>5, PushPop DEF later, PushCurrent, Values
  <1>11. e \in h.shared => kept = rest
    BY DEF kept
  <1>12. StackStep(e)
    <2>1. h'.next[e] = later /\ h'.previous[e] = IF e \in h.shared THEN later ELSE rest
      BY <1>3, <1>6
    <2> QED BY <1>2, <1>9, <1>10, <1>11, <2>1 DEF StackStep, rest
  <1>13. ASSUME NEW d \in Ids, d # e PROVE StackStep(d)
    <2>1. h'.previous[d] = h.previous[d]
      BY <1>3, <1>6, <1>13
    <2> QED BY <2>1 DEF StackStep
  <1> QED BY <1>8, <1>12, <1>13

\* A jump forward.
LEMMA ForwardStep ==
  ASSUME IInv, NEW e \in Ids, NEW n \in LineCounts, GoForwardInSelection(e, n)
  PROVE  IInv' /\ \A d \in Ids : StackStep(d)
  <1> DEFINE rest == Pop(h.next[e])
             kept == IF e \in h.shared THEN rest ELSE h.previous[e]
             earlier == PushCurrent(kept, h.ranges[e])
  <1>1. PICK S \in SUBSET Ids : h \in HistoryOf(S)
    BY TypeOKMeaning DEF IInv
  <1>2. e \in S /\ h.next[e] # << >> /\ h' = goToNextEditorSelection(h, e, n)
    BY <1>1 DEF GoForwardInSelection, HistoryOf
  <1>3. /\ h.previous \in [Ids -> Seq(Ranges)] /\ h.next \in [Ids -> Seq(Ranges)]
        /\ h.ranges[e] \in Values /\ h.shared \in SUBSET Ids
    BY <1>1, <1>2 DEF HistoryOf
  <1>4. rest \in Seq(Ranges)
    BY <1>2, <1>3, StackParts
  <1>5. kept \in Seq(Ranges)
    BY <1>3, <1>4
  <1>6. /\ h'.previous = [h.previous EXCEPT ![e] = earlier]
        /\ h'.next = [h.next EXCEPT ![e] = IF e \in h.shared THEN earlier ELSE rest]
        /\ h'.shared = h.shared \ {e}
    BY <1>2 DEF goToNextEditorSelection
  <1>7. h' \in HistoryOf(S)
    BY <1>1, <1>2, ForwardType
  <1>8. e \in h.shared => h.previous[e] # << >> /\ rest = Pop(h.previous[e])
    BY <1>2 DEF IInv, SharedAgree
  <1> HIDE DEF rest, kept, earlier
  <1>9. IInv'
    <2>1. SharedAgree'
      BY <1>3, <1>6 DEF IInv, SharedAgree
    <2> QED BY <1>7, <2>1, TypeOKMeaningNext DEF IInv
  <1>10. h.ranges[e] = NoRange => earlier = kept
    BY DEF earlier, PushCurrent
  <1>11. h.ranges[e] # NoRange => earlier # << >> /\ Top(earlier) = h.ranges[e] /\ Pop(earlier) = kept
    BY <1>3, <1>5, PushPop DEF earlier, PushCurrent, Values
  <1>12. kept = IF e \in h.shared THEN rest ELSE h.previous[e]
    BY DEF kept
  <1>13. StackStep(e)
    <2>1. h'.previous[e] = earlier /\ h'.next[e] = IF e \in h.shared THEN earlier ELSE rest
      BY <1>3, <1>6
    <2> QED BY <1>8, <1>10, <1>11, <1>12, <2>1 DEF StackStep
  <1>14. ASSUME NEW d \in Ids, d # e PROVE StackStep(d)
    <2>1. h'.previous[d] = h.previous[d]
      BY <1>3, <1>6, <1>14
    <2> QED BY <2>1 DEF StackStep
  <1> QED BY <1>9, <1>13, <1>14

\* The map of editors is replaced.
LEMMA ReplaceMapStep ==
  ASSUME IInv, NEW T \in SUBSET Ids, NEW m \in [T -> Values], ReplaceMap(m)
  PROVE  IInv' /\ \A d \in Ids : StackStep(d)
  <1>1. PICK S \in SUBSET Ids : h \in HistoryOf(S)
    BY TypeOKMeaning DEF IInv
  <1>2. h' = [h EXCEPT !.ranges = m]
    BY DEF ReplaceMap
  <1>3. h' \in HistoryOf(T) /\ h'.previous = h.previous /\ h'.next = h.next /\ h'.shared = h.shared
    BY <1>1, <1>2 DEF HistoryOf
  <1>4. IInv'
    BY <1>3, TypeOKMeaningNext DEF IInv, SharedAgree
  <1> QED BY <1>3, <1>4 DEF StackStep

LEMMA StepKeeps == IInv /\ Next => IInv' /\ \A d \in Ids : StackStep(d)
  <1> SUFFICES ASSUME IInv, Next PROVE IInv' /\ \A d \in Ids : StackStep(d)
    OBVIOUS
  <1>1. CASE \E e \in Ids, r \in Ranges : MoveCursor(e, r)
    BY <1>1, MoveCursorStep
  <1>2. CASE \E e \in Ids, n \in LineCounts : GoBackInSelection(e, n)
    BY <1>2, BackStep
  <1>3. CASE \E e \in Ids, n \in LineCounts : GoForwardInSelection(e, n)
    BY <1>3, ForwardStep
  <1>4. CASE \E S \in SUBSET Ids : \E m \in [S -> Values] : ReplaceMap(m)
    BY <1>4, ReplaceMapStep
  <1> QED BY <1>1, <1>2, <1>3, <1>4 DEF Next, Values

LEMMA Invariance == Spec => []IInv
  <1>1. IInv /\ UNCHANGED h => IInv'
    BY DEF IInv, TypeOK, SharedAgree
  <1> QED BY <1>1, InitIInv, StepKeeps, PTL DEF Spec

\* The maps always have their types: no null and nothing but ranges is ever pushed.
THEOREM TypeCorrect == Spec => []TypeOK
  <1>1. IInv => TypeOK
    BY DEF IInv
  <1> QED BY <1>1, Invariance, PTL

\* In every reachable state, a jump back followed by a jump forward returns.
THEOREM JumpsReturn == Spec => []BackThenForwardReturns
  <1>1. IInv => BackThenForwardReturns
    <2> SUFFICES ASSUME IInv, NEW e \in DOMAIN h.ranges \ h.shared, NEW n \in LineCounts,
                        h.previous[e] # << >>, h.ranges[e] # NoRange
                 PROVE  LET back == goToPreviousEditorSelection(h, e, n)
                            there == goToNextEditorSelection(back, e, n)
                        IN /\ there.next = h.next
                           /\ Pop(there.previous[e]) = Pop(h.previous[e])
                           /\ there.ranges[e] = Clamp(h.ranges[e], n)
                           /\ Clamp(Top(h.previous[e]), n) = Top(h.previous[e])
                                => there.previous = h.previous
      BY DEF BackThenForwardReturns
    <2> DEFINE there == goToNextEditorSelection(goToPreviousEditorSelection(h, e, n), e, n)
               target == Clamp(Top(h.previous[e]), n)
               rest == Pop(h.previous[e])
    <2>1. PICK S \in SUBSET Ids : h \in HistoryOf(S)
      BY TypeOKMeaning DEF IInv
    <2>2. e \in S /\ e \in Ids /\ h.previous \in [Ids -> Seq(Ranges)] /\ h.ranges \in [S -> Values]
      BY <2>1 DEF HistoryOf
    <2>3. /\ there.next = h.next
          /\ there.ranges = [h.ranges EXCEPT ![e] = Clamp(h.ranges[e], n)]
          /\ there.previous = [h.previous EXCEPT ![e] = Append(rest, target)]
      <3>1. e \notin h.shared
        OBVIOUS
      <3>2. Returned(there, h, e, n)
        BY <2>1, <2>2, <3>1, BackThenForward
      <3> QED BY <3>2 DEF Returned
    <2>4. /\ rest \in Seq(Ranges) /\ target \in Ranges
          /\ Append(rest, Top(h.previous[e])) = h.previous[e]
      BY <2>2, StackParts, SelectionAssumption
    <2> HIDE DEF there, target, rest
    <2>5. Pop(there.previous[e]) = rest
      BY <2>2, <2>3, <2>4, PushPop
    <2>6. target = Top(h.previous[e]) => there.previous = h.previous
      <3> SUFFICES ASSUME target = Top(h.previous[e]) PROVE there.previous = h.previous
        OBVIOUS
      <3>1. there.previous = [h.previous EXCEPT ![e] = h.previous[e]]
        BY <2>3, <2>4
      <3> QED BY <2>2, <3>1
    <2>7. there.ranges[e] = Clamp(h.ranges[e], n)
      BY <2>2, <2>3
    <2> QED BY <2>3, <2>5, <2>6, <2>7 DEF there, target, rest
  <1> QED BY <1>1, Invariance, PTL

\* No step loses an older selection of any editor.
THEOREM NothingLost == Spec => OlderSelectionsKept
  <1>1. IInv /\ [Next]_h => [\A e \in Ids : StackStep(e)]_h
    BY StepKeeps
  <1> QED BY <1>1, Invariance, PTL DEF Spec, OlderSelectionsKept
=============================================================================
