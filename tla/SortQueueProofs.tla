--------------------------- MODULE SortQueueProofs ---------------------------
(***************************************************************************)
(* The queue of the dependency sorts serialises them, for every set of     *)
(* editors and every number of calls.                                      *)
(***************************************************************************)
EXTENDS SortQueue, TLAPS

\* A map is a function on some of the editors.
LEMMA MapIsFunction == \A map \in Map : \E S \in SUBSET Ids : map \in [S -> Look]
  BY Zenon DEF Map

LEMMA EmptyIsMap == EmptyMap \in Map /\ EmptyMap \in Shown /\ DOMAIN EmptyMap = {}
  <1>1. EmptyMap \in [{} -> Look] /\ EmptyMap \in [{} -> [isPinned : BOOLEAN, symbol : Symbols]]
    BY DEF EmptyMap
  <1>2. {} \in SUBSET Ids
    OBVIOUS
  <1>3. EmptyMap \in Map
    BY <1>1, <1>2, Zenon DEF Map
  <1>4. EmptyMap \in Shown
    BY <1>1, <1>2, Zenon DEF Shown
  <1>5. DOMAIN EmptyMap = {}
    BY DEF EmptyMap
  <1> QED BY <1>3, <1>4, <1>5

USE SortAssumption

\* A resolved item belongs to a call that has had its turn, and a call has had its turn
\* only after every earlier item was resolved.
InOrder ==
  \A i \in DOMAIN calls :
    /\ calls[i].done => calls[i].stage # "waiting"
    /\ calls[i].stage # "waiting" => \A k \in 1..(i - 1) : calls[k].done

IInv == TypeOK /\ InOrder

\* The editors of a map are editors.
LEMMA MapDomain == \A map \in Map \cup Shown : DOMAIN map \subseteq Ids
  BY DEF Map, Shown

\* What the cache holds of a map has the map's editors, with their pins and symbols.
LEMMA ShownOf ==
  ASSUME NEW map \in Map
  PROVE  /\ ShownBy(map) \in Shown
         /\ DOMAIN ShownBy(map) = DOMAIN map
         /\ Unpinned(ShownBy(map)) = Unpinned(map)
  <1>1. PICK S \in SUBSET Ids : map \in [S -> Look]
    BY MapIsFunction
  <1>2. DOMAIN map = S /\ \A e \in S : map[e].isPinned \in BOOLEAN /\ map[e].symbol \in Symbols
    BY <1>1 DEF Look
  <1>3. ShownBy(map) \in [S -> [isPinned : BOOLEAN, symbol : Symbols]]
    BY <1>2 DEF ShownBy
  <1>4. ShownBy(map) \in Shown
    BY <1>3 DEF Shown
  <1>5. DOMAIN ShownBy(map) = DOMAIN map
        /\ \A e \in DOMAIN map : ShownBy(map)[e].isPinned = map[e].isPinned
    BY DEF ShownBy
  <1> QED BY <1>4, <1>5 DEF Unpinned

\* The calls after item i has moved on to stage st and been resolved or not (d).
LEMMA Updated ==
  ASSUME calls \in Seq(Call), NEW i \in DOMAIN calls, NEW st \in Stages, NEW d \in BOOLEAN,
         calls' = MovedOn(i, st, d)
  PROVE  /\ calls' \in Seq(Call)
         /\ DOMAIN calls' = DOMAIN calls
         /\ calls'[i].stage = st /\ calls'[i].done = d
         /\ calls'[i].current = calls[i].current
         /\ \A k \in DOMAIN calls : k # i => calls'[k] = calls[k]
  <1> DEFINE c == [calls[i] EXCEPT !.stage = st, !.done = d, !.previous = EmptyMap]
  <1>1. calls[i] \in Call
    OBVIOUS
  <1>2. c \in Call /\ c.stage = st /\ c.done = d /\ c.current = calls[i].current
    BY <1>1, EmptyIsMap DEF Call
  <1>3. calls' = [calls EXCEPT ![i] = c]
    BY DEF MovedOn
  <1> HIDE DEF c
  <1>4. calls' \in Seq(Call) /\ DOMAIN calls' = DOMAIN calls /\ calls'[i] = c
        /\ \A k \in DOMAIN calls : k # i => calls'[k] = calls[k]
    BY <1>2, <1>3
  <1> QED BY <1>2, <1>4

\* Calls that move on in the way of the queue keep its order.
LEMMA OrderKept ==
  ASSUME TypeOK, InOrder, NEW i \in DOMAIN calls, NEW st \in Stages, NEW d \in BOOLEAN,
         calls' = MovedOn(i, st, d),
         d => st # "waiting",
         calls[i].done => d,
         st # "waiting" => \A k \in 1..(i - 1) : calls[k].done
  PROVE  InOrder'
  <1>1. calls \in Seq(Call) /\ DOMAIN calls' = DOMAIN calls /\ calls'[i].stage = st
        /\ calls'[i].done = d /\ \A k \in DOMAIN calls : k # i => calls'[k] = calls[k]
    <2>1. calls \in Seq(Call)
      BY DEF TypeOK
    <2> QED BY <2>1, Updated
  <1>2. \A k \in DOMAIN calls : k \in Nat /\ k > 0 /\ 1..(k - 1) \subseteq DOMAIN calls
    BY <1>1
  <1>3. \A k \in DOMAIN calls : calls[k].done => calls'[k].done
    BY <1>1
  <1> SUFFICES ASSUME NEW j \in DOMAIN calls
               PROVE  /\ calls'[j].done => calls'[j].stage # "waiting"
                      /\ calls'[j].stage # "waiting" => \A k \in 1..(j - 1) : calls'[k].done
    BY <1>1 DEF InOrder
  <1>4. CASE j = i
    BY <1>1, <1>2, <1>3, <1>4
  <1>5. CASE j # i
    BY <1>1, <1>2, <1>3, <1>5 DEF InOrder
  <1> QED BY <1>4, <1>5

\* When the timer of call i fires, the call has had its turn: what can run has run.
LEMMA TimedOutHasBegun ==
  ASSUME TypeOK, NEW i \in DOMAIN calls, Timeout(i)
  PROVE  calls[i].stage # "waiting"
  <1>1. calls \in Seq(Call) /\ ~ MayBegin(i) /\ \A j \in 1..(i - 1) : calls[j].done
    BY DEF Timeout, Quiet, TypeOK
  <1>2. i \in Nat /\ i > 0 /\ (i > 1 => i - 1 \in 1..(i - 1))
    BY <1>1
  <1> QED BY <1>1, <1>2 DEF MayBegin

\* The turn of a call comes after every earlier item has been resolved.
LEMMA TurnAfterEarlier ==
  ASSUME TypeOK, InOrder, NEW i \in DOMAIN calls, MayBegin(i)
  PROVE  \A k \in 1..(i - 1) : calls[k].done
  <1>1. calls \in Seq(Call)
    BY DEF TypeOK
  <1>2. i \in Nat /\ i > 0 /\ (i > 1 => i - 1 \in DOMAIN calls)
    BY <1>1
  <1> SUFFICES ASSUME NEW k \in 1..(i - 1) PROVE calls[k].done
    OBVIOUS
  <1>3. i - 1 \in DOMAIN calls /\ calls[i - 1].done
    BY <1>2 DEF MayBegin
  <1>4. \A n \in 1..((i - 1) - 1) : calls[n].done
    BY <1>3 DEF InOrder
  <1>5. k = i - 1 \/ k \in 1..((i - 1) - 1)
    BY <1>2
  <1> QED BY <1>3, <1>4, <1>5

\* The pairs of related editors are pairs of editors.
LEMMA PairsType == \A R \in SUBSET Relationship : Pairs(R) \subseteq Ids \X Ids
  BY DEF Pairs, Relationship

\* Drawing the arrows of related editors from a map keeps their type.
LEMMA DrawType ==
  ASSUME NEW R \in SUBSET Relationship, NEW map \in Map, generateDependencyArrows(R, map)
  PROVE  /\ arrows' \in [pairs : SUBSET (Ids \X Ids), map : Map]
         /\ arrows'.pairs \subseteq (DOMAIN arrows'.map) \X (DOMAIN arrows'.map)
         /\ arrows'.map = map
  <1>1. PICK O \in Orders : arrows' = [pairs |-> Arrows(R, map, O), map |-> map]
    BY DEF generateDependencyArrows
  <1>2. Arrows(R, map, O) \subseteq Considered(R, map)
    BY DEF Arrows
  <1>3. Considered(R, map) \subseteq Ids \X Ids
    BY PairsType DEF Considered
  <1>4. Considered(R, map) \subseteq (DOMAIN map) \X (DOMAIN map)
    BY <1>3 DEF Considered, Unpinned
  <1> QED BY <1>1, <1>2, <1>3, <1>4

\* What the language servers find is about the editors that were asked about.
LEMMA FoundType ==
  ASSUME NEW shown \in Shown
  PROVE  /\ getSymbolRelationships(shown) \in SUBSET Relationship
         /\ Pairs(getSymbolRelationships(shown)) \subseteq (DOMAIN shown) \X (DOMAIN shown)
  <1>1. DOMAIN shown \subseteq Ids
    BY MapDomain
  <1>2. ASSUME NEW r \in getSymbolRelationships(shown)
        PROVE  r \in Relationship /\ <<r.from, r.to>> \in (DOMAIN shown) \X (DOMAIN shown)
    <2>1. PICK p \in (DOMAIN shown) \X (DOMAIN shown) :
            r = [from |-> p[1], to |-> p[2],
                 type |-> IF shown[p[2]].symbol = File THEN "SAME_FILE" ELSE "SYMBOL_DEPENDENCY"]
      BY DEF getSymbolRelationships
    <2>2. p[1] \in DOMAIN shown /\ p[2] \in DOMAIN shown
      OBVIOUS
    <2> QED BY <1>1, <2>1, <2>2 DEF Relationship
  <1>3. getSymbolRelationships(shown) \in SUBSET Relationship
    BY <1>2
  <1>4. ASSUME NEW pair \in Pairs(getSymbolRelationships(shown))
        PROVE  pair \in (DOMAIN shown) \X (DOMAIN shown)
    <2>1. PICK r \in getSymbolRelationships(shown) : pair = <<r.from, r.to>>
      BY DEF Pairs
    <2> QED BY <1>2, <2>1
  <1> QED BY <1>3, <1>4

LEMMA GraphType ==
  ASSUME NEW map \in Map, buildRelationshipGraph(map)
  PROVE  relationshipsMap' \in SUBSET Relationship
  BY ShownOf, FoundType DEF buildRelationshipGraph

\* Only related pairs have to have a color.
LEMMA ColoredIsRelated == ASSUME NEW R, NEW map PROVE Colored(R, map) \subseteq Pairs(R)
  BY DEF Colored, Pairs

\* Coloring related pairs keeps the type of the colors.
LEMMA ColorType ==
  ASSUME colorRelationshipMap \subseteq Ids \X Ids,
         NEW R \in SUBSET Relationship, NEW map, generateEditorHighlightsAndColors(R, map)
  PROVE  colorRelationshipMap' \subseteq Ids \X Ids
  BY ColoredIsRelated, PairsType DEF generateEditorHighlightsAndColors

\* The invariant holds initially.
LEMMA InitIInv == Init => IInv
  <1>1. EmptyMap \in Map /\ EmptyMap \in Shown
    BY EmptyIsMap
  <1>2. << >> \in Seq(Call) /\ DOMAIN << >> = {}
    OBVIOUS
  <1> SUFFICES ASSUME Init PROVE TypeOK /\ InOrder
    BY DEF IInv
  <1>3. TypeOK
    BY <1>1, <1>2 DEF Init, TypeOK
  <1>4. InOrder
    BY <1>2 DEF Init, InOrder
  <1> QED BY <1>3, <1>4

\* Every step keeps the invariant.
LEMMA NextIInv == IInv /\ [Next]_vars => IInv'
  <1> SUFFICES ASSUME TypeOK, InOrder, [Next]_vars PROVE TypeOK' /\ InOrder'
    BY DEF IInv
  <1>0. calls \in Seq(Call) /\ \A i \in DOMAIN calls : calls[i] \in Call
    BY DEF TypeOK
  <1>1. ASSUME NEW map \in Layouts, NEW New \in SUBSET Ids, Set(map, New) PROVE TypeOK' /\ InOrder'
    <2>1. CASE UNCHANGED calls
      <3>1. TypeOK'
        BY <1>1, <2>1 DEF Set, TypeOK
      <3>2. InOrder'
        BY <2>1 DEF InOrder
      <3> QED BY <3>1, <3>2
    <2>2. ASSUME NEW c \in Call, calls' = Append(calls, c), c.stage = "waiting", ~ c.done
          PROVE  TypeOK' /\ InOrder'
      <3>1. TypeOK'
        BY <1>1, <2>2, <1>0 DEF Set, TypeOK
      <3>2. \A j \in DOMAIN calls' :
              \/ j \in DOMAIN calls /\ calls'[j] = calls[j]
              \/ calls'[j].stage = "waiting" /\ ~ calls'[j].done
        BY <1>0, <2>2
      <3>3. \A j \in DOMAIN calls : calls'[j] = calls[j] /\ 1..(j - 1) \subseteq DOMAIN calls
        BY <1>0, <2>2
      <3>4. InOrder'
        BY <3>2, <3>3 DEF InOrder
      <3> QED BY <3>1, <3>4
    <2> DEFINE c == [current |-> map, previous |-> idToEditorMap,
                     stage |-> "waiting", done |-> FALSE]
    <2>3. c \in Call /\ c.stage = "waiting" /\ ~ c.done
      BY DEF Call, Stages, TypeOK
    <2>4. UNCHANGED calls \/ calls' = Append(calls, c)
      BY <1>1 DEF Set
    <2> QED BY <2>1, <2>2, <2>3, <2>4
  <1>2. ASSUME NEW i \in DOMAIN calls, handleStoreChange(i) PROVE TypeOK' /\ InOrder'
    <2>0. calls[i].current \in Map /\ ~ calls[i].done
      BY <1>0, <1>2 DEF Call, handleStoreChange, MayBegin, InOrder
    <2>1. PICK st \in Stages, d \in BOOLEAN :
            /\ st # "waiting"
            /\ calls' = MovedOn(i, st, d)
      BY <1>2 DEF handleStoreChange, Stages
    <2>2. calls' \in Seq(Call)
      BY <1>0, <2>1, Updated
    <2>3. /\ UNCHANGED <<idToEditorMap, mounted, relationshipsMap, cutShort, joinedEarly>>
          /\ UNCHANGED arrows \/ generateDependencyArrows(relationshipsMap, calls[i].current)
          /\ cached' \in {cached, ShownBy(calls[i].current)}
          /\ colorRelationshipMap' \subseteq colorRelationshipMap
          /\ sortedEditors' \in {sortedEditors, DOMAIN cached}
      BY <1>2 DEF handleStoreChange, clearHighlightsAndColors
    <2>4. TypeOK'
      BY <2>0, <2>2, <2>3, MapDomain, ShownOf, DrawType DEF TypeOK
    <2>5. InOrder'
      <3>1. \A k \in 1..(i - 1) : calls[k].done
        BY <1>2, TurnAfterEarlier DEF handleStoreChange
      <3> QED BY <2>0, <2>1, <3>1, OrderKept
    <2> QED BY <2>4, <2>5
  <1>3. ASSUME NEW i \in DOMAIN calls, generateRelationshipMap(i) PROVE TypeOK' /\ InOrder'
    <2>0. calls[i].current \in Map /\ calls[i].stage = "asking"
      BY <1>0, <1>3 DEF Call, generateRelationshipMap
    <2>1. calls' = MovedOn(i, "finished", TRUE)
      BY <1>3 DEF generateRelationshipMap
    <2>2. calls' \in Seq(Call)
      BY <1>0, <2>1, Updated DEF Stages
    <2>3. relationshipsMap' \in SUBSET Relationship
      BY <1>3, <2>0, GraphType DEF generateRelationshipMap
    <2>4. colorRelationshipMap' \subseteq Ids \X Ids
      BY <1>3, <2>3, ColorType DEF generateRelationshipMap, TypeOK
    <2>5. arrows' \in [pairs : SUBSET (Ids \X Ids), map : Map]
          /\ arrows'.pairs \subseteq (DOMAIN arrows'.map) \X (DOMAIN arrows'.map)
      BY <1>3, <2>0, <2>3, DrawType DEF generateRelationshipMap
    <2>6. TypeOK'
      BY <1>3, <2>2, <2>3, <2>4, <2>5, MapDomain DEF TypeOK, generateRelationshipMap
    <2>7. InOrder'
      BY <2>0, <2>1, OrderKept DEF InOrder, Stages
    <2> QED BY <2>6, <2>7
  <1>4. ASSUME NEW i \in DOMAIN calls, RelationshipsFail(i) PROVE TypeOK' /\ InOrder'
    <2>0. calls[i].stage = "asking" /\ calls[i].done \in BOOLEAN
      BY <1>0, <1>4 DEF Call, RelationshipsFail
    <2>1. calls' = MovedOn(i, "finished", calls[i].done)
      BY <1>0, <1>4 DEF RelationshipsFail, Call
    <2>2. calls' \in Seq(Call)
      BY <1>0, <2>0, <2>1, Updated DEF Stages
    <2>3. TypeOK'
      BY <1>4, <2>2 DEF TypeOK, RelationshipsFail
    <2>4. InOrder'
      BY <2>0, <2>1, OrderKept DEF InOrder, Stages
    <2> QED BY <2>3, <2>4
  <1>5. ASSUME NEW i \in DOMAIN calls, Timeout(i) PROVE TypeOK' /\ InOrder'
    <2>0. calls[i].stage # "waiting" /\ calls[i].stage \in Stages
      BY <1>0, <1>5, TimedOutHasBegun DEF Call
    <2>1. calls' = MovedOn(i, calls[i].stage, TRUE)
      BY <1>0, <1>5 DEF Timeout, Call
    <2>2. calls' \in Seq(Call)
      BY <1>0, <2>0, <2>1, Updated
    <2>3. TypeOK'
      BY <1>5, <2>2 DEF TypeOK, Timeout
    <2>4. InOrder'
      BY <1>5, <2>0, <2>1, OrderKept DEF Timeout
    <2> QED BY <2>3, <2>4
  <1>6. CASE refreshDependencyArrows
    <2>1. TypeOK'
      BY <1>6, DrawType DEF TypeOK, refreshDependencyArrows
    <2>2. InOrder'
      BY <1>6 DEF InOrder, refreshDependencyArrows
    <2> QED BY <2>1, <2>2
  <1>7. ASSUME NEW join \in Joined, unconditionallyAddRelationship(join[1], join[2])
        PROVE  TypeOK' /\ InOrder'
    <2>1. relationshipsMap' \in SUBSET Relationship
      BY <1>7 DEF TypeOK, unconditionallyAddRelationship, Relationship
    <2>2. colorRelationshipMap' \subseteq Ids \X Ids
      BY <1>7, <2>1, ColorType DEF TypeOK, unconditionallyAddRelationship
    <2>3. TypeOK'
      BY <1>7, <2>1, <2>2, DrawType DEF TypeOK, unconditionallyAddRelationship
    <2>4. InOrder'
      BY <1>7 DEF InOrder, unconditionallyAddRelationship
    <2> QED BY <2>3, <2>4
  <1>8. CASE UNCHANGED vars
    BY <1>8 DEF vars, TypeOK, InOrder
  <1> QED BY <1>1, <1>2, <1>3, <1>4, <1>5, <1>6, <1>7, <1>8 DEF Next

\* The state of the sorting middleware has its type, and no arrow joins an editor that is
\* not in the map it was drawn from.
THEOREM TypeCorrect == Spec => []TypeOK
  <1>1. IInv => TypeOK
    BY DEF IInv
  <1> QED BY <1>1, InitIInv, NextIInv, PTL DEF Spec

\* The promise chain of handleStoreChange serialises the sorts: a call begins only when
\* every earlier one has begun and its item is resolved, by its return or by its timer.
THEOREM SortsAreSerial == Spec => []OneSortAtATime
  <1>1. IInv => OneSortAtATime
    <2> SUFFICES ASSUME TypeOK, InOrder, NEW i \in DOMAIN calls, NEW j \in DOMAIN calls,
                        i < j, calls[j].stage # "waiting"
                 PROVE  calls[i].stage # "waiting" /\ calls[i].done
      BY DEF IInv, OneSortAtATime
    <2>1. calls \in Seq(Call)
      BY DEF TypeOK
    <2>2. i \in 1..(j - 1)
      BY <2>1
    <2> QED BY <2>2 DEF InOrder
  <1> QED BY <1>1, InitIInv, NextIInv, PTL DEF Spec
-----------------------------------------------------------------------------
\* The map of the call before call i; before the first the canvas was empty.
Base(i) == IF i = 1 THEN EmptyMap ELSE calls[i - 1].current

\* Call i is the next to begin, or would be if it came.
Turn(i) ==
  /\ i \in DOMAIN calls => calls[i].stage = "waiting"
  /\ i > 1 => calls[i - 1].stage # "waiting"

Asking == \E i \in DOMAIN calls : calls[i].stage = "asking"

AllBegun == \A i \in DOMAIN calls : calls[i].stage # "waiting"

AllFinished == \A i \in DOMAIN calls : calls[i].stage = "finished"

AllOpen == DOMAIN idToEditorMap \subseteq mounted

\* No change is lost.  A call has only editors that are open; once all are open again the
\* last call has the canvas of now; and a call whose event shows no change of the map has
\* other editors than the call before it, for the changes in between were ignored.
NoneLost ==
  /\ \A i \in DOMAIN calls : DOMAIN calls[i].current \subseteq mounted
  /\ AllOpen => idToEditorMap = Base(Len(calls) + 1)
  /\ \A i \in DOMAIN calls :
       calls[i].stage = "waiting" /\ calls[i].current = calls[i].previous =>
         DOMAIN calls[i].current # DOMAIN Base(i)

\* What the sorter has cached are the editors of the call that began last.
CacheOfLast == \A i \in 1..(Len(calls) + 1) : Turn(i) => cached = ShownBy(Base(i))

\* While no request is under way the relationships, the sorted list and the colors are
\* those of the cached editors.
Settled ==
  ~ Asking =>
    /\ getSymbolRelationships(cached) \subseteq relationshipsMap
    /\ Pairs(relationshipsMap \ getSymbolRelationships(cached)) \subseteq Joined
    /\ sortedEditors = DOMAIN cached
    /\ Colored(getSymbolRelationships(cached), cached) \subseteq colorRelationshipMap

ColorsKnown ==
  ~ joinedEarly => colorRelationshipMap \subseteq ((DOMAIN cached) \X (DOMAIN cached)) \cup Joined

\* The arrows are drawn from the canvas of now, and show its relationships.
DrawnNow ==
  AllOpen => /\ AllBegun => arrows.map = idToEditorMap
             /\ AllFinished => ArrowsShow(arrows.pairs, relationshipsMap, idToEditorMap)

\* Without a timeout an item is resolved exactly when its call has returned.
ResolvedByReturn == \A i \in DOMAIN calls : calls[i].done <=> calls[i].stage = "finished"

InStep == ResolvedByReturn /\ CacheOfLast /\ Settled /\ ColorsKnown /\ DrawnNow

AInv == NoneLost /\ (~ cutShort => InStep)

\* The numbers of the calls.
LEMMA CallsSeq ==
  ASSUME TypeOK
  PROVE  /\ calls \in Seq(Call) /\ Len(calls) \in Nat /\ DOMAIN calls = 1..Len(calls)
         /\ \A i \in DOMAIN calls : calls[i] \in Call /\ calls[i].current \in Map /\ calls[i].previous \in Map
  <1>1. calls \in Seq(Call)
    BY DEF TypeOK
  <1>2. Len(calls) \in Nat /\ DOMAIN calls = 1..Len(calls) /\ \A i \in DOMAIN calls : calls[i] \in Call
    BY <1>1
  <1>3. \A c \in Call : c.current \in Map /\ c.previous \in Map
    BY DEF Call
  <1> QED BY <1>1, <1>2, <1>3

\* The calls before one that may begin have finished, those after it wait.
LEMMA TurnOf ==
  ASSUME IInv, ResolvedByReturn, NEW i \in DOMAIN calls, MayBegin(i)
  PROVE  /\ Turn(i)
         /\ \A j \in DOMAIN calls : j < i => calls[j].stage = "finished"
         /\ \A j \in DOMAIN calls : j > i => calls[j].stage = "waiting"
         /\ ~ Asking
  <1>1. TypeOK /\ InOrder /\ calls[i].stage = "waiting"
    BY DEF IInv, MayBegin
  <1>2. \A k \in 1..(i - 1) : calls[k].done
    BY <1>1, TurnAfterEarlier
  <1>3. \A j \in DOMAIN calls : j < i => calls[j].stage = "finished"
    BY <1>1, <1>2, CallsSeq DEF ResolvedByReturn
  <1>4. ASSUME NEW j \in DOMAIN calls, j > i PROVE calls[j].stage = "waiting"
    <2>1. i \in 1..(j - 1)
      BY <1>1, <1>4, CallsSeq
    <2> QED BY <1>1, <2>1 DEF InOrder
  <1>5. i > 1 => i - 1 \in DOMAIN calls /\ i - 1 < i
    BY <1>1, CallsSeq
  <1>6. Turn(i)
    BY <1>1, <1>3, <1>5 DEF Turn
  <1>7. \A j \in DOMAIN calls : j < i \/ j = i \/ j > i
    BY <1>1, CallsSeq
  <1>8. ~ Asking
    BY <1>1, <1>3, <1>4, <1>7 DEF Asking
  <1> QED BY <1>3, <1>4, <1>6, <1>8

\* The calls before one that asks have finished, those after it wait: it began last.
LEMMA AskerOf ==
  ASSUME IInv, ResolvedByReturn, NEW i \in DOMAIN calls, calls[i].stage = "asking"
  PROVE  /\ \A j \in DOMAIN calls : j < i => calls[j].stage = "finished"
         /\ \A j \in DOMAIN calls : j > i => calls[j].stage = "waiting"
         /\ Turn(i + 1)
  <1>1. TypeOK /\ InOrder
    BY DEF IInv
  <1>2. \A j \in DOMAIN calls : j < i => calls[j].stage = "finished"
    <2>1. \A j \in DOMAIN calls : j < i => j \in 1..(i - 1)
      BY <1>1, CallsSeq
    <2> QED BY <1>1, <2>1 DEF InOrder, ResolvedByReturn
  <1>3. ASSUME NEW j \in DOMAIN calls, j > i PROVE calls[j].stage = "waiting"
    <2>1. i \in 1..(j - 1)
      BY <1>1, <1>3, CallsSeq
    <2> QED BY <1>1, <2>1 DEF InOrder, ResolvedByReturn
  <1>4. i + 1 > i /\ (i + 1) - 1 = i
    BY <1>1, CallsSeq
  <1>5. Turn(i + 1)
    BY <1>3, <1>4 DEF Turn
  <1> QED BY <1>2, <1>3, <1>5

\* Once every call has finished, the cache has the editors of the canvas.
LEMMA CacheOfCanvas ==
  ASSUME IInv, NoneLost, CacheOfLast, AllFinished, AllOpen
  PROVE  cached = ShownBy(idToEditorMap) /\ ~ Asking
  <1>1. Len(calls) \in Nat /\ DOMAIN calls = 1..Len(calls)
    BY CallsSeq DEF IInv
  <1>2. Turn(Len(calls) + 1)
    <2>1. Len(calls) + 1 \notin DOMAIN calls /\ (Len(calls) + 1) - 1 = Len(calls)
      BY <1>1
    <2>2. Len(calls) + 1 > 1 => Len(calls) \in DOMAIN calls
      BY <1>1
    <2> QED BY <2>1, <2>2 DEF Turn, AllFinished
  <1>3. Len(calls) + 1 \in 1..(Len(calls) + 1)
    BY <1>1
  <1> QED BY <1>2, <1>3 DEF CacheOfLast, NoneLost, AllFinished, Asking

\* Of two editors that use each other and stand apart, the one whose turn comes first gets
\* the arrow.
LEMMA OneOfTwo ==
  ASSUME NEW R \in SUBSET Relationship, NEW map, DOMAIN map \subseteq mounted, NEW O \in Orders,
         NEW a \in Ids, NEW b \in Ids, <<a, b>> \in Pairs(R), <<b, a>> \in Pairs(R),
         a \in Unpinned(map), b \in Unpinned(map), <<a, b>> \in O,
         <<map[a].place, map[b].place>> \notin Overlaps
  PROVE  <<a, b>> \in Arrows(R, map, O) /\ <<b, a>> \notin Arrows(R, map, O)
  <1> DEFINE considered == Considered(R, map)
             both == {pair \in considered : <<pair[2], pair[1]>> \in Pairs(R)}
             ab == <<a, b>>
             ba == <<b, a>>
  <1>1. ba \notin O
    OBVIOUS
  <1>2. ab[1] = a /\ ab[2] = b /\ ba[1] = b /\ ba[2] = a
    OBVIOUS
  <1>3. a \in mounted /\ b \in mounted
    BY DEF Unpinned
  <1>4. ab \in considered /\ ba \in considered
    BY <1>2, <1>3 DEF Considered
  <1>5. ab \in both
    BY <1>2, <1>4
  <1>6. a \in symmetricalEditors(considered, R, O)
    BY <1>1, <1>2, <1>5 DEF symmetricalEditors
  <1>7. ba \notin Arrows(R, map, O)
    BY <1>2, <1>6 DEF Arrows
  <1>8. ab \in Arrows(R, map, O)
    BY <1>1, <1>2, <1>4 DEF Arrows
  <1> QED BY <1>7, <1>8

\* The arrows after a drawing of a map whose editors are open.
LEMMA Drawn ==
  ASSUME NEW R \in SUBSET Relationship, NEW map \in Map, DOMAIN map \subseteq mounted,
         generateDependencyArrows(R, map)
  PROVE  arrows'.map = map /\ ArrowsShow(arrows'.pairs, R, map)
  <1>1. PICK O \in Orders : arrows' = [pairs |-> Arrows(R, map, O), map |-> map]
    BY DEF generateDependencyArrows
  <1> DEFINE pairs == Arrows(R, map, O)
             related == Pairs(R)
             apart == {pair \in related :
                         /\ {pair[1], pair[2]} \subseteq Unpinned(map)
                         /\ <<map[pair[1]].place, map[pair[2]].place>> \notin Overlaps}
  <1>2. related \subseteq Ids \X Ids
    BY PairsType
  <1>3. pairs \subseteq apart
    BY DEF Arrows, Considered
  <1>4. ASSUME NEW pair \in apart \ pairs
        PROVE  \E e \in Ids : {<<pair[2], e>>, <<e, pair[2]>>} \subseteq related
    <2>1. pair \in Considered(R, map)
      BY DEF Considered, Unpinned
    <2>2. pair[2] \in symmetricalEditors(Considered(R, map), R, O)
      BY <2>1 DEF Arrows
    <2>3. PICK p \in Considered(R, map) : <<p[2], p[1]>> \in related /\ pair[2] = p[1]
      BY <2>2 DEF symmetricalEditors
    <2>4. p \in related /\ p \in Ids \X Ids
      BY <1>2 DEF Considered
    <2>5. p = <<p[1], p[2]>> /\ p[2] \in Ids
      BY <2>4
    <2> QED BY <2>3, <2>4, <2>5
  <1>5. ASSUME NEW pair \in apart, <<pair[2], pair[1]>> \in related
        PROVE  pair \in pairs <=> <<pair[2], pair[1]>> \notin pairs
    <2>1. PICK a \in Ids, b \in Ids : pair = <<a, b>>
      BY <1>2
    <2>2. <<a, b>> \in related /\ <<b, a>> \in related /\ a \in Unpinned(map) /\ b \in Unpinned(map)
          /\ <<map[a].place, map[b].place>> \notin Overlaps
      BY <1>5, <2>1
    <2>3. map[a].place \in Places /\ map[b].place \in Places
      <3>1. PICK S \in SUBSET Ids : map \in [S -> Look]
        BY MapIsFunction
      <3>2. a \in S /\ b \in S
        BY <2>2, <3>1 DEF Unpinned
      <3> QED BY <3>1, <3>2 DEF Look
    <2>4. a # b /\ <<map[b].place, map[a].place>> \notin Overlaps
      BY <2>2, <2>3
    <2>5. <<a, b>> \in O \/ <<b, a>> \in O
      BY <2>4
    <2> HIDE DEF pairs, related, apart
    <2>6. <<a, b>> \in O => <<a, b>> \in pairs /\ <<b, a>> \notin pairs
      BY <2>2, OneOfTwo DEF pairs, related
    <2>7. <<b, a>> \in O => <<b, a>> \in pairs /\ <<a, b>> \notin pairs
      BY <2>2, <2>4, OneOfTwo DEF pairs, related
    <2>8. <<pair[2], pair[1]>> = <<b, a>>
      BY <2>1
    <2> QED BY <2>1, <2>5, <2>6, <2>7, <2>8
  <1>6. ArrowsShow(pairs, R, map)
    <2> HIDE DEF pairs
    <2> QED BY <1>3, <1>4, <1>5 DEF ArrowsShow
  <1> QED BY <1>1, <1>6

\* Nothing is related on an empty canvas.
LEMMA EmptyCanvas ==
  /\ ShownBy(EmptyMap) = EmptyMap /\ getSymbolRelationships(EmptyMap) = {}
  /\ Pairs({}) = {} /\ Colored({}, EmptyMap) = {} /\ ArrowsShow({}, {}, EmptyMap)
  <1>1. ShownBy(EmptyMap) = EmptyMap
    BY DEF ShownBy, EmptyMap
  <1>2. getSymbolRelationships(EmptyMap) = {}
    BY EmptyIsMap DEF getSymbolRelationships
  <1>3. Pairs({}) = {}
    BY DEF Pairs
  <1>4. Colored({}, EmptyMap) = {}
    BY <1>3, ColoredIsRelated
  <1>5. ArrowsShow({}, {}, EmptyMap)
    BY <1>3 DEF ArrowsShow
  <1> QED BY <1>1, <1>2, <1>3, <1>4, <1>5

LEMMA InitAInv == Init => AInv
  <1> SUFFICES ASSUME Init PROVE AInv
    OBVIOUS
  <1>1. calls = << >> /\ Len(calls) = 0 /\ DOMAIN calls = {} /\ DOMAIN EmptyMap = {} /\ Base(1) = EmptyMap
    BY EmptyIsMap DEF Init, Base
  <1>2. NoneLost
    BY <1>1 DEF Init, NoneLost
  <1>3. cached = ShownBy(EmptyMap) /\ getSymbolRelationships(cached) = {}
    BY EmptyCanvas DEF Init
  <1>4. CacheOfLast
    <2>1. 1..(Len(calls) + 1) = {1}
      BY <1>1
    <2> QED BY <1>1, <1>3, <2>1 DEF CacheOfLast
  <1>5. Settled
    BY <1>1, <1>3, EmptyCanvas DEF Init, Settled
  <1>6. ColorsKnown /\ DrawnNow /\ ResolvedByReturn
    BY <1>1, EmptyCanvas DEF Init, ColorsKnown, DrawnNow, ResolvedByReturn
  <1> QED BY <1>2, <1>4, <1>5, <1>6 DEF AInv, InStep

\* A call that moves on keeps its event; it has had its turn.
LEMMA EventsKept ==
  ASSUME TypeOK, NEW i \in DOMAIN calls, NEW st \in Stages, NEW d \in BOOLEAN,
         calls' = MovedOn(i, st, d), st # "waiting"
  PROVE  /\ DOMAIN calls' = DOMAIN calls
         /\ \A k \in DOMAIN calls : calls'[k].current = calls[k].current
         /\ \A k \in DOMAIN calls : calls'[k].stage = "waiting" => calls'[k] = calls[k]
         /\ calls'[i].stage = st /\ calls'[i].done = d
         /\ \A k \in DOMAIN calls : k # i => calls'[k] = calls[k]
  BY CallsSeq, Updated

LEMMA NoneLostKept ==
  ASSUME TypeOK, TypeOK', NoneLost, UNCHANGED <<idToEditorMap, mounted>>, DOMAIN calls' = DOMAIN calls,
         \A k \in DOMAIN calls : calls'[k].current = calls[k].current,
         \A k \in DOMAIN calls : calls'[k].stage = "waiting" => calls'[k] = calls[k]
  PROVE  NoneLost' /\ Len(calls') = Len(calls) /\ \A j \in 1..(Len(calls) + 1) : Base(j)' = Base(j)
  <1>1. Len(calls) \in Nat /\ DOMAIN calls = 1..Len(calls) /\ Len(calls') \in Nat
        /\ DOMAIN calls' = 1..Len(calls')
    BY CallsSeq DEF TypeOK
  <1>2. Len(calls') = Len(calls)
    BY <1>1
  <1>3. ASSUME NEW j \in 1..(Len(calls) + 1) PROVE Base(j)' = Base(j)
    <2>1. j # 1 => j - 1 \in DOMAIN calls
      BY <1>1
    <2> QED BY <2>1 DEF Base
  <1>4. \A j \in DOMAIN calls : Base(j)' = Base(j)
    BY <1>1, <1>3
  <1>5. PICK n \in Nat : n = Len(calls) + 1
    BY <1>1
  <1>6. Base(n)' = Base(n) /\ n = Len(calls') + 1
    BY <1>1, <1>2, <1>3, <1>5
  <1>7. NoneLost'
    <2>1. AllOpen' => idToEditorMap' = Base(n)'
      BY <1>5, <1>6 DEF NoneLost, AllOpen
    <2>2. AllOpen' => idToEditorMap' = Base(Len(calls) + 1)'
      BY <1>6, <2>1
    <2> QED BY <1>4, <2>2 DEF NoneLost
  <1> QED BY <1>2, <1>3, <1>7

\* The store changes: nothing happens while an editor is opening, otherwise a call comes.
LEMMA SetStep ==
  ASSUME IInv, IInv', AInv, NEW map \in Layouts, NEW New \in SUBSET Ids, Set(map, New)
  PROVE  AInv'
  <1>0. TypeOK /\ TypeOK' /\ NoneLost /\ (~ cutShort => InStep)
    BY DEF IInv, AInv
  <1>1. /\ map # idToEditorMap \/ New # {}
        /\ New \subseteq DOMAIN map \ mounted
        /\ idToEditorMap' = map /\ mounted' = mounted \cup New
        /\ UNCHANGED <<cached, relationshipsMap, arrows, colorRelationshipMap, sortedEditors, cutShort, joinedEarly>>
    BY DEF Set
  <1>2. CASE ~ (DOMAIN map \subseteq mounted') /\ UNCHANGED calls
    <2>1. ~ AllOpen'
      BY <1>1, <1>2 DEF AllOpen
    <2>2. NoneLost'
      BY <1>0, <1>1, <1>2, <2>1 DEF NoneLost, Base
    <2>3. ~ cutShort => InStep'
      BY <1>0, <1>1, <1>2, <2>1 DEF InStep, ResolvedByReturn, CacheOfLast, Turn, Base, Settled, Asking,
         ColorsKnown, DrawnNow
    <2> QED BY <1>1, <2>2, <2>3 DEF AInv
  <1>3. CASE DOMAIN map \subseteq mounted' /\ ~ UNCHANGED calls
    <2>0. PICK n \in Nat : n = Len(calls)
      BY <1>0, CallsSeq
    <2> DEFINE c == [current |-> map, previous |-> idToEditorMap, stage |-> "waiting", done |-> FALSE]
    <2>1. calls' = Append(calls, c)
      BY <1>3 DEF Set
    <2>2. c.current = map /\ c.previous = idToEditorMap /\ c.stage = "waiting" /\ ~ c.done
      OBVIOUS
    <2> HIDE DEF c
    <2>3. n \in Nat /\ DOMAIN calls = 1..n /\ calls \in Seq(Call)
      BY <1>0, <2>0, CallsSeq
    <2>4. Len(calls') = n + 1 /\ DOMAIN calls' = 1..(n + 1) /\ calls'[n + 1] = c
          /\ \A k \in 1..n : calls'[k] = calls[k]
      BY <2>0, <2>1, <2>3
    <2>5. \A j \in 1..(n + 1) : Base(j)' = Base(j)
      <3>1. \A j \in 1..(n + 1) : j # 1 => j - 1 \in 1..n
        BY <2>3
      <3> QED BY <2>4, <3>1 DEF Base
    <2>6. Base(n + 2)' = map
      <3>1. n + 2 # 1 /\ (n + 2) - 1 = n + 1
        BY <2>3
      <3> QED BY <2>2, <2>4, <3>1 DEF Base
    <2>7. n + 1 \in 1..(n + 1) /\ \A j \in 1..(n + 1) : j \in 1..n \/ j = n + 1
      BY <2>3
    <2>8. NoneLost'
      <3>1. \A i \in DOMAIN calls' : DOMAIN calls'[i].current \subseteq mounted'
        BY <1>0, <1>1, <1>3, <2>2, <2>3, <2>4, <2>7 DEF NoneLost
      <3>2. idToEditorMap' = Base(Len(calls) + 1)'
        <4>1. Len(calls') + 1 = n + 2
          BY <2>3, <2>4
        <4> QED BY <1>1, <2>6, <4>1
      <3>3. ASSUME NEW i \in DOMAIN calls', calls'[i].stage = "waiting",
                   calls'[i].current = calls'[i].previous
            PROVE  DOMAIN calls'[i].current # DOMAIN Base(i)'
        <4>1. CASE i \in 1..n
          BY <1>0, <2>3, <2>4, <2>5, <2>7, <3>3, <4>1 DEF NoneLost
        <4>2. CASE i = n + 1
          <5>1. map = idToEditorMap /\ New # {}
            BY <1>1, <2>2, <2>4, <3>3, <4>2
          <5>2. ~ (DOMAIN map \subseteq mounted)
            BY <1>1, <5>1
          <5>3. DOMAIN Base(n + 1) \subseteq mounted
            <6>1. CASE n + 1 = 1
              BY <6>1 DEF Base, EmptyMap
            <6>2. CASE n + 1 # 1
              <7>1. n \in DOMAIN calls /\ (n + 1) - 1 = n
                BY <2>3, <6>2
              <7> QED BY <1>0, <6>2, <7>1 DEF Base, NoneLost
            <6> QED BY <6>1, <6>2
          <5>4. Base(n + 1)' = Base(n + 1) /\ calls'[n + 1].current = map
            BY <2>2, <2>4, <2>5, <2>7
          <5> QED BY <4>2, <5>2, <5>3, <5>4
        <4> QED BY <2>4, <2>7, <4>1, <4>2
      <3> QED BY <3>1, <3>2, <3>3 DEF NoneLost
    <2>9. ASSUME ~ cutShort PROVE InStep'
      <3>1. ResolvedByReturn'
        BY <1>0, <2>2, <2>3, <2>4, <2>7, <2>9 DEF InStep, ResolvedByReturn
      <3>2. CacheOfLast'
        <4> SUFFICES ASSUME NEW j \in 1..(n + 2), Turn(j)' PROVE cached = ShownBy(Base(j)')
          <5>1. Len(calls') + 1 = n + 2
            BY <2>3, <2>4
          <5> QED BY <1>1, <5>1 DEF CacheOfLast
        <4>1. j # n + 2
          <5>1. n + 2 > 1 /\ (n + 2) - 1 = n + 1
            BY <2>3
          <5> QED BY <2>2, <2>4, <5>1 DEF Turn
        <4>2. j \in 1..(n + 1)
          BY <2>3, <4>1
        <4>3. j > 1 => j - 1 \in 1..n
          BY <2>3, <4>2
        <4>4. Turn(j)
          BY <2>3, <2>4, <4>2, <4>3 DEF Turn
        <4> QED BY <1>0, <2>0, <2>5, <2>9, <4>2, <4>4 DEF InStep, CacheOfLast
      <3>3. Asking' <=> Asking
        BY <2>2, <2>3, <2>4, <2>7 DEF Asking
      <3>4. ~ AllBegun' /\ ~ AllFinished'
        BY <2>2, <2>4, <2>7 DEF AllBegun, AllFinished
      <3> QED BY <1>0, <1>1, <2>9, <3>1, <3>2, <3>3, <3>4 DEF InStep, Settled, ColorsKnown, DrawnNow
    <2> QED BY <1>1, <2>8, <2>9 DEF AInv
  <1> QED BY <1>2, <1>3 DEF Set

\* The turns after call i has moved on.
LEMMA TurnsKept ==
  ASSUME TypeOK, TypeOK', DOMAIN calls' = DOMAIN calls, Len(calls') = Len(calls),
         \A k \in DOMAIN calls : calls'[k].stage = "waiting" <=> calls[k].stage = "waiting"
  PROVE  \A j \in 1..(Len(calls) + 1) : Turn(j)' <=> Turn(j)
  <1>1. \A j \in 1..(Len(calls) + 1) : j > 1 => j - 1 \in DOMAIN calls
    BY CallsSeq
  <1> QED BY <1>1 DEF Turn

\* Two maps that are not the same differ in an editor.
LEMMA MapsDiffer ==
  ASSUME NEW f \in Map, NEW g \in Map, f # g
  PROVE  shouldGenerateArrows(f, g)
  <1>1. PICK S \in SUBSET Ids : f \in [S -> Look]
    BY MapIsFunction
  <1>2. PICK T \in SUBSET Ids : g \in [T -> Look]
    BY MapIsFunction
  <1>3. ASSUME DOMAIN f = DOMAIN g PROVE \E e \in DOMAIN f : f[e] # g[e]
    BY <1>1, <1>2, <1>3
  <1> QED BY <1>3 DEF shouldGenerateArrows

\* The turn of a call: it always draws the arrows, for what it has nothing new to draw would
\* have been drawn by the call before.
LEMMA BeginStep ==
  ASSUME IInv, IInv', AInv, NEW i \in DOMAIN calls, handleStoreChange(i)
  PROVE  AInv'
  <1> DEFINE current == calls[i].current
             previous == calls[i].previous
  <1>0. TypeOK /\ TypeOK' /\ NoneLost /\ (~ cutShort => InStep) /\ InOrder
    BY DEF IInv, AInv
  <1>1. MayBegin(i) /\ UNCHANGED <<idToEditorMap, mounted, relationshipsMap, cutShort, joinedEarly>>
        /\ calls[i].stage = "waiting" /\ ~ calls[i].done
    BY <1>0 DEF handleStoreChange, MayBegin, InOrder
  <1>2. PICK st \in Stages, d \in BOOLEAN :
          /\ calls' = MovedOn(i, st, d)
          /\ \/ /\ st = "asking" /\ ~ d /\ shouldCacheAndRegenerateRelationships(current)
             \/ /\ st = "finished" /\ d /\ ~ shouldCacheAndRegenerateRelationships(current)
    BY DEF handleStoreChange, Stages
  <1>3. /\ DOMAIN calls' = DOMAIN calls
        /\ \A k \in DOMAIN calls : calls'[k].current = calls[k].current
        /\ \A k \in DOMAIN calls : calls'[k].stage = "waiting" => calls'[k] = calls[k]
        /\ calls'[i].stage = st /\ calls'[i].done = d
        /\ \A k \in DOMAIN calls : k # i => calls'[k] = calls[k]
    BY <1>0, <1>2, EventsKept
  <1>4. NoneLost' /\ Len(calls') = Len(calls) /\ \A j \in 1..(Len(calls) + 1) : Base(j)' = Base(j)
    BY <1>0, <1>1, <1>3, NoneLostKept
  <1>5. ASSUME ~ cutShort PROVE InStep'
    <2>0. InStep /\ Len(calls) \in Nat /\ DOMAIN calls = 1..Len(calls)
      BY <1>0, <1>5, CallsSeq
    <2>1. /\ Turn(i) /\ ~ Asking
          /\ \A j \in DOMAIN calls : j < i => calls[j].stage = "finished"
          /\ \A j \in DOMAIN calls : j > i => calls[j].stage = "waiting"
      BY <1>1, <2>0, TurnOf DEF InStep
    <2>2. /\ cached = ShownBy(Base(i)) /\ sortedEditors = DOMAIN cached
          /\ current \in Map /\ Base(i) \in Map /\ DOMAIN current \subseteq mounted
      <3>1. i \in 1..(Len(calls) + 1) /\ (i # 1 => i - 1 \in DOMAIN calls)
        BY <2>0
      <3>2. cached = ShownBy(Base(i)) /\ sortedEditors = DOMAIN cached
        BY <2>0, <2>1, <3>1 DEF InStep, CacheOfLast, Settled
      <3>3. current \in Map /\ Base(i) \in Map
        BY <1>0, <3>1, CallsSeq, EmptyIsMap DEF Base
      <3> QED BY <1>0, <3>2, <3>3 DEF NoneLost
    <2>3. ResolvedByReturn'
      BY <1>2, <1>3, <2>0 DEF InStep, ResolvedByReturn
    <2>4. generateDependencyArrows(relationshipsMap, current)
      <3>1. CASE st = "asking"
        BY <1>2, <3>1 DEF handleStoreChange
      <3>2. CASE st = "finished"
        <4>1. DOMAIN current = DOMAIN Base(i)
          BY <1>2, <2>2, <3>2, ShownOf DEF shouldCacheAndRegenerateRelationships
        <4>2. current # previous
          BY <1>0, <1>1, <4>1 DEF NoneLost
        <4>3. shouldGenerateArrows(current, previous)
          BY <1>0, <4>2, CallsSeq, MapsDiffer
        <4> QED BY <1>2, <3>2, <4>3 DEF handleStoreChange
      <3> QED BY <1>2, <3>1, <3>2
    <2>5. arrows'.map = current /\ ArrowsShow(arrows'.pairs, relationshipsMap, current)
      BY <1>0, <2>2, <2>4, Drawn DEF TypeOK
    <2>6. cached' = ShownBy(current)
      BY <1>2 DEF handleStoreChange, shouldCacheAndRegenerateRelationships
    <2>7. CacheOfLast'
      <3> SUFFICES ASSUME NEW j \in 1..(Len(calls) + 1), Turn(j)' PROVE cached' = ShownBy(Base(j)')
        BY <1>4 DEF CacheOfLast
      <3>1. j # i
        BY <1>2, <1>3 DEF Turn
      <3>2. ~ (j < i)
        <4>1. ASSUME j < i PROVE FALSE
          <5>1. j \in DOMAIN calls
            BY <2>0, <4>1
          <5>2. calls'[j].stage = "waiting"
            BY <1>3, <5>1 DEF Turn
          <5> QED BY <1>3, <2>1, <3>1, <4>1, <5>1, <5>2
        <4> QED BY <4>1
      <3>3. ~ (j > i + 1)
        <4>1. ASSUME j > i + 1 PROVE FALSE
          <5>1. j - 1 \in DOMAIN calls /\ j - 1 > i /\ j - 1 # i /\ j > 1
            BY <2>0, <4>1
          <5>2. calls'[j - 1].stage # "waiting"
            BY <5>1 DEF Turn
          <5> QED BY <1>3, <2>1, <5>1, <5>2
        <4> QED BY <4>1
      <3>4. j = i + 1 /\ j # 1 /\ j - 1 = i
        BY <2>0, <3>1, <3>2, <3>3
      <3> QED BY <1>3, <2>6, <3>4 DEF Base
    <2>8. Settled'
      <3>1. CASE st = "asking"
        BY <1>3, <3>1 DEF Settled, Asking
      <3>2. CASE st = "finished"
        <4>1. cached' = cached /\ colorRelationshipMap' = colorRelationshipMap
              /\ sortedEditors' \in {DOMAIN cached, sortedEditors}
          BY <1>2, <3>2 DEF handleStoreChange
        <4> QED BY <1>1, <2>0, <2>1, <2>2, <4>1 DEF InStep, Settled
      <3> QED BY <1>2, <3>1, <3>2
    <2>9. ColorsKnown'
      <3>1. CASE st = "asking"
        <4>1. clearHighlightsAndColors(current, previous)
          BY <1>2, <3>1 DEF handleStoreChange
        <4>2. colorRelationshipMap' \subseteq (DOMAIN current) \X (DOMAIN current)
          BY <4>1 DEF clearHighlightsAndColors
        <4>3. DOMAIN cached' = DOMAIN current
          BY <2>2, <2>6, ShownOf
        <4> QED BY <4>2, <4>3 DEF ColorsKnown
      <3>2. CASE st = "finished"
        <4>1. cached' = cached /\ colorRelationshipMap' = colorRelationshipMap
          BY <1>2, <3>2 DEF handleStoreChange
        <4> QED BY <1>1, <2>0, <4>1 DEF InStep, ColorsKnown
      <3> QED BY <1>2, <3>1, <3>2
    <2>10. DrawnNow'
      <3>1. SUFFICES ASSUME AllOpen, AllBegun' PROVE current = idToEditorMap
        <4>1. AllFinished' => AllBegun'
          BY DEF AllFinished, AllBegun
        <4> QED BY <1>1, <2>5, <4>1 DEF DrawnNow, AllOpen
      <3>2. i = Len(calls)
        <4>1. ASSUME i # Len(calls) PROVE FALSE
          <5>1. Len(calls) \in DOMAIN calls /\ Len(calls) > i
            BY <2>0, <4>1
          <5> QED BY <1>3, <2>1, <3>1, <4>1, <5>1 DEF AllBegun
        <4> QED BY <4>1
      <3>3. Len(calls) + 1 # 1 /\ (Len(calls) + 1) - 1 = i
        BY <2>0, <3>2
      <3> QED BY <1>0, <3>1, <3>3 DEF NoneLost, Base
    <2> QED BY <2>3, <2>7, <2>8, <2>9, <2>10 DEF InStep
  <1> QED BY <1>1, <1>4, <1>5 DEF AInv

\* The relationships arrive: the call that asked began last.
LEMMA AnswerStep ==
  ASSUME IInv, IInv', AInv, NEW i \in DOMAIN calls, generateRelationshipMap(i)
  PROVE  AInv'
  <1> DEFINE current == calls[i].current
  <1>0. TypeOK /\ TypeOK' /\ NoneLost /\ (~ cutShort => InStep)
    BY DEF IInv, AInv
  <1>1. /\ calls[i].stage = "asking" /\ sortedEditors' = DOMAIN cached
        /\ relationshipsMap' = getSymbolRelationships(ShownBy(current))
        /\ generateEditorHighlightsAndColors(relationshipsMap', current)
        /\ generateDependencyArrows(relationshipsMap', current)
        /\ calls' = MovedOn(i, "finished", TRUE)
        /\ UNCHANGED <<idToEditorMap, mounted, cached, cutShort, joinedEarly>>
    BY DEF generateRelationshipMap, buildRelationshipGraph
  <1>2. /\ DOMAIN calls' = DOMAIN calls
        /\ \A k \in DOMAIN calls : calls'[k].current = calls[k].current
        /\ \A k \in DOMAIN calls : calls'[k].stage = "waiting" => calls'[k] = calls[k]
        /\ calls'[i].stage = "finished" /\ calls'[i].done
        /\ \A k \in DOMAIN calls : k # i => calls'[k] = calls[k]
    BY <1>0, <1>1, EventsKept DEF Stages
  <1>3. NoneLost' /\ Len(calls') = Len(calls) /\ \A j \in 1..(Len(calls) + 1) : Base(j)' = Base(j)
    BY <1>0, <1>1, <1>2, NoneLostKept
  <1>4. ASSUME ~ cutShort PROVE InStep'
    <2>0. InStep /\ Len(calls) \in Nat /\ DOMAIN calls = 1..Len(calls)
      BY <1>0, <1>4, CallsSeq
    <2>1. /\ \A j \in DOMAIN calls : j > i => calls[j].stage = "waiting"
          /\ Turn(i + 1)
      BY <1>1, <2>0, AskerOf DEF InStep
    <2>2. cached = ShownBy(current)
      <3>1. i + 1 \in 1..(Len(calls) + 1) /\ i + 1 # 1 /\ (i + 1) - 1 = i
        BY <2>0
      <3>2. Base(i + 1) = current
        BY <3>1 DEF Base
      <3> QED BY <2>0, <2>1, <3>1, <3>2 DEF InStep, CacheOfLast
    <2>3. ResolvedByReturn'
      BY <1>2, <2>0 DEF InStep, ResolvedByReturn
    <2>4. CacheOfLast'
      <3>1. \A k \in DOMAIN calls : calls'[k].stage = "waiting" <=> calls[k].stage = "waiting"
        BY <1>1, <1>2
      <3>2. \A j \in 1..(Len(calls) + 1) : Turn(j)' <=> Turn(j)
        BY <1>0, <1>2, <1>3, <3>1, TurnsKept
      <3> QED BY <1>1, <1>3, <2>0, <3>2 DEF InStep, CacheOfLast
    <2>5. /\ current \in Map /\ DOMAIN current \subseteq mounted /\ cached \in Shown
          /\ relationshipsMap' \in SUBSET Relationship
      BY <1>0, CallsSeq DEF NoneLost, TypeOK
    <2> HIDE DEF current
    <2>6. Settled' /\ ColorsKnown'
      <3>1. Unpinned(cached) = Unpinned(current) /\ DOMAIN cached = DOMAIN current
        BY <2>2, <2>5, ShownOf
      <3>2. Colored(relationshipsMap', cached) = Colored(relationshipsMap', current)
        BY <3>1 DEF Colored
      <3>3. relationshipsMap' = getSymbolRelationships(cached)
        BY <1>1, <2>2
      <3>4. colorRelationshipMap' = colorRelationshipMap \cup Colored(relationshipsMap', cached)
        BY <1>1, <3>2 DEF generateEditorHighlightsAndColors
      <3>5. Colored(relationshipsMap', cached) \subseteq (DOMAIN cached) \X (DOMAIN cached)
        BY <2>5, <3>3, FoundType, ColoredIsRelated
      <3>6. Pairs(relationshipsMap' \ getSymbolRelationships(cached)) = {}
        <4>1. relationshipsMap' \ getSymbolRelationships(cached) = {}
          BY <3>3
        <4> QED BY <4>1, EmptyCanvas
      <3>7. Settled'
        BY <1>1, <3>3, <3>4, <3>6 DEF Settled
      <3>8. ColorsKnown'
        BY <1>1, <2>0, <3>4, <3>5 DEF InStep, ColorsKnown
      <3> QED BY <3>7, <3>8
    <2>7. arrows'.map = current /\ ArrowsShow(arrows'.pairs, relationshipsMap', current)
      BY <1>1, <2>5, Drawn
    <2>9. DrawnNow'
      <3>1. ASSUME AllOpen, AllBegun' PROVE current = idToEditorMap
        <4>1. i = Len(calls)
          <5>1. ASSUME i # Len(calls) PROVE FALSE
            <6>1. Len(calls) \in DOMAIN calls /\ Len(calls) > i
              BY <2>0, <5>1
            <6> QED BY <1>2, <2>1, <3>1, <5>1, <6>1 DEF AllBegun
          <5> QED BY <5>1
        <4>2. Len(calls) + 1 # 1 /\ (Len(calls) + 1) - 1 = i
          BY <2>0, <4>1
        <4> QED BY <1>0, <3>1, <4>2 DEF NoneLost, Base, current
      <3>2. AllFinished' => AllBegun'
        BY DEF AllFinished, AllBegun
      <3> QED BY <1>1, <2>7, <3>1, <3>2 DEF DrawnNow, AllOpen
    <2> QED BY <2>3, <2>4, <2>6, <2>9 DEF InStep
  <1> QED BY <1>1, <1>3, <1>4 DEF AInv

\* A request fails, or a timer fires.
LEMMA CutShortStep ==
  ASSUME IInv, IInv', AInv, NEW i \in DOMAIN calls, RelationshipsFail(i) \/ Timeout(i)
  PROVE  AInv'
  <1>0. TypeOK /\ TypeOK' /\ NoneLost /\ calls[i] \in Call
    BY CallsSeq DEF IInv, AInv
  <1>1. PICK st \in Stages, d \in BOOLEAN : calls' = MovedOn(i, st, d) /\ st # "waiting"
    <2>1. calls[i].stage \in Stages /\ calls[i].done \in BOOLEAN
      BY <1>0 DEF Call
    <2> QED BY <1>0, <2>1, TimedOutHasBegun DEF RelationshipsFail, Timeout, Stages
  <1>2. UNCHANGED <<idToEditorMap, mounted>> /\ cutShort'
    BY DEF RelationshipsFail, Timeout
  <1>3. NoneLost'
    BY <1>0, <1>1, <1>2, EventsKept, NoneLostKept
  <1> QED BY <1>2, <1>3 DEF AInv

\* The store's map is drawn, with what is known and perhaps a pair more.
LEMMA RedrawStep ==
  ASSUME IInv, IInv', AInv, UNCHANGED <<idToEditorMap, mounted, calls, cached, sortedEditors, cutShort>>,
         generateDependencyArrows(relationshipsMap', idToEditorMap),
         relationshipsMap \subseteq relationshipsMap', Pairs(relationshipsMap' \ relationshipsMap) \subseteq Joined,
         colorRelationshipMap \subseteq colorRelationshipMap',
         joinedEarly' \/ (~ joinedEarly /\ colorRelationshipMap' = colorRelationshipMap)
           \/ (~ joinedEarly /\ ~ Asking /\ colorRelationshipMap' \subseteq colorRelationshipMap \cup Pairs(relationshipsMap'))
  PROVE  AInv'
  <1>0. TypeOK /\ TypeOK' /\ NoneLost /\ (~ cutShort => InStep)
    BY DEF IInv, AInv
  <1>1. NoneLost'
    BY <1>0, NoneLostKept
  <1>2. ASSUME ~ cutShort PROVE InStep'
    <2>0. InStep
      BY <1>0, <1>2
    <2>1. ResolvedByReturn' /\ CacheOfLast'
      BY <2>0 DEF InStep, ResolvedByReturn, CacheOfLast, Turn, Base
    <2>2. (Asking' <=> Asking) /\ (AllFinished' <=> AllFinished) /\ (AllOpen' <=> AllOpen)
      BY DEF Asking, AllFinished, AllOpen
    <2> DEFINE found == getSymbolRelationships(cached)
    <2>3. ASSUME ~ Asking PROVE Pairs(relationshipsMap' \ found) \subseteq Joined
      <3>1. Pairs(relationshipsMap \ found) \subseteq Joined
        BY <2>0, <2>3 DEF InStep, Settled
      <3> QED BY <3>1 DEF Pairs
    <2>4. Settled'
      BY <2>0, <2>2, <2>3 DEF InStep, Settled
    <2>5. ColorsKnown'
      <3>1. Pairs(found) \subseteq (DOMAIN cached) \X (DOMAIN cached)
        BY <1>0, FoundType DEF TypeOK
      <3>2. ~ Asking => Pairs(relationshipsMap') \subseteq ((DOMAIN cached) \X (DOMAIN cached)) \cup Joined
        BY <2>3, <3>1 DEF Pairs
      <3> HIDE DEF found
      <3> QED BY <2>0, <3>2 DEF InStep, ColorsKnown
    <2>6. arrows'.map = idToEditorMap
          /\ (AllOpen => ArrowsShow(arrows'.pairs, relationshipsMap', idToEditorMap))
      BY <1>0, Drawn, DrawType DEF TypeOK, AllOpen
    <2>7. DrawnNow'
      BY <2>2, <2>6 DEF DrawnNow
    <2> QED BY <2>1, <2>4, <2>5, <2>7 DEF InStep
  <1> QED BY <1>1, <1>2 DEF AInv

LEMMA NextAInv == IInv /\ AInv /\ [Next]_vars => AInv'
  <1> SUFFICES ASSUME IInv, AInv, [Next]_vars PROVE AInv'
    OBVIOUS
  <1>0. IInv'
    BY NextIInv
  <1>1. CASE UNCHANGED vars
    <2>1. NoneLost' <=> NoneLost
      BY <1>1 DEF vars, NoneLost, AllOpen, Base
    <2>2. (ResolvedByReturn' <=> ResolvedByReturn) /\ (CacheOfLast' <=> CacheOfLast)
      BY <1>1 DEF vars, ResolvedByReturn, CacheOfLast, Turn, Base
    <2>3. (Settled' <=> Settled) /\ (ColorsKnown' <=> ColorsKnown)
      BY <1>1 DEF vars, Settled, ColorsKnown, Asking
    <2>4. DrawnNow' <=> DrawnNow
      BY <1>1 DEF vars, DrawnNow, AllOpen, AllBegun, AllFinished
    <2>5. cutShort' = cutShort
      BY <1>1 DEF vars
    <2> QED BY <2>1, <2>2, <2>3, <2>4, <2>5 DEF AInv, InStep
  <1>2. CASE refreshDependencyArrows
    <2>1. relationshipsMap' = relationshipsMap /\ relationshipsMap' \ relationshipsMap = {}
      BY <1>2 DEF refreshDependencyArrows
    <2> QED BY <1>0, <1>2, <2>1, EmptyCanvas, RedrawStep DEF refreshDependencyArrows, IInv, TypeOK
  <1>3. ASSUME NEW join \in Joined, unconditionallyAddRelationship(join[1], join[2]) PROVE AInv'
    <2>1. relationshipsMap \subseteq relationshipsMap'
          /\ Pairs(relationshipsMap' \ relationshipsMap) \subseteq Joined
      <3>1. \A r \in relationshipsMap' \ relationshipsMap : r.from = join[1] /\ r.to = join[2]
        BY <1>3 DEF unconditionallyAddRelationship
      <3>2. join = <<join[1], join[2]>>
        OBVIOUS
      <3>3. Pairs(relationshipsMap' \ relationshipsMap) \subseteq Joined
        BY <3>1, <3>2 DEF Pairs
      <3> QED BY <1>3, <3>3 DEF unconditionallyAddRelationship
    <2>2. colorRelationshipMap \subseteq colorRelationshipMap'
          /\ colorRelationshipMap' \subseteq colorRelationshipMap \cup Pairs(relationshipsMap')
      BY <1>3, ColoredIsRelated DEF unconditionallyAddRelationship, generateEditorHighlightsAndColors
    <2>3. joinedEarly' \/ (~ joinedEarly /\ ~ Asking)
      BY <1>3 DEF unconditionallyAddRelationship, Asking
    <2> QED BY <1>0, <1>3, <2>1, <2>2, <2>3, RedrawStep DEF unconditionallyAddRelationship
  <1> QED BY <1>0, <1>1, <1>2, <1>3, SetStep, BeginStep, AnswerStep, CutShortStep DEF Next

\* As long as no timer fires and no request fails, once the queue is empty and every editor
\* is open, the relationships, the arrows, the sorted list and the colors are those of the
\* canvas, although the middleware ignores the changes made while an editor opens, serves the
\* others late and one after the other, and the user draws, moves, pins and joins meanwhile;
\* and the loop of generateDependencyArrows, in whatever order it meets the editors, gives two
\* that depend on each other one arrow and leaves out no other but to such an editor.
THEOREM ArrowsAreOfCanvas == Spec => []ArrowsOfCanvas
  <1>1. ASSUME IInv, AInv PROVE ArrowsOfCanvas
    <2> DEFINE found == getSymbolRelationships(ShownBy(idToEditorMap))
    <2> SUFFICES ASSUME ~ cutShort, AllFinished, AllOpen
                 PROVE  /\ found \subseteq relationshipsMap
                        /\ Pairs(relationshipsMap \ found) \subseteq Joined
                        /\ arrows.map = idToEditorMap
                        /\ ArrowsShow(arrows.pairs, relationshipsMap, idToEditorMap)
                        /\ sortedEditors = DOMAIN idToEditorMap
                        /\ Colored(found, idToEditorMap) \subseteq colorRelationshipMap
                        /\ \/ joinedEarly
                           \/ colorRelationshipMap
                                \subseteq ((DOMAIN idToEditorMap) \X (DOMAIN idToEditorMap)) \cup Joined
      BY DEF ArrowsOfCanvas, AllFinished, AllOpen
    <2>1. cached = ShownBy(idToEditorMap) /\ ~ Asking /\ AllBegun
      BY <1>1, CacheOfCanvas DEF AInv, InStep, AllFinished, AllBegun
    <2>2. DOMAIN cached = DOMAIN idToEditorMap /\ Unpinned(cached) = Unpinned(idToEditorMap)
      BY <1>1, <2>1, ShownOf DEF IInv, TypeOK
    <2>3. found = getSymbolRelationships(cached) /\ Colored(found, idToEditorMap) = Colored(found, cached)
      BY <2>1, <2>2 DEF Colored
    <2> HIDE DEF found
    <2> QED BY <1>1, <2>1, <2>2, <2>3 DEF AInv, InStep, Settled, ColorsKnown, DrawnNow
  <1> QED BY <1>1, InitIInv, NextIInv, InitAInv, NextAInv, PTL DEF Spec
=============================================================================
