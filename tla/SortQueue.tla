------------------------------ MODULE SortQueue ------------------------------
(***************************************************************************)
(* The queue of SpatialSortMiddleware: every change of the editors starts a*)
(* call of handleStoreChange, which waits for the queue item of the call   *)
(* before it, may ask the language servers how the editors depend on each  *)
(* other, and draws the dependency arrows.  A timer completes the item of a*)
(* call after five seconds, answered or not.  All timers run for the same  *)
(* time, so they fire in the order of the calls, and a timer fires only    *)
(* when the calls that could go on have done so (microtasks come first).   *)
(***************************************************************************)
EXTENDS Naturals, Sequences

CONSTANTS
  Ids,           \* code editors; one that is opened again, in a new pane, is another member
  Places,        \* the positions and sizes of an editor
  Overlaps,      \* the pairs of places of which one reaches the middle of the other
  Symbols, File, \* the ranges an editor may show; File: none, it shows its whole file
  Dependencies,  \* which editor uses which: <<user, its symbol, used, its symbol>>
  Orders,        \* the orders in which the keys of the relationshipsMap may come
  Layouts,       \* the maps considered
  Joined,        \* the pairs of editors the user may join by going to a definition
  MaxCalls       \* bound of the calls

\* What the middleware reads of an editor, and an idToEditorMap of such editors.
Look == [place : Places, isPinned : BOOLEAN, symbol : Symbols]
Map == UNION { [S -> Look] : S \in SUBSET Ids }

ASSUME SortAssumption ==
  /\ MaxCalls \in Nat
  /\ Layouts \subseteq Map
  /\ Joined \subseteq Ids \X Ids
  /\ \A O \in Orders : \A x, y \in Ids :
       <<x, y>> \in O <=> x # y /\ <<y, x>> \notin O
  /\ File \in Symbols
  /\ \A p \in Places : <<p, p>> \in Overlaps
  /\ \A p, q \in Places : <<p, q>> \in Overlaps => <<q, p>> \in Overlaps

\* An entry of the relationshipsMap.
Relationship == [from : Ids, to : Ids, type : {"SAME_FILE", "SYMBOL_DEPENDENCY"}]

\* What the cache is compared by.
Shown == UNION { [S -> [isPinned : BOOLEAN, symbol : Symbols]] : S \in SUBSET Ids }

EmptyMap == [e \in {} |-> FALSE]

\* finished: the call has returned, or died of an error.
Stages == {"waiting", "asking", "finished"}

\* current and previous: the event's maps, the second until the call's turn.
\* done: the call's queue item is resolved.
Call == [current : Map, previous : Map, stage : Stages, done : BOOLEAN]

VARIABLES
  idToEditorMap,   \* the store's map
  mounted,         \* the editors that have got their panes, or need none
  calls,           \* the calls that got a queue item, in the order they came
  cached,          \* the editors the sorter has cached
  relationshipsMap,      \* how editors depend on each other, as far as known
  arrows,                \* the map the arrows were last drawn from, the pairs they join
  colorRelationshipMap,  \* the pairs that have a color and highlights
  sortedEditors,   \* the editors of the store's sorted list
  cutShort,        \* a timer has completed an item, or a request has failed
  joinedEarly      \* a pair was joined while a request was under way

vars == <<idToEditorMap, mounted, calls, cached, relationshipsMap, arrows, colorRelationshipMap,
          sortedEditors, cutShort, joinedEarly>>

TypeOK ==
  /\ idToEditorMap \in Map
  /\ mounted \subseteq Ids
  /\ calls \in Seq(Call)
  /\ cached \in Shown
  /\ relationshipsMap \subseteq Relationship
  /\ arrows \in [pairs : SUBSET (Ids \X Ids), map : Map]
  /\ arrows.pairs \subseteq (DOMAIN arrows.map) \X (DOMAIN arrows.map)
  /\ colorRelationshipMap \subseteq Ids \X Ids
  /\ sortedEditors \subseteq Ids
  /\ cutShort \in BOOLEAN
  /\ joinedEarly \in BOOLEAN

Init ==
  /\ idToEditorMap = EmptyMap
  /\ mounted = {}
  /\ calls = << >>
  /\ cached = EmptyMap
  /\ relationshipsMap = {}
  /\ arrows = [pairs |-> {}, map |-> EmptyMap]
  /\ colorRelationshipMap = {}
  /\ sortedEditors = {}
  /\ cutShort = FALSE
  /\ joinedEarly = FALSE
-----------------------------------------------------------------------------
ShownBy(map) == [e \in DOMAIN map |-> [isPinned |-> map[e].isPinned, symbol |-> map[e].symbol]]

\* The cache compares the editors, their panes, pins and symbols, not where they stand.
shouldCacheAndRegenerateRelationships(map) == ShownBy(map) # cached

\* Mutant of shouldGenerateArrows: an editor that has moved is not noticed.
shouldGenerateArrowsUnmoved(current, previous) == DOMAIN current # DOMAIN previous

shouldGenerateArrows(current, previous) ==
  DOMAIN current = DOMAIN previous
    => \E e \in DOMAIN current : current[e] # previous[e]

\* Mutant of MayBegin: the call before is not waited for.
MayBeginAtOnce(i) == calls[i].stage = "waiting"

\* The queue item before is resolved, or there is none.
MayBegin(i) == calls[i].stage = "waiting" /\ (i > 1 => calls[i - 1].done)

\* Every call that can go on without the outside has done so.
Quiet == \A i \in DOMAIN calls : ~ MayBegin(i)

\* The calls after call i has come to stage; it does not read the previous map again.
MovedOn(i, stage, done) ==
  [calls EXCEPT ![i] = [@ EXCEPT !.stage = stage, !.done = done, !.previous = EmptyMap]]

\* The editors of the map that are not pinned.
Unpinned(map) == {e \in DOMAIN map : ~ map[e].isPinned}

\* The pairs of editors the relationships R join.
Pairs(R) == {<<r.from, r.to>> : r \in R}

\* The pairs of which arrows are considered: the user has got its pane, neither is pinned.
Considered(R, map) ==
  {pair \in Pairs(R) : /\ pair[1] \in mounted
                       /\ {pair[1], pair[2]} \subseteq Unpinned(map)}

\* The symmetricalEditors of the loop over the keys in order O.  An editor is added in its
\* turn if it depends both ways on an editor that was not; of such two the one whose turn
\* comes first is added.
symmetricalEditors(considered, R, O) ==
  LET both == {pair \in considered : <<pair[2], pair[1]>> \in Pairs(R)}
  IN {pair[1] : pair \in {p \in both : ~ (<<p[2], p[1]>> \in both /\ <<p[2], p[1]>> \in O)}}

\* The pairs joined by an arrow.  None points to an editor that is in symmetricalEditors by
\* then, and none joins editors one of which is inside the other.
Arrows(R, map, O) ==
  LET considered == Considered(R, map)
      symmetrical == symmetricalEditors(considered, R, O)
  IN {pair \in considered :
        /\ ~ (pair[2] \in symmetrical /\ <<pair[2], pair[1]>> \in O)
        /\ <<map[pair[1]].place, map[pair[2]].place>> \notin Overlaps}

\* Mutant of generateDependencyArrows: an editor that is gone still has arrows.
drawUnknown(R, map) ==
  \E O \in Orders :
    arrows' = [pairs |-> Arrows(R, map, O)
                           \cup {pair \in Pairs(R) : pair[1] \notin DOMAIN map \/ pair[2] \notin DOMAIN map},
               map |-> map]

generateDependencyArrows(R, map) ==
  \E O \in Orders : arrows' = [pairs |-> Arrows(R, map, O), map |-> map]

\* The pairs that are to have a color: symbols that depend on each other, not pinned.
Colored(R, map) ==
  Pairs({r \in R : r.type = "SYMBOL_DEPENDENCY"}) \cap (Unpinned(map) \X Unpinned(map))

\* Such pairs get a color, unless they have one.
generateEditorHighlightsAndColors(R, map) ==
  colorRelationshipMap' = colorRelationshipMap \cup Colored(R, map)

\* A color stays if both editors are there, and are as they were before the change.
clearHighlightsAndColors(current, previous) ==
  LET same == {e \in DOMAIN current \cap DOMAIN previous :
                 ShownBy(current)[e] = ShownBy(previous)[e]}
  IN colorRelationshipMap' = colorRelationshipMap \cap (same \X same)

\* What the language servers find: the editors whose symbols use the symbol of another, and
\* those that show a part of the file that another shows.
getSymbolRelationships(shown) ==
  {[from |-> pair[1], to |-> pair[2],
    type |-> IF shown[pair[2]].symbol = File THEN "SAME_FILE" ELSE "SYMBOL_DEPENDENCY"] :
     pair \in {p \in (DOMAIN shown) \X (DOMAIN shown) :
                 /\ p[1] # p[2]
                 /\ <<p[1], shown[p[1]].symbol, p[2], shown[p[2]].symbol>> \in Dependencies}}

buildRelationshipGraph(map) == relationshipsMap' = getSymbolRelationships(ShownBy(map))
-----------------------------------------------------------------------------
\* set({idToEditorMap: map}), in which the editors New have got their panes.  While one
\* is still opening the middleware does nothing.
Set(map, New) ==
  /\ map # idToEditorMap \/ New # {}
  /\ New \subseteq DOMAIN map \ mounted
  /\ idToEditorMap' = map
  /\ mounted' = mounted \cup New
  /\ \/ /\ ~ (DOMAIN map \subseteq mounted')
        /\ UNCHANGED calls
     \/ /\ DOMAIN map \subseteq mounted'
        /\ Len(calls) < MaxCalls
        /\ calls' = Append(calls, [current |-> map, previous |-> idToEditorMap,
                                   stage |-> "waiting", done |-> FALSE])
  /\ UNCHANGED <<cached, relationshipsMap, arrows, colorRelationshipMap, sortedEditors, cutShort,
                 joinedEarly>>

\* The call's turn: it asks for the relationships of the editors it caches, or draws
\* the arrows from those it knows, or has nothing to do.
handleStoreChange(i) ==
  LET current == calls[i].current
      Asks ==
        /\ shouldCacheAndRegenerateRelationships(current)
        /\ cached' = ShownBy(current)
        /\ generateDependencyArrows(relationshipsMap, current)
        /\ clearHighlightsAndColors(current, calls[i].previous)
        /\ calls' = MovedOn(i, "asking", FALSE)
        /\ UNCHANGED sortedEditors
      Returns ==
        /\ ~ shouldCacheAndRegenerateRelationships(current)
        /\ calls' = MovedOn(i, "finished", TRUE)
        /\ UNCHANGED <<cached, colorRelationshipMap>>
  IN /\ MayBegin(i)
     /\ \/ Asks
        \/ /\ Returns
           /\ shouldGenerateArrows(current, calls[i].previous)
           /\ generateDependencyArrows(relationshipsMap, current)
           /\ sortedEditors' = DOMAIN cached
        \/ /\ Returns
           /\ ~ shouldGenerateArrows(current, calls[i].previous)
           /\ UNCHANGED <<arrows, sortedEditors>>
     /\ UNCHANGED <<idToEditorMap, mounted, relationshipsMap, cutShort, joinedEarly>>

\* The relationships arrive: they are of the editors the call asked about.
generateRelationshipMap(i) ==
  LET current == calls[i].current
  IN /\ calls[i].stage = "asking"
     /\ buildRelationshipGraph(current)
     /\ generateEditorHighlightsAndColors(relationshipsMap', current)
     /\ sortedEditors' = DOMAIN cached
     /\ generateDependencyArrows(relationshipsMap', current)
     /\ calls' = MovedOn(i, "finished", TRUE)
     /\ UNCHANGED <<idToEditorMap, mounted, cached, cutShort, joinedEarly>>

\* The request fails: the call dies, its item stays unresolved until the timer fires.
RelationshipsFail(i) ==
  /\ calls[i].stage = "asking"
  /\ calls' = MovedOn(i, "finished", calls[i].done)
  /\ cutShort' = TRUE
  /\ UNCHANGED <<idToEditorMap, mounted, cached, relationshipsMap, arrows, colorRelationshipMap,
                 sortedEditors, joinedEarly>>

\* Mutant of Timeout: a timer only completes the item of a call that has returned.
TimeoutFinished(i) ==
  /\ calls[i].stage = "finished" /\ calls[i].done
  /\ UNCHANGED vars

\* "Five second timeout to avoid deadlocking."
Timeout(i) ==
  /\ Quiet
  /\ ~ calls[i].done
  /\ \A j \in 1..(i - 1) : calls[j].done
  /\ calls' = MovedOn(i, calls[i].stage, TRUE)
  /\ cutShort' = TRUE
  /\ UNCHANGED <<idToEditorMap, mounted, cached, relationshipsMap, arrows, colorRelationshipMap,
                 sortedEditors, joinedEarly>>

\* refreshDependencyArrows, and a change of the scale: the store's map is drawn.
refreshDependencyArrows ==
  /\ generateDependencyArrows(relationshipsMap, idToEditorMap)
  /\ UNCHANGED <<idToEditorMap, mounted, calls, cached, relationshipsMap, colorRelationshipMap,
                 sortedEditors, cutShort, joinedEarly>>

\* The user goes to a definition, or opens one from the list of dependencies: the editor
\* that was there is joined with the one that was opened.  The first may be gone by then, and
\* a function that calls itself is joined to itself.
unconditionallyAddRelationship(from, to) ==
  /\ {from, to} \cap DOMAIN idToEditorMap # {}
  /\ {from, to} \subseteq DOMAIN idToEditorMap \cup mounted
  /\ relationshipsMap' =
       relationshipsMap \cup {[from |-> from, to |-> to, type |-> "SYMBOL_DEPENDENCY"]}
  /\ generateEditorHighlightsAndColors(relationshipsMap', idToEditorMap)
  /\ generateDependencyArrows(relationshipsMap', idToEditorMap)
  /\ joinedEarly' = (joinedEarly \/ \E i \in DOMAIN calls : calls[i].stage = "asking")
  /\ UNCHANGED <<idToEditorMap, mounted, calls, cached, sortedEditors, cutShort>>

Next ==
  \/ \E map \in Layouts, New \in SUBSET Ids : Set(map, New)
  \/ \E i \in DOMAIN calls : handleStoreChange(i)
  \/ \E i \in DOMAIN calls : generateRelationshipMap(i)
  \/ \E i \in DOMAIN calls : RelationshipsFail(i)
  \/ \E i \in DOMAIN calls : Timeout(i)
  \/ refreshDependencyArrows
  \/ \E join \in Joined : unconditionallyAddRelationship(join[1], join[2])

\* The JavaScript engine runs what can run and fires the timers that are due; nothing
\* makes a language server answer.
Fairness ==
  /\ WF_vars(\E i \in DOMAIN calls : handleStoreChange(i))
  /\ WF_vars(\E i \in DOMAIN calls : Timeout(i))

Spec == Init /\ [][Next]_vars /\ Fairness
-----------------------------------------------------------------------------
\* Calls take their turns in the order of the changes, and two overlap only if the timer
\* of the earlier one has fired.
OneSortAtATime ==
  \A i, j \in DOMAIN calls :
    i < j /\ calls[j].stage # "waiting" => calls[i].stage # "waiting" /\ calls[i].done

\* What arrows between the editors of a map are to be.  An arrow joins two editors that are
\* related, not pinned and apart.  One is missing only if its target depends on some editor
\* both ways, and two that depend on each other have one arrow, not two and not none.
ArrowsShow(pairs, R, map) ==
  LET related == Pairs(R)
      apart == {pair \in related :
                  /\ {pair[1], pair[2]} \subseteq Unpinned(map)
                  /\ <<map[pair[1]].place, map[pair[2]].place>> \notin Overlaps}
  IN /\ pairs \subseteq apart
     /\ \A pair \in apart \ pairs :
          \E e \in Ids : {<<pair[2], e>>, <<e, pair[2]>>} \subseteq related
     /\ \A pair \in apart :
          <<pair[2], pair[1]>> \in related => (pair \in pairs <=> <<pair[2], pair[1]>> \notin pairs)

\* If no timer has fired and no request has failed, then once every call has returned and
\* every editor is open, the relationships known are those of the canvas and pairs the user
\* joined, the arrows show them where the editors stand, the sorted list has the editors of
\* the canvas, and related symbols have a color.  Colors are of editors of the canvas; a pair
\* the user joined may keep its color after an editor of it was closed, and others may only
\* if the user joined a pair while a request was under way, which colors what was known
\* before the request.
ArrowsOfCanvas ==
  LET canvas == DOMAIN idToEditorMap
      found == getSymbolRelationships(ShownBy(idToEditorMap))
  IN /\ ~ cutShort
     /\ \A i \in DOMAIN calls : calls[i].stage = "finished"
     /\ canvas \subseteq mounted
     => /\ found \subseteq relationshipsMap
        /\ Pairs(relationshipsMap \ found) \subseteq Joined
        /\ arrows.map = idToEditorMap
        /\ ArrowsShow(arrows.pairs, relationshipsMap, idToEditorMap)
        /\ sortedEditors = canvas
        /\ Colored(found, idToEditorMap) \subseteq colorRelationshipMap
        /\ joinedEarly \/ colorRelationshipMap \subseteq (canvas \X canvas) \cup Joined

\* Whatever the language servers do, every call gets its turn.
EveryCallBegins ==
  \A i \in 1..MaxCalls :
    (i \in DOMAIN calls /\ calls[i].stage = "waiting")
      ~> (i \in DOMAIN calls /\ calls[i].stage # "waiting")
=============================================================================
