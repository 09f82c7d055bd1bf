----------------------- MODULE CanvasWorkspacesProofs -----------------------
(***************************************************************************)
(* The stored list of canvas workspaces is sound for every set of          *)
(* workspaces, of editor groups and of clicks handled at once, through any *)
(* number of restarts and crashes of the window.                           *)
(***************************************************************************)
EXTENDS CanvasWorkspaces, SequenceTheorems, TLAPS

USE WorkspacesAssumption, NoWorkspaceAssumption

\* What a list holds under id, and that it holds nothing twice.
Entries(list, id) == {list[i] : i \in Places(list, id)}

Once(list) == \A i, j \in DOMAIN list : list[i].uniqueId = list[j].uniqueId => i = j

\* A list that differs from another one only in what it holds under id.
Changed(new, list, id) ==
  /\ new \in Seq(Workspace)
  /\ Once(new)
  /\ \A d : d # id => Entries(new, d) = Entries(list, d)
-----------------------------------------------------------------------------
\* In a list that holds nothing twice findIndex finds the only place.
LEMMA FindOnly ==
  ASSUME NEW list \in Seq(Workspace), Once(list), NEW i \in DOMAIN list
  PROVE  /\ Places(list, list[i].uniqueId) = {i}
         /\ findIndex(list, list[i].uniqueId) = i
  <1>1. i \in Nat /\ i > 0
    OBVIOUS
  <1>2. Places(list, list[i].uniqueId) = {i}
    BY DEF Places, Once
  <1> QED BY <1>1, <1>2 DEF findIndex

LEMMA FindSome ==
  ASSUME NEW list \in Seq(Workspace), Once(list), NEW id
  PROVE  \/ /\ findIndex(list, id) = 0
            /\ Places(list, id) = {}
         \/ /\ findIndex(list, id) \in 1 .. Len(list)
            /\ list[findIndex(list, id)].uniqueId = id
            /\ Places(list, id) = {findIndex(list, id)}
  <1>1. CASE Places(list, id) = {}
    BY <1>1 DEF findIndex
  <1>2. ASSUME NEW i \in Places(list, id)
        PROVE  /\ findIndex(list, id) \in 1 .. Len(list)
               /\ list[findIndex(list, id)].uniqueId = id
               /\ Places(list, id) = {findIndex(list, id)}
    <2>1. i \in DOMAIN list /\ list[i].uniqueId = id /\ DOMAIN list = 1 .. Len(list)
      BY DEF Places
    <2> QED BY <2>1, FindOnly
  <1> QED BY <1>1, <1>2

\* Adding a workspace under a new id.
LEMMA Adds ==
  ASSUME NEW list \in Seq(Workspace), Once(list), NEW w \in Workspace, Places(list, w.uniqueId) = {}
  PROVE  /\ Changed(Append(list, w), list, w.uniqueId)
         /\ Entries(Append(list, w), w.uniqueId) = {w}
  <1> DEFINE new == Append(list, w)
             n == Len(list)
  <1>1. /\ n \in Nat /\ new \in Seq(Workspace) /\ Len(new) = n + 1
        /\ DOMAIN list = 1 .. n /\ DOMAIN new = 1 .. (n + 1)
        /\ new[n + 1] = w
        /\ \A i \in 1 .. n : new[i] = list[i]
    OBVIOUS
  <1>2. \A i \in 1 .. n : list[i].uniqueId # w.uniqueId
    BY <1>1 DEF Places
  <1>3. \A i \in 1 .. (n + 1) : i \in 1 .. n \/ i = n + 1
    BY <1>1
  <1>4. n + 1 \in 1 .. (n + 1) /\ n + 1 \notin 1 .. n /\ \A i \in 1 .. n : i \in 1 .. (n + 1)
    BY <1>1
  <1> HIDE DEF new, n
  <1>5. Once(new)
    BY <1>1, <1>2, <1>3 DEF Once
  <1>6. Places(new, w.uniqueId) = {n + 1}
    BY <1>1, <1>2, <1>3, <1>4 DEF Places
  <1>7. ASSUME NEW d, d # w.uniqueId PROVE Places(new, d) = Places(list, d)
    BY <1>1, <1>3, <1>4, <1>7 DEF Places
  <1>8. ASSUME NEW d, d # w.uniqueId PROVE Entries(new, d) = Entries(list, d)
    <2>1. \A i \in Places(list, d) : new[i] = list[i]
      BY <1>1 DEF Places
    <2> QED BY <1>7, <1>8, <2>1 DEF Entries
  <1>9. Entries(new, w.uniqueId) = {w}
    BY <1>1, <1>6 DEF Entries
  <1> QED BY <1>1, <1>5, <1>8, <1>9 DEF Changed, new

\* Replacing the workspace of an id.
LEMMA Replaces ==
  ASSUME NEW list \in Seq(Workspace), Once(list), NEW w \in Workspace, NEW p \in DOMAIN list,
         list[p].uniqueId = w.uniqueId
  PROVE  /\ Changed([list EXCEPT ![p] = w], list, w.uniqueId)
         /\ Entries([list EXCEPT ![p] = w], w.uniqueId) = {w}
  <1> DEFINE new == [list EXCEPT ![p] = w]
  <1>1. /\ new \in Seq(Workspace) /\ DOMAIN new = DOMAIN list
        /\ new[p] = w /\ \A i \in DOMAIN list : i # p => new[i] = list[i]
    OBVIOUS
  <1>2. \A i \in DOMAIN list : new[i].uniqueId = list[i].uniqueId
    BY <1>1
  <1> HIDE DEF new
  <1>3. Once(new)
    BY <1>1, <1>2 DEF Once
  <1>4. \A d : Places(new, d) = Places(list, d)
    BY <1>1, <1>2 DEF Places
  <1>5. Places(list, w.uniqueId) = {p}
    BY FindOnly
  <1>6. Entries(new, w.uniqueId) = {w}
    BY <1>1, <1>4, <1>5 DEF Entries
  <1>7. ASSUME NEW d, d # w.uniqueId PROVE Entries(new, d) = Entries(list, d)
    <2>1. \A i \in Places(list, d) : new[i] = list[i]
      BY <1>1, <1>7 DEF Places
    <2> QED BY <1>4, <2>1 DEF Entries
  <1> QED BY <1>1, <1>3, <1>6, <1>7 DEF Changed, new

\* Overwriting, whether the workspace is in the list or not.
LEMMA Overwrites ==
  ASSUME NEW list \in Seq(Workspace), Once(list), NEW w \in Workspace
  PROVE  /\ Changed(Overwritten(list, w), list, w.uniqueId)
         /\ Entries(Overwritten(list, w), w.uniqueId) = {w}
  <1> DEFINE p == findIndex(list, w.uniqueId)
  <1>1. CASE p = 0
    <2>1. Places(list, w.uniqueId) = {}
      BY <1>1, FindSome
    <2> QED BY <1>1, <2>1, Adds DEF Overwritten
  <1>2. CASE p # 0
    <2>1. p \in DOMAIN list /\ list[p].uniqueId = w.uniqueId
      BY <1>2, FindSome
    <2> HIDE DEF p
    <2>2. /\ Changed([list EXCEPT ![p] = w], list, w.uniqueId)
          /\ Entries([list EXCEPT ![p] = w], w.uniqueId) = {w}
      BY <2>1, Replaces
    <2> QED BY <1>2, <2>2 DEF Overwritten, p
  <1> QED BY <1>1, <1>2

\* Removing the workspace at a place.
LEMMA Removes ==
  ASSUME NEW list \in Seq(Workspace), Once(list), NEW p \in DOMAIN list
  PROVE  /\ Changed(Without(list, p), list, list[p].uniqueId)
         /\ Entries(Without(list, p), list[p].uniqueId) = {}
  <1> DEFINE new == Without(list, p)
             n == Len(list)
             Old(i) == IF i < p THEN i ELSE i + 1
             New(j) == IF j < p THEN j ELSE j - 1
  <1>1. n \in Nat /\ p \in 1 .. n /\ DOMAIN list = 1 .. n
    OBVIOUS
  <1>2. /\ new \in Seq(Workspace) /\ Len(new) = n - 1
        /\ \A i \in 1 .. (n - 1) : new[i] = list[Old(i)]
    <2>1. /\ SubSeq(list, 1, p - 1) \in Seq(Workspace) /\ Len(SubSeq(list, 1, p - 1)) = p - 1
          /\ \A i \in 1 .. (p - 1) : SubSeq(list, 1, p - 1)[i] = list[i]
      BY <1>1
    <2>2. /\ SubSeq(list, p + 1, n) \in Seq(Workspace) /\ Len(SubSeq(list, p + 1, n)) = n - p
          /\ \A i \in 1 .. (n - p) : SubSeq(list, p + 1, n)[i] = list[p + i]
      BY <1>1
    <2> DEFINE a == SubSeq(list, 1, p - 1)
               b == SubSeq(list, p + 1, n)
    <2> HIDE DEF a, b
    <2>3. /\ a \o b \in Seq(Workspace) /\ Len(a \o b) = n - 1
          /\ \A i \in 1 .. (n - 1) : (a \o b)[i] = IF i <= p - 1 THEN a[i] ELSE b[i - (p - 1)]
      <3>1. a \in Seq(Workspace) /\ Len(a) = p - 1 /\ b \in Seq(Workspace) /\ Len(b) = n - p
        BY <2>1, <2>2 DEF a, b
      <3>2. /\ a \o b \in Seq(Workspace) /\ Len(a \o b) = Len(a) + Len(b)
            /\ \A i \in 1 .. Len(a) + Len(b) :
                 (a \o b)[i] = IF i <= Len(a) THEN a[i] ELSE b[i - Len(a)]
        BY <3>1, ConcatProperties
      <3>3. (p - 1) + (n - p) = n - 1
        BY <1>1
      <3> HIDE DEF n
      <3> QED BY <3>1, <3>2, <3>3
    <2>4. \A i \in 1 .. (n - 1) : (a \o b)[i] = list[Old(i)]
      <3> SUFFICES ASSUME NEW i \in 1 .. (n - 1) PROVE (a \o b)[i] = list[Old(i)]
        OBVIOUS
      <3>1. CASE i < p
        <4>1. i \in 1 .. (p - 1) /\ i <= p - 1
          BY <1>1, <3>1
        <4> QED BY <2>1, <2>3, <3>1, <4>1 DEF a
      <3>2. CASE ~ (i < p)
        <4>1. i - (p - 1) \in 1 .. (n - p) /\ ~ (i <= p - 1) /\ p + (i - (p - 1)) = i + 1
          BY <1>1, <3>2
        <4> QED BY <2>2, <2>3, <3>2, <4>1 DEF b
      <3> QED BY <3>1, <3>2
    <2>5. new = a \o b
      BY DEF Without, a, b
    <2> QED BY <2>3, <2>4, <2>5
  <1>3. DOMAIN new = 1 .. (n - 1)
    BY <1>1, <1>2
  <1>4. \A i \in 1 .. (n - 1) : Old(i) \in 1 .. n /\ Old(i) # p /\ New(Old(i)) = i
    BY <1>1
  <1>5. \A j \in 1 .. n : j # p => New(j) \in 1 .. (n - 1) /\ Old(New(j)) = j
    BY <1>1
  <1> HIDE DEF new, n, Old, New
  <1>6. Once(new)
    <2> SUFFICES ASSUME NEW i \in 1 .. (n - 1), NEW j \in 1 .. (n - 1), new[i].uniqueId = new[j].uniqueId
                 PROVE  i = j
      BY <1>3 DEF Once
    <2>1. Old(i) = Old(j)
      BY <1>1, <1>2, <1>4 DEF Once
    <2> QED BY <1>4, <2>1
  <1>7. Entries(new, list[p].uniqueId) = {}
    <2>1. \A i \in 1 .. (n - 1) : new[i].uniqueId # list[p].uniqueId
      BY <1>1, <1>2, <1>4 DEF Once
    <2> QED BY <1>3, <2>1 DEF Entries, Places
  <1>8. ASSUME NEW d, d # list[p].uniqueId PROVE Entries(new, d) = Entries(list, d)
    <2>1. \A w : w \in Entries(new, d) => w \in Entries(list, d)
      BY <1>1, <1>2, <1>3, <1>4 DEF Entries, Places
    <2>2. \A w : w \in Entries(list, d) => w \in Entries(new, d)
      <3> SUFFICES ASSUME NEW j \in 1 .. n, list[j].uniqueId = d PROVE list[j] \in Entries(new, d)
        BY <1>1 DEF Entries, Places
      <3>1. j # p
        BY <1>8
      <3>2. New(j) \in 1 .. (n - 1) /\ new[New(j)] = list[j]
        BY <1>2, <1>5, <3>1
      <3> QED BY <1>3, <3>2 DEF Entries, Places
    <2> QED BY <2>1, <2>2
  <1> QED BY <1>2, <1>6, <1>7, <1>8 DEF Changed, new
-----------------------------------------------------------------------------
\* The panel shows the stored list or nothing, so what it offers to delete is stored.
Listed == canvasWorkspaces = << >> \/ canvasWorkspaces = storage

\* The database never holds a workspace twice either, so that a crash cannot bring it back.
FlushedOnce == Once(disk.list)

\* The workspace a new window restores is stored, unless it became outdated.
RestoringIsStored ==
  ~ outdated /\ restoring # NoWorkspace => restoring \in Entries(storage, restoring.uniqueId)

\* A new uuid is new: whatever is stored, flushed, current or to be restored has one
\* generated before.
MintedBefore ==
  /\ \A d : Entries(storage, d) # {} => d \in minted
  /\ \A d : Entries(disk.list, d) # {} => d \in minted
  /\ \A w \in {currentCanvasWorkspace, persisted, disk.current, restoring} \ {NoWorkspace} :
       w.uniqueId \in minted

IInv ==
  /\ TypeOK
  /\ StoredOnce
  /\ CurrentIsStored
  /\ Listed
  /\ FlushedOnce
  /\ RestoringIsStored
  /\ MintedBefore

LEMMA InitHolds == Init => IInv
  <1> SUFFICES ASSUME Init PROVE IInv
    OBVIOUS
  <1>1. NoClick \in Click
    BY DEF NoClick, Click
  <1>2. << >> \in Seq(Workspace) /\ DOMAIN << >> = {}
    OBVIOUS
  <1>3. TypeOK
    BY <1>1, <1>2 DEF Init, TypeOK
  <1>4. StoredOnce /\ CurrentIsStored /\ Listed /\ FlushedOnce /\ RestoringIsStored
    BY <1>2 DEF Init, StoredOnce, CurrentIsStored, Listed, FlushedOnce, Once, RestoringIsStored
  <1>5. MintedBefore
    BY <1>2 DEF Init, MintedBefore, Entries, Places
  <1> QED BY <1>3, <1>4, <1>5 DEF IInv

\* The current workspace is stored, in terms of Entries.
LEMMA StoredEntry ==
  ASSUME NEW list, NEW w
  PROVE  (\E i \in DOMAIN list : list[i] = w) <=> w \in Entries(list, w.uniqueId)
  BY DEF Entries, Places

\* Where the current workspace, the one to be restored and the outdated flag may come from
\* in a step that leaves the list alone.
CurrentMoves ==
  \/ UNCHANGED <<currentCanvasWorkspace, restoring, outdated>>
  \/ /\ \/ currentCanvasWorkspace' \in Entries(storage, currentCanvasWorkspace'.uniqueId)
        \/ currentCanvasWorkspace' = NoWorkspace
     /\ restoring' = restoring
     /\ Refreshed
  \/ /\ currentCanvasWorkspace' = restoring
     /\ restoring' = NoWorkspace
     /\ outdated' = outdated
  \/ /\ currentCanvasWorkspace' = NoWorkspace
     /\ restoring' = currentCanvasWorkspace
     /\ outdated' = outdated

\* A step that leaves the list alone.
LEMMA QuietStep ==
  ASSUME IInv, UNCHANGED <<storage, minted>>, TypeOK',
         canvasWorkspaces' \in {<< >>, storage, canvasWorkspaces},
         persisted' \in {persisted, currentCanvasWorkspace},
         disk'.list \in {disk.list, storage},
         disk'.current \in {disk.current, persisted, currentCanvasWorkspace},
         CurrentMoves
  PROVE  IInv'
  <1>1. StoredOnce' /\ Listed' /\ FlushedOnce'
    BY DEF IInv, StoredOnce, Listed, FlushedOnce, Once
  <1>2. /\ ~ outdated /\ currentCanvasWorkspace # NoWorkspace
             => currentCanvasWorkspace \in Entries(storage, currentCanvasWorkspace.uniqueId)
        /\ ~ outdated /\ restoring # NoWorkspace => restoring \in Entries(storage, restoring.uniqueId)
    BY StoredEntry DEF IInv, CurrentIsStored, RestoringIsStored
  <1>3. \A d : Entries(storage, d)' = Entries(storage, d)
    BY DEF Entries, Places
  <1>4. /\ ~ outdated' /\ currentCanvasWorkspace' # NoWorkspace
             => currentCanvasWorkspace' \in Entries(storage, currentCanvasWorkspace'.uniqueId)
        /\ ~ outdated' /\ restoring' # NoWorkspace => restoring' \in Entries(storage, restoring'.uniqueId)
    BY <1>2 DEF CurrentMoves, Refreshed
  <1>5. CurrentIsStored' /\ RestoringIsStored'
    BY <1>3, <1>4, StoredEntry DEF CurrentIsStored, RestoringIsStored, Entries, Places
  <1>6. MintedBefore'
    <2>1. \A d : Entries(disk'.list, d) # {} => d \in minted
      BY DEF IInv, MintedBefore
    <2>2. currentCanvasWorkspace' # NoWorkspace => currentCanvasWorkspace'.uniqueId \in minted
      BY DEF IInv, MintedBefore, CurrentMoves
    <2>3. restoring' # NoWorkspace => restoring'.uniqueId \in minted
      BY DEF IInv, MintedBefore, CurrentMoves
    <2>4. \A w \in {persisted', disk'.current} \ {NoWorkspace} : w.uniqueId \in minted
      BY DEF IInv, MintedBefore
    <2> QED BY <1>3, <2>1, <2>2, <2>3, <2>4 DEF IInv, MintedBefore, Entries, Places
  <1> QED BY <1>1, <1>5, <1>6 DEF IInv

\* The current workspace is overwritten, if there is one.
LEMMA OverwriteStep ==
  ASSUME IInv, Overwrite, UNCHANGED <<panes, minted>>, clicks' \in [Slots -> Click]
  PROVE  IInv' /\ (storage' # storage => \A id \in Ids : KeepsWorkspace(id))
  <1>1. CASE currentCanvasWorkspace = NoWorkspace
    <2>1. UNCHANGED <<saved, canvasWorkspaces, current>>
      BY <1>1 DEF Overwrite
    <2>2. TypeOK'
      BY <2>1 DEF IInv, TypeOK, saved, current, panes
    <2> QED BY <2>1, <2>2, QuietStep DEF saved, current, CurrentMoves
  <1>2. CASE currentCanvasWorkspace # NoWorkspace
    <2> DEFINE w == [uniqueId |-> currentCanvasWorkspace.uniqueId, groupIdSet |-> groups]
    <2>1. /\ storage' = Overwritten(storage, w) /\ canvasWorkspaces' = Overwritten(storage, w)
          /\ currentCanvasWorkspace' = w /\ canvasWorkspaceIsDirty' = FALSE
          /\ outdated' = (Pending(w.uniqueId) \/ (outdated /\ restoring # NoWorkspace))
          /\ UNCHANGED <<persisted, disk, restoring>>
      BY <1>2 DEF Overwrite, SetWorkspaces, SetCurrent
    <2>2. /\ w \in Workspace /\ w.uniqueId = currentCanvasWorkspace.uniqueId
          /\ storage \in Seq(Workspace) /\ Once(storage)
      BY <1>2 DEF IInv, TypeOK, Workspace, StoredOnce, Once
    <2> HIDE DEF w
    <2>3. Changed(storage', storage, w.uniqueId) /\ Entries(storage', w.uniqueId) = {w}
      BY <2>1, <2>2, Overwrites
    <2>o. outdated' \in BOOLEAN
      BY <2>1 DEF Pending
    <2>4. TypeOK'
      BY <2>1, <2>2, <2>3, <2>o DEF IInv, TypeOK, Changed, panes
    <2>5. StoredOnce' /\ Listed' /\ FlushedOnce'
      BY <2>1, <2>3 DEF IInv, StoredOnce, Listed, FlushedOnce, Changed, Once
    <2>6. CurrentIsStored'
      BY <2>1, <2>3, StoredEntry DEF CurrentIsStored
    <2>r. RestoringIsStored'
      <3> SUFFICES ASSUME ~ outdated', restoring # NoWorkspace
                   PROVE  restoring \in Entries(storage', restoring.uniqueId)
        BY <2>1 DEF RestoringIsStored, Entries, Places
      <3>1. restoring.uniqueId # w.uniqueId /\ restoring \in Entries(storage, restoring.uniqueId)
        BY <2>1 DEF Pending, IInv, RestoringIsStored
      <3> QED BY <2>3, <3>1 DEF Changed
    <2>7. MintedBefore'
      <3>1. w.uniqueId \in minted
        BY <1>2, <2>2 DEF IInv, MintedBefore
      <3>2. \A d : Entries(storage', d) # {} => d \in minted
        BY <2>3, <3>1 DEF IInv, MintedBefore, Changed
      <3> QED BY <2>1, <3>1, <3>2 DEF IInv, MintedBefore, Entries, Places
    <2>8. ASSUME NEW id \in Ids PROVE KeepsWorkspace(id)
      <3>1. CASE id = w.uniqueId
        BY <1>2, <2>2, <2>3, <3>1 DEF KeepsWorkspace, Entries
      <3>2. CASE id # w.uniqueId
        BY <2>3, <3>2 DEF KeepsWorkspace, Changed, Entries
      <3> QED BY <3>1, <3>2
    <2> QED BY <2>4, <2>5, <2>6, <2>r, <2>7, <2>8 DEF IInv
  <1> QED BY <1>1, <1>2

\* A workspace is saved under a new uuid.
LEMMA SaveStep ==
  ASSUME IInv, NEW n \in Ids, saveCurrentCanvasWorkspace(n)
  PROVE  IInv' /\ \A id \in Ids : KeepsWorkspace(id)
  <1> DEFINE w == [uniqueId |-> n, groupIdSet |-> groups]
  <1>1. /\ n \notin minted /\ minted' = minted \cup {n}
        /\ storage' = Append(storage, w) /\ canvasWorkspaces' = Append(storage, w)
        /\ currentCanvasWorkspace' = w /\ canvasWorkspaceIsDirty' = FALSE
        /\ Refreshed
        /\ UNCHANGED <<persisted, disk, restoring, groups, onCanvas, clicks>>
    BY DEF saveCurrentCanvasWorkspace, SetWorkspaces, SetCurrent, panes
  <1>2. w \in Workspace /\ w.uniqueId = n /\ storage \in Seq(Workspace) /\ Once(storage)
    BY DEF IInv, TypeOK, Workspace, StoredOnce, Once
  <1> HIDE DEF w
  <1>3. Places(storage, n) = {}
    BY <1>1 DEF IInv, MintedBefore, Entries
  <1>4. Changed(storage', storage, n) /\ Entries(storage', n) = {w}
    BY <1>1, <1>2, <1>3, Adds
  <1>o. outdated' \in BOOLEAN
    BY <1>1 DEF Refreshed
  <1>5. TypeOK'
    BY <1>1, <1>2, <1>4, <1>o DEF IInv, TypeOK, Changed
  <1>6. StoredOnce' /\ Listed' /\ FlushedOnce'
    BY <1>1, <1>4 DEF IInv, StoredOnce, Listed, FlushedOnce, Changed, Once
  <1>7. CurrentIsStored'
    BY <1>1, <1>2, <1>4, StoredEntry DEF CurrentIsStored
  <1>r. RestoringIsStored'
    <2> SUFFICES ASSUME ~ outdated', restoring # NoWorkspace
                 PROVE  restoring \in Entries(storage', restoring.uniqueId)
      BY <1>1 DEF RestoringIsStored, Entries, Places
    <2>1. restoring.uniqueId # n /\ restoring \in Entries(storage, restoring.uniqueId)
      BY <1>1 DEF Refreshed, IInv, MintedBefore, RestoringIsStored
    <2> QED BY <1>4, <2>1 DEF Changed
  <1>8. MintedBefore'
    <2>1. \A d : Entries(storage', d) # {} => d \in minted'
      BY <1>1, <1>4 DEF IInv, MintedBefore, Changed
    <2>2. \A d : Entries(disk.list, d) # {} => d \in minted'
      BY <1>1 DEF IInv, MintedBefore
    <2>3. \A v \in {currentCanvasWorkspace', persisted, disk.current, restoring} \ {NoWorkspace} :
            v.uniqueId \in minted'
      BY <1>1, <1>2 DEF IInv, MintedBefore
    <2> QED BY <1>1, <2>1, <2>2, <2>3 DEF MintedBefore, Entries, Places
  <1>9. ASSUME NEW id \in Ids PROVE KeepsWorkspace(id)
    BY <1>1, <1>4 DEF KeepsWorkspace, Changed, Entries
  <1> QED BY <1>5, <1>6, <1>7, <1>r, <1>8, <1>9 DEF IInv

\* A workspace of the panel is deleted.  The panel shows what is stored, so the index is
\* that of the workspace.
LEMMA DeleteStep ==
  ASSUME IInv, NEW n \in Ids, deleteCanvasWorkspace(n)
  PROVE  IInv' /\ \A id \in Ids : KeepsWorkspace(id)
  <1> DEFINE p == findIndex(storage, n)
  <1>1. storage \in Seq(Workspace) /\ Once(storage)
    BY DEF IInv, TypeOK, StoredOnce, Once
  <1>2. Places(storage, n) # {}
    <2>1. Places(<< >>, n) = {}
      BY DEF Places
    <2> QED BY <2>1 DEF deleteCanvasWorkspace, IInv, Listed
  <1>3. p \in DOMAIN storage /\ storage[p].uniqueId = n /\ p # 0
    BY <1>1, <1>2, FindSome
  <1>4. /\ storage' = Without(storage, p) /\ canvasWorkspaces' = Without(storage, p)
        /\ outdated' = (outdated \/ Pending(n))
        /\ UNCHANGED <<persisted, disk, restoring, groups, onCanvas, clicks, minted>>
    BY <1>3 DEF deleteCanvasWorkspace, SetWorkspaces, removeCanvasWorkspace, panes
  <1> HIDE DEF p
  <1>5. Changed(storage', storage, n) /\ Entries(storage', n) = {}
    BY <1>1, <1>3, <1>4, Removes
  <1>6. \/ currentCanvasWorkspace' = NoWorkspace /\ canvasWorkspaceIsDirty' = FALSE
        \/ /\ currentCanvasWorkspace # NoWorkspace => currentCanvasWorkspace.uniqueId # n
           /\ UNCHANGED <<currentCanvasWorkspace, canvasWorkspaceIsDirty>>
    BY DEF deleteCanvasWorkspace, SetCurrent
  <1>o. outdated' \in BOOLEAN
    BY <1>4 DEF Pending
  <1>7. TypeOK'
    BY <1>4, <1>5, <1>6, <1>o DEF IInv, TypeOK, Changed
  <1>8. StoredOnce' /\ Listed' /\ FlushedOnce'
    BY <1>4, <1>5 DEF IInv, StoredOnce, Listed, FlushedOnce, Changed, Once
  <1>9. CurrentIsStored'
    <2> SUFFICES ASSUME ~ outdated', currentCanvasWorkspace' # NoWorkspace
                 PROVE  currentCanvasWorkspace' \in Entries(storage', currentCanvasWorkspace'.uniqueId)
      BY <1>4, StoredEntry DEF CurrentIsStored
    <2>1. /\ currentCanvasWorkspace' = currentCanvasWorkspace /\ currentCanvasWorkspace.uniqueId # n
          /\ currentCanvasWorkspace \in Entries(storage, currentCanvasWorkspace.uniqueId)
      BY <1>4, <1>6, StoredEntry DEF IInv, CurrentIsStored
    <2> QED BY <1>5, <2>1 DEF Changed
  <1>r. RestoringIsStored'
    <2> SUFFICES ASSUME ~ outdated', restoring # NoWorkspace
                 PROVE  restoring \in Entries(storage', restoring.uniqueId)
      BY <1>4 DEF RestoringIsStored, Entries, Places
    <2>1. restoring.uniqueId # n /\ restoring \in Entries(storage, restoring.uniqueId)
      BY <1>4 DEF Pending, IInv, RestoringIsStored
    <2> QED BY <1>5, <2>1 DEF Changed
  <1>10. MintedBefore'
    <2>1. \A d : Entries(storage', d) # {} => d \in minted
      BY <1>5 DEF IInv, MintedBefore, Changed
    <2> QED BY <1>4, <1>6, <2>1 DEF IInv, MintedBefore, Entries, Places
  <1>11. ASSUME NEW id \in Ids PROVE KeepsWorkspace(id)
    <2>1. CASE id = n
      BY <1>5, <2>1 DEF KeepsWorkspace, Entries
    <2>2. CASE id # n
      BY <1>5, <2>2 DEF KeepsWorkspace, Changed, Entries
    <2> QED BY <2>1, <2>2
  <1> QED BY <1>7, <1>8, <1>9, <1>r, <1>10, <1>11 DEF IInv

\* A crash brings back the list of the last flush, which holds nothing twice.
LEMMA CrashStep ==
  ASSUME IInv, Crash
  PROVE  IInv' /\ \A id \in Ids : KeepsWorkspace(id)
  <1>1. /\ storage' = disk.list /\ persisted' = disk.current /\ restoring' = disk.current
        /\ disk' = [list |-> disk.list, current |-> disk.current]
        /\ currentCanvasWorkspace' = NoWorkspace /\ canvasWorkspaceIsDirty' = FALSE
        /\ canvasWorkspaces' = << >> /\ onCanvas' = {} /\ clicks' = [t \in Slots |-> NoClick]
        /\ outdated' = TRUE /\ UNCHANGED <<groups, minted>>
    BY DEF Crash, Start, SetCurrent
  <1>2. NoClick \in Click /\ << >> \in Seq(Workspace)
    BY DEF NoClick, Click
  <1>3. TypeOK'
    BY <1>1, <1>2 DEF IInv, TypeOK
  <1>4. StoredOnce' /\ CurrentIsStored' /\ Listed' /\ FlushedOnce' /\ RestoringIsStored'
    BY <1>1 DEF IInv, StoredOnce, CurrentIsStored, Listed, FlushedOnce, Once, RestoringIsStored
  <1>5. MintedBefore'
    <2>1. /\ \A d : Entries(storage', d) # {} => d \in minted
          /\ \A d : Entries(disk'.list, d) # {} => d \in minted
      BY <1>1 DEF IInv, MintedBefore
    <2>2. \A w \in {currentCanvasWorkspace', persisted', disk'.current, restoring'} \ {NoWorkspace} :
            w.uniqueId \in minted
      BY <1>1 DEF IInv, MintedBefore
    <2> QED BY <1>1, <2>1, <2>2 DEF MintedBefore, Entries, Places
  <1>6. \A id \in Ids : KeepsWorkspace(id)
    BY DEF KeepsWorkspace
  <1> QED BY <1>3, <1>4, <1>5, <1>6 DEF IInv
-----------------------------------------------------------------------------
\* The dirty flag is a flag, whatever the map becomes.
LEMMA DirtyType ==
  ASSUME NEW S, canvasWorkspaceIsDirty \in BOOLEAN, MapBecomes(S)
  PROVE  canvasWorkspaceIsDirty' \in BOOLEAN
  BY Zenon DEF MapBecomes, handleStoreChange

LEMMA ClosingType ==
  ASSUME TypeOK, NEW id \in Ids \cup {NoWorkspace}
  PROVE  Closing(id) \in Click /\ NoClick \in Click
  BY DEF TypeOK, Closing, Click, NoClick

\* The map is set to the editors of some groups.
LEMMA MapStep ==
  ASSUME IInv, NEW S \in SUBSET Groups, MapBecomes(S), groups' \subseteq Groups,
         clicks' \in [Slots -> Click], UNCHANGED <<saved, canvasWorkspaces, minted>>
  PROVE  IInv' /\ UNCHANGED storage
  <1>1. canvasWorkspaceIsDirty' \in BOOLEAN
    BY DirtyType DEF IInv, TypeOK
  <1>2. TypeOK'
    BY <1>1 DEF IInv, TypeOK, MapBecomes, saved
  <1> QED BY <1>2, QuietStep DEF MapBecomes, saved, CurrentMoves

\* Only panes, clicks or the copy of the panel change.
LEMMA ClickStep ==
  ASSUME IInv, clicks' \in [Slots -> Click], groups' \subseteq Groups, onCanvas' = onCanvas,
         canvasWorkspaces' \in {storage, canvasWorkspaces}, UNCHANGED <<saved, current, minted>>
  PROVE  IInv' /\ UNCHANGED storage
  <1>1. TypeOK'
    BY DEF IInv, TypeOK, saved, current
  <1> QED BY <1>1, QuietStep DEF saved, current, CurrentMoves

LEMMA StepHolds == IInv /\ [Next]_vars => IInv' /\ (storage' # storage => \A id \in Ids : KeepsWorkspace(id))
  <1> SUFFICES ASSUME IInv, [Next]_vars
               PROVE  IInv' /\ (storage' # storage => \A id \in Ids : KeepsWorkspace(id))
    OBVIOUS
  <1> DEFINE Goal == IInv' /\ (storage' # storage => \A id \in Ids : KeepsWorkspace(id))
  <1> SUFFICES Goal
    OBVIOUS
  <1> HIDE DEF Goal
  <1>g. (IInv' /\ UNCHANGED storage) \/ (IInv' /\ \A id \in Ids : KeepsWorkspace(id)) => Goal
    BY DEF Goal
  <1>t. TypeOK
    BY DEF IInv
  <1>c. clicks \in [Slots -> Click] /\ groups \subseteq Groups /\ onCanvas \subseteq Groups
    BY <1>t DEF TypeOK
  <1>n. NoClick \in Click
    BY DEF NoClick, Click
  <1>1. ASSUME NEW g \in Groups, OpenPane(g) PROVE Goal
    BY <1>1, <1>c, <1>g, ClickStep DEF OpenPane
  <1>2. ASSUME NEW g \in Groups, ClosePane(g) PROVE Goal
    BY <1>2, <1>c, <1>g, MapStep DEF ClosePane
  <1>3. ASSUME NEW S \in SUBSET Groups, SetMap(S) PROVE Goal
    BY <1>3, <1>c, <1>g, MapStep DEF SetMap
  <1>4. ASSUME NEW n \in Ids, saveCurrentCanvasWorkspace(n) \/ deleteCanvasWorkspace(n)
        PROVE  Goal
    BY <1>4, <1>g, SaveStep, DeleteStep
  <1>5. CASE overwriteCurrentCanvasWorkspace
    BY <1>5, <1>c, OverwriteStep DEF overwriteCurrentCanvasWorkspace, Goal
  <1>6. CASE loadCanvasWorkspaces
    BY <1>6, <1>c, <1>g, ClickStep DEF loadCanvasWorkspaces, panes
  <1>7. ASSUME NEW t \in Slots, NEW n \in Ids, ClickWorkspace(t, n) PROVE Goal
    <2>1. /\ Closing(n) \in Click
          /\ [NoClick EXCEPT !.stage = "asked", !.id = n] \in Click
      BY <1>t, ClosingType DEF NoClick, Click
    <2>2. clicks' \in [Slots -> Click]
      BY <1>7, <1>c, <2>1 DEF ClickWorkspace
    <2> QED BY <1>7, <1>c, <1>g, <2>2, ClickStep DEF ClickWorkspace, panes
  <1>8. ASSUME NEW t \in Slots, NEW g \in Groups, CloseEditor(t, g) PROVE Goal
    <2>1. clicks' \in [Slots -> Click]
      BY <1>8, <1>c DEF CloseEditor, Click
    <2> QED BY <1>8, <1>c, <1>g, <2>1, MapStep DEF CloseEditor
  <1>9. ASSUME NEW t \in Slots, ConfirmResult(t) PROVE Goal
    <2>1. clicks[t].id \in Ids \cup {NoWorkspace}
      BY <1>c DEF Click
    <2>2. clicks' \in [Slots -> Click]
      BY <1>9, <1>t, <1>c, <2>1, ClosingType DEF ConfirmResult
    <2>3. UNCHANGED <<panes, minted>>
      BY <1>9 DEF ConfirmResult
    <2>4. CASE Overwrite
      BY <2>2, <2>3, <2>4, OverwriteStep DEF Goal
    <2>5. CASE UNCHANGED <<saved, canvasWorkspaces, current>>
      BY <1>c, <1>g, <2>2, <2>3, <2>5, ClickStep DEF panes
    <2> QED BY <1>9, <2>4, <2>5 DEF ConfirmResult
  <1>10. ASSUME NEW t \in Slots, AbortOpening(t) PROVE Goal
    <2>1. clicks' \in [Slots -> Click]
      BY <1>10, <1>c, <1>n DEF AbortOpening
    <2> QED BY <1>10, <1>c, <1>g, <2>1, ClickStep DEF AbortOpening, panes
  <1>11. ASSUME NEW t \in Slots, openCanvasWorkspace(t) PROVE Goal
    <2> DEFINE place == findIndex(storage, clicks[t].id)
    <2>1. storage \in Seq(Workspace) /\ Once(storage)
      BY DEF IInv, TypeOK, StoredOnce, Once
    <2>2. place = 0 \/ (place \in DOMAIN storage /\ storage[place] \in Workspace)
      BY <2>1, FindSome
    <2>3. /\ currentCanvasWorkspace' = IF place = 0 THEN NoWorkspace ELSE storage[place]
          /\ Refreshed /\ clicks' = [clicks EXCEPT ![t] = NoClick]
          /\ UNCHANGED <<saved, canvasWorkspaces, canvasWorkspaceIsDirty, restoring, panes, minted>>
      BY <1>11 DEF openCanvasWorkspace
    <2> HIDE DEF place
    <2>4. \/ currentCanvasWorkspace' = NoWorkspace
          \/ /\ currentCanvasWorkspace' \in Workspace
             /\ currentCanvasWorkspace' \in Entries(storage, currentCanvasWorkspace'.uniqueId)
      BY <2>2, <2>3, StoredEntry
    <2>5. outdated' \in BOOLEAN
      BY <2>3 DEF Refreshed
    <2>6. TypeOK'
      BY <1>t, <1>n, <2>3, <2>4, <2>5 DEF TypeOK, saved, panes
    <2>7. CurrentMoves
      BY <2>3, <2>4 DEF CurrentMoves
    <2> QED BY <1>g, <2>3, <2>6, <2>7, QuietStep DEF saved
  <1>12. CASE onWillSaveState \/ flushPending
    <2>1. TypeOK'
      BY <1>12, <1>t DEF onWillSaveState, flushPending, TypeOK, current, panes
    <2> QED BY <1>12, <1>g, <2>1, QuietStep DEF onWillSaveState, flushPending, current, CurrentMoves
  <1>13. CASE Restart
    <2>1. << >> \in Seq(Workspace)
      OBVIOUS
    <2>2. TypeOK'
      BY <1>13, <1>t, <1>n, <2>1 DEF Restart, Start, SetCurrent, TypeOK
    <2>3. CurrentMoves
      BY <1>13 DEF Restart, Start, SetCurrent, CurrentMoves
    <2> QED BY <1>13, <1>g, <2>2, <2>3, QuietStep DEF Restart, Start
  <1>14. CASE Crash
    BY <1>14, <1>g, CrashStep
  <1>15. CASE setCurrentCanvasWorkspace
    <2>1. TypeOK'
      BY <1>15, <1>t DEF setCurrentCanvasWorkspace, SetCurrent, TypeOK, saved, panes
    <2> QED BY <1>15, <1>g, <2>1, QuietStep DEF setCurrentCanvasWorkspace, SetCurrent, saved, CurrentMoves
  <1>16. CASE UNCHANGED vars
    BY <1>16, <1>c, <1>g, ClickStep DEF vars, panes
  <1>17. CASE Next
    BY <1>1, <1>2, <1>3, <1>4, <1>5, <1>6, <1>7, <1>8, <1>9, <1>10, <1>11, <1>12, <1>13, <1>14, <1>15,
       <1>17 DEF Next
  <1> QED BY <1>16, <1>17

LEMMA Inductive == Spec => []IInv
  BY InitHolds, StepHolds, PTL DEF Spec

\* The lists, the current workspace, the groups and the clicks keep their types.
THEOREM TypeCorrect == Spec => []TypeOK
  BY Inductive, PTL DEF IInv

\* No workspace is ever stored twice, however saves, overwrites, deletes, clicks, flushes,
\* restarts and crashes follow each other.
THEOREM StoredOnlyOnce == Spec => []StoredOnce
  BY Inductive, PTL DEF IInv

\* The current workspace is the one that is stored, unless a starting window restored a copy
\* that a crash, a delete or an overwrite had made outdated.
THEOREM CurrentStored == Spec => []CurrentIsStored
  BY Inductive, PTL DEF IInv

\* Crashes apart, a stored workspace changes only as the current one and goes only when it
\* is deleted: the splice of deleteCanvasWorkspace never takes another one.
THEOREM NothingElseChanges == Spec => WorkspacesKept
  <1>1. IInv /\ [Next]_vars => [storage' # storage => \A id \in Ids : KeepsWorkspace(id)]_vars
    BY StepHolds
  <1> QED BY <1>1, Inductive, PTL DEF Spec, WorkspacesKept
=============================================================================
