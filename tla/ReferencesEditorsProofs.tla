----------------------- MODULE ReferencesEditorsProofs -----------------------
(***************************************************************************)
(* Proofs that the invariants of ReferencesEditors hold for every set of   *)
(* code editors, of uuids and of operations that write old copies of the   *)
(* map.                                                                    *)
(***************************************************************************)
EXTENDS ReferencesEditors, TLAPS

USE NoneAssumption, CopyAssumption

(* The editors that were ever drawn, or came back. *)
Drawn == mounted \cup restored

(* An outstanding request belongs to a drawn editor of its code editor and, while it is the latest one, its *)
(* editor is the one of the widget, if there is any.  A model on its way is not disposed and not shown,     *)
(* unless its editor came back and asked for it again.                                                      *)
RequestsSound ==
  \A r \in requests : /\ r.id \in Drawn
                      /\ codeEditor[r.id] = r.codeEditor
                      /\ r.stage # "input" /\ r.id \notin restored => r.id \notin disposed
                      /\ r.stage # "input" /\ r.id \notin restored => model[r.codeEditor] # r.id
                      /\ r.current /\ widget[r.codeEditor] # None => widget[r.codeEditor] = r.id

(* One editor that never came back has one request for its model. *)
OneRequest == \A r, q \in requests : r.id = q.id /\ r.id \notin restored => r = q

(* Widgets and models are of drawn editors, a widget of one of its code editor. *)
WidgetsSound ==
  /\ \A c \in CodeEditors : widget[c] # None => codeEditor[widget[c]] = c /\ widget[c] \in Drawn
  /\ \A c \in CodeEditors : model[c] # None => model[c] \in Drawn
  /\ disposed \subseteq Drawn

(* An editor names no reference before it is drawn, and no copy of the map says it does. *)
UndrawnNamesNone == \A id \in Ids \ Drawn : currentReference[id] = None

CopiesSound ==
  \A w \in Writers : copies[w] # None =>
    /\ copies[w].editors \subseteq Created
    /\ \A id \in Ids \ Drawn : copies[w].reference[id] = None
    /\ \A c \in CodeEditors :
         widget[c] \notin restored \cup {None} => copies[w].reference[widget[c]] \in {None, widget[c]}

IInv == /\ TypeOK /\ HostsAlive /\ ModelOfWidget /\ NoModelLeaks /\ ShownNamesOwnReference
        /\ RequestsSound /\ OneRequest /\ WidgetsSound /\ UndrawnNamesNone /\ CopiesSound
-----------------------------------------------------------------------------
(* What superseding the requests of c leaves of a request. *)
Kept(q, c) == \E r \in requests : /\ q.id = r.id
                                  /\ q.codeEditor = r.codeEditor
                                  /\ q.stage = r.stage
                                  /\ q.current = (r.current /\ r.codeEditor # c)
                                  /\ q \in Request

(* A request that is not cancelled is kept. *)
LEMMA SupersededKeeps ==
  ASSUME requests \subseteq Request, NEW c
  PROVE  /\ \A q \in Superseded(c) : Kept(q, c)
         /\ \A r \in requests \ Cancels(c) : \E q \in Superseded(c) : q.id = r.id /\ q.stage = r.stage
<1>1. ASSUME NEW r \in requests
      PROVE  LET q == [r EXCEPT !.current = r.current /\ r.codeEditor # c]
             IN  /\ q.id = r.id /\ q.codeEditor = r.codeEditor /\ q.stage = r.stage
                 /\ q.current = (r.current /\ r.codeEditor # c)
                 /\ q \in Request
  BY DEF Request
<1>2. ASSUME NEW q \in Superseded(c) PROVE Kept(q, c)
  <2>1. PICK r \in requests \ Cancels(c) : q = [r EXCEPT !.current = r.current /\ r.codeEditor # c]
    BY DEF Superseded
  <2>2. r \in requests
    OBVIOUS
  <2> QED BY <1>1, <2>1, <2>2 DEF Kept
<1>3. ASSUME NEW r \in requests \ Cancels(c)
      PROVE  \E q \in Superseded(c) : q.id = r.id /\ q.stage = r.stage
  <2>1. [r EXCEPT !.current = r.current /\ r.codeEditor # c] \in Superseded(c)
    BY DEF Superseded
  <2>2. r \in requests
    OBVIOUS
  <2> QED BY <1>1, <2>1, <2>2
<1>4. QED
  BY <1>2, <1>3

LEMMA SupersededIsFunction ==
  ASSUME OneRequest, NEW c, requests \subseteq Request
  PROVE  \A p, q \in Superseded(c) : p.id = q.id /\ p.id \notin restored => p = q
<1> SUFFICES ASSUME NEW p \in Superseded(c), NEW q \in Superseded(c), p.id = q.id, p.id \notin restored
             PROVE  p = q
  OBVIOUS
<1>1. PICK r \in requests : p = [r EXCEPT !.current = r.current /\ r.codeEditor # c]
  BY DEF Superseded
<1>2. PICK s \in requests : q = [s EXCEPT !.current = s.current /\ s.codeEditor # c]
  BY DEF Superseded
<1>3. p.id = r.id /\ q.id = s.id
  BY <1>1, <1>2 DEF Request
<1>4. QED
  BY <1>1, <1>2, <1>3 DEF OneRequest
-----------------------------------------------------------------------------
LEMMA InitHolds == Init => IInv
<1> SUFFICES ASSUME Init PROVE IInv
  OBVIOUS
<1>1. TypeOK
  BY DEF Init, TypeOK, Created
<1>2. HostsAlive /\ ModelOfWidget /\ NoModelLeaks /\ ShownNamesOwnReference
  BY DEF Init, HostsAlive, ModelOfWidget, NoModelLeaks, ShownNamesOwnReference
<1>3. RequestsSound /\ OneRequest /\ WidgetsSound /\ UndrawnNamesNone /\ CopiesSound
  BY DEF Init, RequestsSound, OneRequest, WidgetsSound, UndrawnNamesNone, CopiesSound
<1>4. QED
  BY <1>1, <1>2, <1>3 DEF IInv

(* A step of which the invariant says nothing. *)
LEMMA FrameStep ==
  ASSUME IInv, searches' \subseteq CodeEditors, closing' \subseteq Created, onCanvas' \subseteq onCanvas,
         UNCHANGED <<alive, codeEditor, currentReference, writers, copies, restored, mounted, controllers>>
  PROVE  IInv'
<1>1. TypeOK'
  BY DEF IInv, TypeOK, Created, controllers
<1>2. HostsAlive' /\ ModelOfWidget' /\ NoModelLeaks' /\ ShownNamesOwnReference'
  BY DEF IInv, HostsAlive, ModelOfWidget, NoModelLeaks, ShownNamesOwnReference, controllers
<1>3. RequestsSound' /\ OneRequest' /\ WidgetsSound'
  BY DEF IInv, RequestsSound, OneRequest, WidgetsSound, Drawn, controllers
<1>4. UndrawnNamesNone' /\ CopiesSound'
  BY DEF IInv, UndrawnNamesNone, CopiesSound, Drawn, Created, controllers
<1>5. QED
  BY <1>1, <1>2, <1>3, <1>4 DEF IInv

(* A search starts or answers. *)
LEMMA SearchStep ==
  ASSUME IInv, NEW c \in CodeEditors, FindReferences(c) \/ createReferencesEditor(c)
  PROVE  IInv'
<1>1. CASE FindReferences(c)
  <2>1. searches' \subseteq CodeEditors /\ closing' \subseteq Created
    BY <1>1 DEF FindReferences, IInv, TypeOK
  <2>2. QED
    BY <1>1, <2>1, FrameStep DEF FindReferences, store
<1>2. CASE createReferencesEditor(c) /\ UNCHANGED <<codeEditor, onCanvas>>
  <2>1. searches' \subseteq CodeEditors /\ closing' \subseteq Created
    BY <1>2 DEF createReferencesEditor, IInv, TypeOK
  <2>2. QED
    BY <1>2, <2>1, FrameStep DEF createReferencesEditor
<1>3. CASE createReferencesEditor(c) /\ c \in alive /\ NewEditor(c)
  <2>1. PICK id \in Ids \ Created : /\ codeEditor' = [codeEditor EXCEPT ![id] = c]
                                    /\ onCanvas' = onCanvas \cup {id}
    BY <1>3 DEF NewEditor
  <2>2. /\ searches' = searches \ {c}
        /\ UNCHANGED <<alive, currentReference, writers, copies, restored, mounted, widget, model, disposed,
                       requests, cancelled, closing>>
    BY <1>3 DEF createReferencesEditor, controllers
  <2>3. /\ codeEditor \in [Ids -> CodeEditors \cup {None}]
        /\ codeEditor[id] = None /\ Created' = Created \cup {id}
        /\ \A i \in Created : codeEditor'[i] = codeEditor[i]
    BY <2>1 DEF IInv, TypeOK, Created
  <2>4. TypeOK'
    BY <2>1, <2>2, <2>3 DEF IInv, TypeOK
  <2>5. Drawn \subseteq Created /\ Drawn' = Drawn /\ Created \subseteq Ids
    BY <2>2 DEF IInv, TypeOK, Drawn, Created
  <2>6. HostsAlive'
    BY <1>3, <2>1, <2>2, <2>3 DEF IInv, TypeOK, HostsAlive
  <2>7. ModelOfWidget' /\ WidgetsSound'
    BY <2>2, <2>3, <2>5 DEF IInv, TypeOK, ModelOfWidget, WidgetsSound
  <2>8. NoModelLeaks' /\ RequestsSound'
    BY <2>2, <2>3, <2>5 DEF IInv, TypeOK, NoModelLeaks, RequestsSound
  <2>9. ShownNamesOwnReference' /\ OneRequest' /\ UndrawnNamesNone' /\ CopiesSound'
    BY <2>2, <2>3, <2>5 DEF IInv, ShownNamesOwnReference, OneRequest, UndrawnNamesNone, CopiesSound
  <2>10. QED
    BY <2>4, <2>6, <2>7, <2>8, <2>9 DEF IInv
<1>4. QED
  BY <1>1, <1>2, <1>3 DEF createReferencesEditor

(* What dropping the widget of c does to models and requests. *)
LEMMA DropFacts ==
  ASSUME IInv, NEW c \in CodeEditors, DropWidget(c)
  PROVE  /\ requests \subseteq Request
         /\ \A q \in Superseded(c) : Kept(q, c)
         /\ \A r \in requests \ Cancels(c) : \E q \in Superseded(c) : q.id = r.id /\ q.stage = r.stage
         /\ \A p, q \in Superseded(c) : p.id = q.id /\ p.id \notin restored => p = q
         /\ model' = [model EXCEPT ![c] = None]
         /\ disposed' = disposed \cup ({model[c]} \ {None})
         /\ cancelled' = cancelled \cup {r.id : r \in Cancels(c)}
         /\ Cancels(c) \subseteq requests
         /\ cancelled' \subseteq Created /\ disposed' \subseteq Created /\ disposed' \subseteq Drawn
         /\ model'[c] = None
         /\ \A d \in CodeEditors \ {c} : model'[d] = model[d]
         /\ model[c] = None \/ (model[c] \in Drawn /\ codeEditor[model[c]] = c)
         /\ model' \in [CodeEditors -> Created \cup {None}]
<1>1. /\ requests \subseteq Request
      /\ \A q \in Superseded(c) : Kept(q, c)
      /\ \A r \in requests \ Cancels(c) : \E q \in Superseded(c) : q.id = r.id /\ q.stage = r.stage
      /\ \A p, q \in Superseded(c) : p.id = q.id /\ p.id \notin restored => p = q
  BY SupersededKeeps, SupersededIsFunction DEF IInv, TypeOK
<1>2. /\ model' = [model EXCEPT ![c] = None]
      /\ disposed' = disposed \cup ({model[c]} \ {None})
      /\ cancelled' = cancelled \cup {r.id : r \in Cancels(c)}
  BY DEF DropWidget, Dropped
<1>3. /\ model'[c] = None /\ \A d \in CodeEditors \ {c} : model'[d] = model[d]
      /\ model[c] = None \/ (model[c] \in Drawn /\ codeEditor[model[c]] = c)
      /\ model' \in [CodeEditors -> Created \cup {None}]
  BY <1>2 DEF IInv, TypeOK, ModelOfWidget, WidgetsSound
<1>4. Cancels(c) \subseteq requests /\ Drawn \subseteq Created
  BY DEF Cancels, IInv, TypeOK, Drawn
<1>5. cancelled' \subseteq Created
  BY <1>2, <1>4 DEF IInv, TypeOK, RequestsSound
<1>6. disposed' \subseteq Drawn
  BY <1>2, <1>3 DEF IInv, WidgetsSound
<1>7. QED
  BY <1>1, <1>2, <1>3, <1>4, <1>5, <1>6

(* The parts of the invariant that do not look at the widget of c hold once it is dropped. *)
LEMMA DropStep ==
  ASSUME IInv, NEW c \in CodeEditors, DropWidget(c), UNCHANGED <<codeEditor, restored>>,
         mounted \subseteq mounted',
         widget' = [widget EXCEPT ![c] = widget'[c]]
  PROVE  /\ ModelOfWidget'
         /\ \A q \in Superseded(c) :
              /\ q.id \in Drawn
              /\ codeEditor[q.id] = q.codeEditor
              /\ q.stage # "input" /\ q.id \notin restored => q.id \notin disposed'
              /\ q.stage # "input" /\ q.id \notin restored => model'[q.codeEditor] # q.id
              /\ q.current /\ widget'[q.codeEditor] # None => widget'[q.codeEditor] = q.id
         /\ \A id \in mounted \ cancelled' :
              \/ id \in disposed'
              \/ model'[codeEditor[id]] = id
              \/ \E q \in Superseded(c) : q.id = id /\ q.stage # "input"
<1> HIDE NoneAssumption, CopyAssumption
<1>d. /\ requests \subseteq Request
      /\ \A q \in Superseded(c) : Kept(q, c)
      /\ \A r \in requests \ Cancels(c) : \E q \in Superseded(c) : q.id = r.id /\ q.stage = r.stage
      /\ disposed' = disposed \cup ({model[c]} \ {None})
      /\ cancelled' = cancelled \cup {r.id : r \in Cancels(c)}
      /\ model'[c] = None
      /\ \A d \in CodeEditors \ {c} : model'[d] = model[d]
      /\ model[c] = None \/ (model[c] \in Drawn /\ codeEditor[model[c]] = c)
  BY DropFacts
<1>w. \A d \in CodeEditors \ {c} : widget'[d] = widget[d]
  BY DEF IInv, TypeOK
<1>1. ASSUME NEW d \in CodeEditors, model'[d] # None
      PROVE  /\ widget'[d] = model'[d] /\ codeEditor'[model'[d]] = d
             /\ model'[d] \in restored' \/ model'[d] \notin disposed'
  <2>1. d # c /\ model'[d] = model[d] /\ widget'[d] = widget[d]
    BY <1>1, <1>d, <1>w
  <2>2. /\ widget[d] = model[d] /\ codeEditor[model[d]] = d
        /\ model[d] \in restored \/ model[d] \notin disposed
    BY <1>1, <2>1 DEF IInv, ModelOfWidget
  <2>3. model[d] # model[c]
    BY <1>1, <1>d, <2>1, <2>2
  <2>4. QED
    BY <1>d, <2>1, <2>2, <2>3
<1>2. ASSUME NEW q \in Superseded(c)
      PROVE  /\ q.id \in Drawn
             /\ codeEditor[q.id] = q.codeEditor
             /\ q.stage # "input" /\ q.id \notin restored => q.id \notin disposed'
             /\ q.stage # "input" /\ q.id \notin restored => model'[q.codeEditor] # q.id
             /\ q.current /\ widget'[q.codeEditor] # None => widget'[q.codeEditor] = q.id
  <2>1. PICK r \in requests : /\ q.id = r.id /\ q.codeEditor = r.codeEditor /\ q.stage = r.stage
                              /\ q.current = (r.current /\ r.codeEditor # c)
    BY <1>d DEF Kept
  <2>2. /\ r.id \in Drawn /\ codeEditor[r.id] = r.codeEditor
        /\ r.stage # "input" /\ r.id \notin restored => r.id \notin disposed
        /\ r.stage # "input" /\ r.id \notin restored => model[r.codeEditor] # r.id
        /\ r.current /\ widget[r.codeEditor] # None => widget[r.codeEditor] = r.id
    BY DEF IInv, RequestsSound
  <2>3. r.codeEditor \in CodeEditors /\ r.id \in Ids /\ r.id # None
    BY <1>d, NoneAssumption DEF Request
  <2>4. r.stage # "input" /\ r.id \notin restored => r.id # model[c]
    BY <1>d, <2>2, <2>3
  <2>5. q.stage # "input" /\ q.id \notin restored => q.id \notin disposed'
    BY <1>d, <2>1, <2>2, <2>4
  <2>6. q.stage # "input" /\ q.id \notin restored => model'[q.codeEditor] # q.id
    BY <1>d, <2>1, <2>2, <2>3
  <2>7. q.current /\ widget'[q.codeEditor] # None => widget'[q.codeEditor] = q.id
    BY <1>w, <2>1, <2>2, <2>3
  <2>8. QED
    BY <2>1, <2>2, <2>5, <2>6, <2>7
<1>3. ASSUME NEW id \in mounted \ cancelled'
      PROVE  \/ id \in disposed'
             \/ model'[codeEditor[id]] = id
             \/ \E q \in Superseded(c) : q.id = id /\ q.stage # "input"
  <2>1. id # None /\ codeEditor[id] \in CodeEditors /\ id \notin cancelled
    BY <1>d, NoneAssumption DEF IInv, TypeOK, Created
  <2>2. CASE id \in disposed
    BY <1>d, <2>2
  <2>3. CASE model[codeEditor[id]] = id
    BY <1>d, <2>1, <2>3
  <2>4. ASSUME NEW r \in requests, r.id = id, r.stage # "input"
        PROVE  \E q \in Superseded(c) : q.id = id /\ q.stage # "input"
    <3>1. r \notin Cancels(c)
      BY <1>d, <2>4
    <3>2. QED
      BY <1>d, <2>4, <3>1
  <2>5. QED
    BY <2>1, <2>2, <2>3, <2>4 DEF IInv, NoModelLeaks
<1>4. QED
  BY <1>1, <1>2, <1>3 DEF ModelOfWidget

(* Closing the widget of c, which CloseWidget and CloseReferencesEditorEnd do.                              *)
LEMMA CloseStep ==
  ASSUME IInv, NEW c \in CodeEditors, closeWidget(c),
         closing' \subseteq closing,
         UNCHANGED <<alive, searches, store, mounted>>
  PROVE  IInv'
<1>1. /\ DropWidget(c) /\ widget' = [widget EXCEPT ![c] = None] /\ requests' = Superseded(c)
      /\ UNCHANGED <<alive, searches, codeEditor, onCanvas, currentReference, writers, copies, restored, mounted>>
  BY DEF closeWidget, store
<1>2. /\ widget'[c] = None /\ widget' = [widget EXCEPT ![c] = widget'[c]]
      /\ \A d \in CodeEditors \ {c} : widget'[d] = widget[d]
  BY <1>1 DEF IInv, TypeOK
<1>3. Drawn' = Drawn /\ Created' = Created
  BY <1>1 DEF Drawn, Created
<1>4. TypeOK'
  <2>1. requests' \subseteq Request
    BY <1>1, DropFacts DEF Kept
  <2>2. cancelled' \subseteq Created /\ disposed' \subseteq Created /\ model' \in [CodeEditors -> Created \cup {None}]
    BY <1>1, DropFacts
  <2>3. QED
    BY <1>1, <1>2, <1>3, <2>1, <2>2 DEF IInv, TypeOK
<1>5. HostsAlive' /\ UndrawnNamesNone' /\ ShownNamesOwnReference' /\ CopiesSound'
  BY <1>1, <1>2, <1>3 DEF IInv, HostsAlive, UndrawnNamesNone, ShownNamesOwnReference, CopiesSound
<1>6. WidgetsSound'
  <2>1. disposed' \subseteq Drawn /\ \A d \in CodeEditors : model'[d] \in {None, model[d]}
    BY <1>1, DropFacts
  <2>2. QED
    BY <1>1, <1>2, <1>3, <2>1 DEF IInv, WidgetsSound
<1>7. ModelOfWidget' /\ RequestsSound' /\ NoModelLeaks'
  BY <1>1, <1>2, <1>3, DropStep DEF RequestsSound, NoModelLeaks
<1>8. OneRequest'
  BY <1>1, DropFacts DEF OneRequest
<1>9. QED
  BY <1>4, <1>5, <1>6, <1>7, <1>8 DEF IInv

(* The effect of a new editor: its widget takes the place of the one before.                                *)
LEMMA ToggleStep ==
  ASSUME IInv, NEW id \in Ids, createReferencesEditorElement(id)
  PROVE  IInv'
<1> DEFINE c == codeEditor[id]
           new == [codeEditor |-> c, id |-> id, stage |-> "pending", current |-> TRUE]
<1>1. /\ id \in onCanvas \ mounted
      /\ mounted' = mounted \cup {id}
      /\ widget' = [widget EXCEPT ![c] = id]
      /\ DropWidget(c)
      /\ requests' = Superseded(c) \cup {new}
      /\ UNCHANGED <<alive, searches, codeEditor, onCanvas, currentReference, writers, copies, restored, closing>>
  BY DEF createReferencesEditorElement, store
<1>2. c \in CodeEditors /\ id # None /\ id \in Created
  BY <1>1 DEF IInv, TypeOK, Created
<1>3. /\ new \in Request /\ new.id = id /\ new.codeEditor = c /\ new.stage = "pending" /\ new.current
  BY <1>2 DEF Request
<1>c. codeEditor[id] = c
  OBVIOUS
<1> HIDE DEF new, c
<1>4. /\ widget'[c] = id /\ widget' = [widget EXCEPT ![c] = widget'[c]]
      /\ \A d \in CodeEditors \ {c} : widget'[d] = widget[d]
  BY <1>1, <1>2 DEF IInv, TypeOK
<1>5. /\ Drawn' = Drawn \cup {id} /\ Created' = Created
      /\ id \in restored \/ id \notin Drawn
  BY <1>1 DEF Drawn, Created
<1>6. TypeOK'
  <2>1. requests' \subseteq Request
    BY <1>1, <1>2, <1>3, DropFacts DEF Kept
  <2>2. cancelled' \subseteq Created /\ disposed' \subseteq Created /\ model' \in [CodeEditors -> Created \cup {None}]
    BY <1>1, <1>2, DropFacts
  <2>3. QED
    BY <1>1, <1>2, <1>5, <2>1, <2>2 DEF IInv, TypeOK
<1>7. HostsAlive' /\ UndrawnNamesNone'
  BY <1>1, <1>5 DEF IInv, HostsAlive, UndrawnNamesNone
<1>8. id \notin restored => currentReference[id] = None
  BY <1>5 DEF IInv, UndrawnNamesNone
<1>9. ShownNamesOwnReference'
  BY <1>1, <1>4, <1>8 DEF IInv, ShownNamesOwnReference
<1>10. CopiesSound'
  <2> SUFFICES ASSUME NEW w \in Writers, copies[w] # None
               PROVE  /\ copies[w].editors \subseteq Created
                      /\ \A i \in Ids \ Drawn' : copies[w].reference[i] = None
                      /\ \A d \in CodeEditors :
                           widget'[d] \notin restored \cup {None} => copies[w].reference[widget'[d]] \in {None, widget'[d]}
    BY <1>1, <1>5 DEF CopiesSound
  <2>1. /\ copies[w].editors \subseteq Created
        /\ \A i \in Ids \ Drawn : copies[w].reference[i] = None
        /\ \A d \in CodeEditors :
             widget[d] \notin restored \cup {None} => copies[w].reference[widget[d]] \in {None, widget[d]}
    BY DEF IInv, CopiesSound
  <2>2. QED
    BY <1>4, <1>5, <2>1
<1>11. WidgetsSound'
  <2>1. disposed' \subseteq Drawn /\ \A d \in CodeEditors : model'[d] \in {None, model[d]}
    BY <1>1, <1>2, DropFacts
  <2>2. QED
    BY <1>1, <1>4, <1>5, <1>c, <2>1 DEF IInv, WidgetsSound
<1>12. /\ ModelOfWidget'
       /\ \A q \in Superseded(c) :
            /\ q.id \in Drawn
            /\ codeEditor[q.id] = q.codeEditor
            /\ q.stage # "input" /\ q.id \notin restored => q.id \notin disposed'
            /\ q.stage # "input" /\ q.id \notin restored => model'[q.codeEditor] # q.id
            /\ q.current /\ widget'[q.codeEditor] # None => widget'[q.codeEditor] = q.id
       /\ \A i \in mounted \ cancelled' :
            \/ i \in disposed'
            \/ model'[codeEditor[i]] = i
            \/ \E q \in Superseded(c) : q.id = i /\ q.stage # "input"
  <2>1. mounted \subseteq mounted'
    BY <1>1
  <2>2. QED
    BY <1>1, <1>2, <1>4, <2>1, DropStep
<1>13. NoModelLeaks'
  <2>1. new \in requests' /\ Superseded(c) \subseteq requests'
    BY <1>1
  <2>2. QED
    BY <1>1, <1>3, <1>12, <2>1 DEF NoModelLeaks
<1>14. RequestsSound'
  <2> SUFFICES ASSUME NEW q \in requests'
               PROVE  /\ q.id \in Drawn'
                      /\ codeEditor[q.id] = q.codeEditor
                      /\ q.stage # "input" /\ q.id \notin restored => q.id \notin disposed'
                      /\ q.stage # "input" /\ q.id \notin restored => model'[q.codeEditor] # q.id
                      /\ q.current /\ widget'[q.codeEditor] # None => widget'[q.codeEditor] = q.id
    BY <1>1 DEF RequestsSound
  <2>1. CASE q = new
    <3>1. id \notin restored => id \notin disposed'
      BY <1>1, <1>2, <1>5, DropFacts
    <3>2. model'[c] = None
      BY <1>1, <1>2, DropFacts
    <3>3. QED
      BY <1>2, <1>3, <1>4, <1>5, <1>c, <2>1, <3>1, <3>2
  <2>2. CASE q \in Superseded(c)
    BY <1>5, <1>12, <2>2
  <2>3. QED
    BY <1>1, <2>1, <2>2
<1>15. OneRequest'
  <2>1. \A p, q \in Superseded(c) : p.id = q.id /\ p.id \notin restored => p = q
    BY <1>1, <1>2, DropFacts
  <2>2. \A q \in Superseded(c) : q.id = id => id \in restored
    BY <1>5, <1>12
  <2>3. QED
    BY <1>1, <1>3, <2>1, <2>2 DEF OneRequest
<1>16. QED
  BY <1>6, <1>7, <1>9, <1>10, <1>11, <1>12, <1>13, <1>14, <1>15 DEF IInv
-----------------------------------------------------------------------------
(* The promise of a model settles.                                                                          *)
LEMMA ResolveStep ==
  ASSUME IInv, NEW r \in requests, ModelResolves(r)
  PROVE  IInv'
<1> DEFINE settled == [r EXCEPT !.stage = "model"]
<1>1. /\ r.stage = "pending" /\ requests' = (requests \ {r}) \cup {settled}
      /\ UNCHANGED <<alive, searches, codeEditor, onCanvas, currentReference, writers, copies, restored, mounted,
                     widget, model, disposed, cancelled, closing>>
  BY DEF ModelResolves, store
<1>2. /\ r \in Request /\ settled \in Request /\ settled.id = r.id /\ settled.codeEditor = r.codeEditor
      /\ settled.stage = "model" /\ settled.current = r.current
  BY DEF IInv, TypeOK, Request
<1> HIDE DEF settled
<1>3. TypeOK'
  BY <1>1, <1>2 DEF IInv, TypeOK, Created
<1>4. HostsAlive' /\ ModelOfWidget' /\ ShownNamesOwnReference' /\ WidgetsSound' /\ UndrawnNamesNone' /\ CopiesSound'
  BY <1>1 DEF IInv, HostsAlive, ModelOfWidget, ShownNamesOwnReference, WidgetsSound, UndrawnNamesNone, CopiesSound,
     Drawn, Created
<1>5. NoModelLeaks'
  BY <1>1, <1>2 DEF IInv, NoModelLeaks
<1>6. RequestsSound'
  BY <1>1, <1>2 DEF IInv, RequestsSound, Drawn
<1>7. OneRequest'
  BY <1>1, <1>2 DEF IInv, OneRequest
<1>8. QED
  BY <1>3, <1>4, <1>5, <1>6, <1>7 DEF IInv

(* A model of the latest request goes to the widget it was asked for.                                       *)
LEMMA ModelTakenStep ==
  ASSUME IInv, NEW r \in requests, r.stage = "model", r.current, widget[r.codeEditor] # None, TakeModel(r),
         UNCHANGED <<alive, searches, store, mounted, widget, cancelled, closing>>
  PROVE  IInv'
<1> DEFINE c == r.codeEditor
           shown == [r EXCEPT !.stage = "input"]
<1>1. /\ model' = [model EXCEPT ![c] = r.id]
      /\ disposed' = disposed \cup ({model[c]} \ {None})
      /\ requests' = (requests \ {r}) \cup {shown}
      /\ UNCHANGED <<alive, searches, codeEditor, onCanvas, currentReference, writers, copies, restored, mounted,
                     widget, cancelled, closing>>
  BY DEF TakeModel, Dropped, store
<1>2. /\ r \in Request /\ c \in CodeEditors /\ r.id \in Ids /\ r.id # None
      /\ shown \in Request /\ shown.id = r.id /\ shown.codeEditor = c /\ shown.stage = "input" /\ shown.current
  BY DEF IInv, TypeOK, Request
<1>w. widget[c] # None
  OBVIOUS
<1> HIDE DEF shown, c
<1>3. /\ r.id \in Drawn /\ codeEditor[r.id] = c /\ widget[c] = r.id
      /\ r.id \notin restored => r.id \notin disposed /\ model[c] # r.id
  BY <1>w DEF IInv, RequestsSound, c
<1>4. /\ model'[c] = r.id
      /\ \A d \in CodeEditors \ {c} : model'[d] = model[d]
      /\ model[c] = None \/ (model[c] \in Drawn /\ codeEditor[model[c]] = c)
  BY <1>1, <1>2 DEF IInv, TypeOK, ModelOfWidget, WidgetsSound
<1>5. \A q \in requests : q # r => q.id # r.id \/ q.id \in restored
  BY DEF IInv, OneRequest
<1>6. Drawn' = Drawn /\ Created' = Created /\ Drawn \subseteq Created
  BY <1>1 DEF Drawn, Created, IInv, TypeOK
<1>7. TypeOK'
  BY <1>1, <1>2, <1>3, <1>4, <1>6 DEF IInv, TypeOK
<1>8. HostsAlive' /\ UndrawnNamesNone' /\ ShownNamesOwnReference' /\ CopiesSound'
  BY <1>1, <1>6 DEF IInv, HostsAlive, UndrawnNamesNone, ShownNamesOwnReference, CopiesSound
<1>9. WidgetsSound'
  BY <1>1, <1>3, <1>4, <1>6 DEF IInv, WidgetsSound
<1>10. ModelOfWidget'
  <2> SUFFICES ASSUME NEW d \in CodeEditors, model'[d] # None
               PROVE  /\ widget[d] = model'[d] /\ codeEditor[model'[d]] = d
                      /\ model'[d] \in restored \/ model'[d] \notin disposed'
    BY <1>1 DEF ModelOfWidget
  <2>1. CASE d = c
    BY <1>1, <1>3, <1>4, <2>1
  <2>2. CASE d # c
    <3>1. /\ widget[d] = model[d] /\ codeEditor[model[d]] = d /\ model'[d] = model[d]
          /\ model[d] \in restored \/ model[d] \notin disposed
      BY <1>4, <2>2 DEF IInv, ModelOfWidget
    <3>2. QED
      BY <1>1, <1>4, <2>2, <3>1
  <2>3. QED
    BY <2>1, <2>2
<1>11. NoModelLeaks'
  <2> SUFFICES ASSUME NEW id \in mounted \ cancelled
               PROVE  \/ id \in disposed'
                      \/ model'[codeEditor[id]] = id
                      \/ \E q \in requests' : q.id = id /\ q.stage # "input"
    BY <1>1 DEF NoModelLeaks
  <2>1. id # None /\ codeEditor[id] \in CodeEditors
    BY DEF IInv, TypeOK, Created
  <2>2. CASE id = r.id
    BY <1>3, <1>4, <2>2
  <2>3. CASE id \in disposed
    BY <1>1, <2>3
  <2>4. CASE model[codeEditor[id]] = id
    BY <1>1, <1>4, <2>1, <2>4
  <2>5. CASE id # r.id /\ \E q \in requests : q.id = id /\ q.stage # "input"
    BY <1>1, <2>5
  <2>6. QED
    BY <2>2, <2>3, <2>4, <2>5 DEF IInv, NoModelLeaks
<1>12. RequestsSound'
  <2> SUFFICES ASSUME NEW q \in requests'
               PROVE  /\ q.id \in Drawn
                      /\ codeEditor[q.id] = q.codeEditor
                      /\ q.stage # "input" /\ q.id \notin restored => q.id \notin disposed'
                      /\ q.stage # "input" /\ q.id \notin restored => model'[q.codeEditor] # q.id
                      /\ q.current /\ widget[q.codeEditor] # None => widget[q.codeEditor] = q.id
    BY <1>1, <1>6 DEF RequestsSound
  <2>1. CASE q = shown
    BY <1>2, <1>3, <2>1
  <2>2. CASE q \in requests /\ q # r
    <3>1. /\ q.id \in Drawn /\ codeEditor[q.id] = q.codeEditor
          /\ q.stage # "input" /\ q.id \notin restored => q.id \notin disposed
          /\ q.stage # "input" /\ q.id \notin restored => model[q.codeEditor] # q.id
          /\ q.current /\ widget[q.codeEditor] # None => widget[q.codeEditor] = q.id
      BY <2>2 DEF IInv, RequestsSound
    <3>2. q.codeEditor \in CodeEditors /\ q.id # None /\ (q.id # r.id \/ q.id \in restored)
      BY <1>5, <2>2 DEF IInv, TypeOK, Request
    <3>3. q.stage # "input" /\ q.id \notin restored => q.id # model[c]
      BY <1>4, <3>1, <3>2
    <3>4. QED
      BY <1>1, <1>4, <3>1, <3>2, <3>3
  <2>3. QED
    BY <1>1, <2>1, <2>2
<1>13. OneRequest'
  BY <1>1, <1>2, <1>5 DEF IInv, OneRequest
<1>14. QED
  BY <1>7, <1>8, <1>9, <1>10, <1>11, <1>12, <1>13 DEF IInv

(* A model that comes too late is disposed.                                                                 *)
LEMMA ModelDroppedStep ==
  ASSUME IInv, NEW r \in requests, r.stage = "model", DisposeModel(r), ~ r.current \/ widget[r.codeEditor] = None,
         UNCHANGED <<alive, searches, store, mounted, widget, cancelled, closing>>
  PROVE  IInv'
<1>1. /\ disposed' = disposed \cup {r.id}
      /\ requests' = requests \ {r}
      /\ UNCHANGED <<alive, searches, codeEditor, onCanvas, currentReference, writers, copies, restored, mounted,
                     widget, model, cancelled, closing>>
  BY DEF DisposeModel, store
<1>2. /\ r.id \in Drawn /\ codeEditor[r.id] = r.codeEditor /\ r.id # None /\ r.codeEditor \in CodeEditors
      /\ r.id \notin restored => model[r.codeEditor] # r.id
  BY DEF IInv, TypeOK, Request, RequestsSound
<1>3. Drawn' = Drawn /\ Created' = Created /\ Drawn \subseteq Created
  BY <1>1 DEF Drawn, Created, IInv, TypeOK
<1>4. TypeOK'
  BY <1>1, <1>2, <1>3 DEF IInv, TypeOK
<1>5. HostsAlive' /\ UndrawnNamesNone' /\ ShownNamesOwnReference' /\ OneRequest' /\ CopiesSound'
  BY <1>1, <1>3 DEF IInv, HostsAlive, UndrawnNamesNone, ShownNamesOwnReference, OneRequest, CopiesSound
<1>6. WidgetsSound'
  BY <1>1, <1>2, <1>3 DEF IInv, WidgetsSound
<1>7. ModelOfWidget'
  BY <1>1, <1>2 DEF IInv, ModelOfWidget
<1>8. NoModelLeaks'
  BY <1>1 DEF IInv, NoModelLeaks
<1>9. RequestsSound'
  BY <1>1, <1>3 DEF IInv, RequestsSound, OneRequest
<1>10. QED
  BY <1>4, <1>5, <1>6, <1>7, <1>8, <1>9 DEF IInv

(* An editor of c names a reference of the model c has.                                                     *)
LEMMA ReferenceStep ==
  ASSUME IInv,
         NEW id \in Drawn, NEW c \in CodeEditors, widget[c] # None, model[c] # None, codeEditor[id] = c,
         setCurrentReference(id, model[c]),
         \A r \in requests' : r \in requests,
         \A r \in requests : r.stage # "input" => r \in requests',
         UNCHANGED <<alive, searches, codeEditor, onCanvas, writers, copies, restored, mounted, widget, model,
                     disposed, cancelled, closing>>
  PROVE  IInv'
<1>1. widget[c] = model[c] /\ model[c] \in Ids /\ id \in Ids
  BY DEF IInv, TypeOK, ModelOfWidget, Drawn, Created
<1>2. Drawn' = Drawn /\ Created' = Created
  BY DEF Drawn, Created
<1>3. TypeOK'
  BY <1>1, <1>2 DEF IInv, TypeOK, setCurrentReference
<1>4. HostsAlive' /\ WidgetsSound' /\ ModelOfWidget' /\ NoModelLeaks' /\ CopiesSound'
  BY <1>2 DEF IInv, HostsAlive, WidgetsSound, ModelOfWidget, NoModelLeaks, CopiesSound
<1>5. RequestsSound' /\ OneRequest'
  BY <1>2 DEF IInv, RequestsSound, OneRequest
<1>6. \A i \in Ids : i # id => currentReference'[i] = currentReference[i]
  BY <1>1 DEF IInv, TypeOK, setCurrentReference
<1>7. UndrawnNamesNone'
  BY <1>2, <1>6 DEF IInv, UndrawnNamesNone
<1>8. ShownNamesOwnReference'
  <2> SUFFICES ASSUME NEW d \in CodeEditors, widget[d] \notin restored \cup {None}
               PROVE  currentReference'[widget[d]] \in {None, widget[d]}
    BY DEF ShownNamesOwnReference
  <2>1. widget[d] \in Ids /\ codeEditor[widget[d]] = d
    BY DEF IInv, TypeOK, WidgetsSound, Created
  <2>2. CASE widget[d] = id
    BY <1>1, <2>1, <2>2 DEF IInv, TypeOK, ShownNamesOwnReference, setCurrentReference
  <2>3. CASE widget[d] # id
    BY <1>6, <2>1, <2>3 DEF IInv, ShownNamesOwnReference
  <2>4. QED
    BY <2>2, <2>3
<1>9. QED
  BY <1>3, <1>4, <1>5, <1>7, <1>8 DEF IInv

LEMMA InputStep ==
  ASSUME IInv, NEW r \in requests, InputShown(r)
  PROVE  IInv'
<1>1. /\ r.stage = "input"
      /\ requests' = requests \ {r}
      /\ UNCHANGED <<alive, searches, codeEditor, onCanvas, writers, copies, restored, mounted, widget, model,
                     disposed, cancelled, closing>>
  BY DEF InputShown
<1>2. r.id \in Drawn /\ codeEditor[r.id] = r.codeEditor /\ r.codeEditor \in CodeEditors
  BY DEF IInv, TypeOK, Request, RequestsSound
<1>3. /\ \A q \in requests' : q \in requests
      /\ \A q \in requests : q.stage # "input" => q \in requests'
  BY <1>1
<1>4. CASE widget[r.codeEditor] # None /\ model[r.codeEditor] # None
  <2>1. setCurrentReference(r.id, model[r.codeEditor])
    BY <1>4 DEF InputShown
  <2>2. QED
    BY <1>1, <1>2, <1>3, <1>4, <2>1, ReferenceStep
<1>5. CASE ~ (widget[r.codeEditor] # None /\ model[r.codeEditor] # None)
  <2>1. UNCHANGED currentReference
    BY <1>5 DEF InputShown
  <2>2. Drawn' = Drawn /\ Created' = Created
    BY <1>1 DEF Drawn, Created
  <2>3. TypeOK' /\ HostsAlive' /\ ModelOfWidget' /\ NoModelLeaks' /\ ShownNamesOwnReference'
    BY <1>1, <1>3, <2>1, <2>2 DEF IInv, TypeOK, HostsAlive, ModelOfWidget, NoModelLeaks, ShownNamesOwnReference
  <2>4. RequestsSound' /\ OneRequest' /\ WidgetsSound' /\ UndrawnNamesNone' /\ CopiesSound'
    BY <1>1, <1>3, <2>1, <2>2 DEF IInv, RequestsSound, OneRequest, WidgetsSound, UndrawnNamesNone, CopiesSound
  <2>5. QED
    BY <2>3, <2>4 DEF IInv
<1>6. QED
  BY <1>4, <1>5

LEMMA ShowStep ==
  ASSUME IInv, NEW c \in CodeEditors, ShowReference(c)
  PROVE  IInv'
<1>1. widget[c] \in Drawn /\ codeEditor[widget[c]] = c
  BY DEF ShowReference, IInv, WidgetsSound
<1>2. QED
  BY <1>1, ReferenceStep DEF ShowReference, controllers
-----------------------------------------------------------------------------
(* An editor leaves the canvas by closeReferencesEditor or closeEditor.                                     *)
LEMMA LeaveStep ==
  ASSUME IInv, NEW id \in Ids, closeReferencesEditor(id) \/ closeEditor(id)
  PROVE  IInv'
<1>1. /\ id \in onCanvas
      /\ onCanvas' = onCanvas \ {id}
      /\ closing' = closing \/ closing' = closing \cup {id}
      /\ UNCHANGED <<alive, searches, codeEditor, currentReference, writers, copies, restored, mounted, controllers>>
  BY DEF closeReferencesEditor, closeEditor
<1>2. searches' \subseteq CodeEditors /\ closing' \subseteq Created
  BY <1>1 DEF IInv, TypeOK
<1>3. QED
  BY <1>1, <1>2, FrameStep

(* The code editor is disposed: its controller drops widget and model, and keeps its requests.              *)
LEMMA DisposeStep ==
  ASSUME IInv, NEW c \in CodeEditors, DisposeCodeEditor(c)
  PROVE  IInv'
<1>1. /\ alive' = alive \ {c}
      /\ onCanvas' = {id \in onCanvas : codeEditor[id] # c}
      /\ widget' = [widget EXCEPT ![c] = None]
      /\ model' = [model EXCEPT ![c] = None]
      /\ disposed' = disposed \cup ({model[c]} \ {None})
      /\ UNCHANGED <<searches, codeEditor, currentReference, writers, copies, restored, mounted, requests, cancelled,
                     closing>>
  BY DEF DisposeCodeEditor, respondToCodeEditorClosing, Dropped
<1>2. /\ widget'[c] = None /\ model'[c] = None
      /\ \A d \in CodeEditors \ {c} : widget'[d] = widget[d] /\ model'[d] = model[d]
      /\ model[c] = None \/ (model[c] \in Drawn /\ codeEditor[model[c]] = c)
  BY <1>1 DEF IInv, TypeOK, ModelOfWidget, WidgetsSound
<1>3. Drawn' = Drawn /\ Created' = Created /\ Drawn \subseteq Created
  BY <1>1 DEF Drawn, Created, IInv, TypeOK
<1>4. TypeOK'
  BY <1>1, <1>2, <1>3 DEF IInv, TypeOK
<1>5. HostsAlive'
  BY <1>1 DEF IInv, HostsAlive
<1>6. WidgetsSound' /\ UndrawnNamesNone' /\ ShownNamesOwnReference' /\ OneRequest' /\ CopiesSound'
  BY <1>1, <1>2, <1>3 DEF IInv, WidgetsSound, UndrawnNamesNone, ShownNamesOwnReference, OneRequest, CopiesSound
<1>7. ModelOfWidget'
  BY <1>1, <1>2 DEF IInv, ModelOfWidget
<1>8. NoModelLeaks'
  <2> SUFFICES ASSUME NEW id \in mounted \ cancelled
               PROVE  \/ id \in disposed'
                      \/ model'[codeEditor[id]] = id
                      \/ \E r \in requests : r.id = id /\ r.stage # "input"
    BY <1>1 DEF NoModelLeaks
  <2>1. id # None /\ codeEditor[id] \in CodeEditors
    BY DEF IInv, TypeOK, Created
  <2>2. CASE model[codeEditor[id]] = id
    BY <1>1, <1>2, <2>1, <2>2
  <2>3. QED
    BY <1>1, <2>2 DEF IInv, NoModelLeaks
<1>9. RequestsSound'
  <2> SUFFICES ASSUME NEW q \in requests
               PROVE  /\ q.id \in Drawn
                      /\ codeEditor[q.id] = q.codeEditor
                      /\ q.stage # "input" /\ q.id \notin restored => q.id \notin disposed'
                      /\ q.stage # "input" /\ q.id \notin restored => model'[q.codeEditor] # q.id
                      /\ q.current /\ widget'[q.codeEditor] # None => widget'[q.codeEditor] = q.id
    BY <1>1, <1>3 DEF RequestsSound
  <2>1. /\ q.id \in Drawn /\ codeEditor[q.id] = q.codeEditor
        /\ q.stage # "input" /\ q.id \notin restored => q.id \notin disposed
        /\ q.stage # "input" /\ q.id \notin restored => model[q.codeEditor] # q.id
        /\ q.current /\ widget[q.codeEditor] # None => widget[q.codeEditor] = q.id
    BY DEF IInv, RequestsSound
  <2>2. q.codeEditor \in CodeEditors /\ q.id # None
    BY DEF IInv, TypeOK, Request
  <2>3. q.stage # "input" /\ q.id \notin restored => q.id # model[c]
    BY <1>2, <2>1, <2>2
  <2>4. QED
    BY <1>1, <1>2, <2>1, <2>2, <2>3
<1>10. QED
  BY <1>4, <1>5, <1>6, <1>7, <1>8, <1>9 DEF IInv
-----------------------------------------------------------------------------
(* An operation copies the map.                                                                             *)
LEMMA CopyStep ==
  ASSUME IInv, NEW w \in Writers, CopyMap(w)
  PROVE  IInv'
<1> DEFINE reference == [id \in Ids |-> IF id \in onCanvas THEN currentReference[id] ELSE None]
           copy == [editors |-> onCanvas, reference |-> reference]
<1>1. /\ writers' = writers \ {w} /\ copies' = [copies EXCEPT ![w] = copy]
      /\ UNCHANGED <<alive, searches, codeEditor, onCanvas, currentReference, restored, mounted, widget, model,
                     disposed, requests, cancelled, closing>>
  BY DEF CopyMap, controllers
<1>2. /\ reference \in [Ids -> Ids \cup {None}]
      /\ \A id \in Ids : reference[id] \in {None, currentReference[id]}
  BY DEF IInv, TypeOK
<1> HIDE DEF reference
<1>3. copy \in Copy /\ copy.editors = onCanvas /\ copy.reference = reference
  BY <1>2 DEF Copy, IInv, TypeOK, Created
<1> HIDE DEF copy
<1>4. copies'[w] = copy /\ \A v \in Writers \ {w} : copies'[v] = copies[v]
  BY <1>1 DEF IInv, TypeOK
<1>5. Drawn' = Drawn /\ Created' = Created
  BY <1>1 DEF Drawn, Created
<1>6. TypeOK'
  BY <1>1, <1>3, <1>5 DEF IInv, TypeOK
<1>7. HostsAlive' /\ ModelOfWidget' /\ NoModelLeaks' /\ ShownNamesOwnReference'
  BY <1>1 DEF IInv, HostsAlive, ModelOfWidget, NoModelLeaks, ShownNamesOwnReference
<1>8. RequestsSound' /\ OneRequest' /\ WidgetsSound' /\ UndrawnNamesNone'
  BY <1>1, <1>5 DEF IInv, RequestsSound, OneRequest, WidgetsSound, UndrawnNamesNone
<1>9. CopiesSound'
  <2>1. /\ copy.editors \subseteq Created
        /\ \A id \in Ids \ Drawn : copy.reference[id] = None
    BY <1>2, <1>3 DEF IInv, TypeOK, UndrawnNamesNone
  <2>2. ASSUME NEW c \in CodeEditors, widget[c] \notin restored \cup {None}
        PROVE  copy.reference[widget[c]] \in {None, widget[c]}
    <3>1. widget[c] \in Ids /\ currentReference[widget[c]] \in {None, widget[c]}
      BY <2>2 DEF IInv, TypeOK, ShownNamesOwnReference, Created
    <3>2. QED
      BY <1>2, <1>3, <3>1
  <2>3. QED
    BY <1>1, <1>4, <1>5, <2>1, <2>2 DEF IInv, CopiesSound
<1>10. QED
  BY <1>6, <1>7, <1>8, <1>9 DEF IInv

(* It writes the copy back: the editors that return are exempt from then on.                                *)
LEMMA WriteStep ==
  ASSUME IInv, NEW w \in Writers, WriteCopy(w)
  PROVE  IInv'
<1> DEFINE copy == copies[w]
           back == copy.editors \ onCanvas
<1>1. /\ copy # None /\ copies' = [copies EXCEPT ![w] = None] /\ onCanvas' = copy.editors
      /\ currentReference' =
           [id \in Ids |-> IF id \in copy.editors THEN copy.reference[id] ELSE currentReference[id]]
      /\ restored' = restored \cup back /\ mounted' = mounted \ back
      /\ UNCHANGED <<alive, searches, codeEditor, writers, widget, model, disposed, requests, cancelled, closing>>
  BY DEF WriteCopy, controllers
<1>2. /\ copy \in Copy /\ copy.editors \subseteq Created
      /\ \A id \in Ids \ Drawn : copy.reference[id] = None
      /\ \A c \in CodeEditors :
           widget[c] \notin restored \cup {None} => copy.reference[widget[c]] \in {None, widget[c]}
  BY <1>1 DEF IInv, TypeOK, CopiesSound
<1>3. /\ Created' = Created /\ back \subseteq Created /\ Drawn \subseteq Drawn'
      /\ back \subseteq restored' /\ restored \subseteq restored' /\ Drawn' \subseteq Drawn \cup back
  BY <1>1, <1>2 DEF Drawn, Created
<1>4. \A v \in Writers : copies'[v] \in {None, copies[v]}
  BY <1>1 DEF IInv, TypeOK
<1>5. \A id \in Ids : currentReference'[id] \in {copy.reference[id], currentReference[id]}
  BY <1>1
<1>6. copy.reference \in [Ids -> Ids \cup {None}]
  BY <1>2 DEF Copy
<1>7. TypeOK'
  <2>1. currentReference' \in [Ids -> Ids \cup {None}]
    BY <1>1, <1>6 DEF IInv, TypeOK
  <2>2. copies' \in [Writers -> Copy \cup {None}]
    BY <1>1 DEF IInv, TypeOK
  <2> HIDE DEF copy, back
  <2>3. QED
    BY <1>1, <1>2, <1>3, <2>1, <2>2 DEF IInv, TypeOK
<1>8. HostsAlive'
  BY <1>1 DEF IInv, HostsAlive
<1> HIDE DEF copy, back
<1>9. ModelOfWidget' /\ NoModelLeaks'
  BY <1>1, <1>3 DEF IInv, ModelOfWidget, NoModelLeaks
<1>10. ShownNamesOwnReference'
  <2> SUFFICES ASSUME NEW c \in CodeEditors, widget[c] \notin restored' \cup {None}
               PROVE  currentReference'[widget[c]] \in {None, widget[c]}
    BY <1>1 DEF ShownNamesOwnReference
  <2>1. /\ widget[c] \in Ids /\ copy.reference[widget[c]] \in {None, widget[c]}
        /\ currentReference[widget[c]] \in {None, widget[c]}
    BY <1>2, <1>3 DEF IInv, TypeOK, ShownNamesOwnReference, Created
  <2>2. QED
    BY <1>5, <2>1
<1>11. RequestsSound' /\ OneRequest' /\ WidgetsSound'
  BY <1>1, <1>3 DEF IInv, RequestsSound, OneRequest, WidgetsSound
<1>12. UndrawnNamesNone'
  BY <1>2, <1>3, <1>5 DEF IInv, UndrawnNamesNone
<1>13. CopiesSound'
  BY <1>1, <1>3, <1>4 DEF IInv, CopiesSound
<1>14. QED
  BY <1>7, <1>8, <1>9, <1>10, <1>11, <1>12, <1>13 DEF IInv
-----------------------------------------------------------------------------
LEMMA StepHolds == IInv /\ [Next]_vars => IInv'
<1> SUFFICES ASSUME IInv, [Next]_vars PROVE IInv'
  OBVIOUS
<1>t. searches \subseteq CodeEditors /\ closing \subseteq Created /\ onCanvas \subseteq onCanvas
  BY DEF IInv, TypeOK
<1>1. CASE UNCHANGED vars
  BY <1>1, <1>t, FrameStep DEF vars, store
<1>2. ASSUME NEW c \in CodeEditors, FindReferences(c) \/ createReferencesEditor(c) PROVE IInv'
  BY <1>2, SearchStep
<1>3. ASSUME NEW c \in CodeEditors, ShowReference(c) PROVE IInv'
  BY <1>3, ShowStep
<1>4. ASSUME NEW c \in CodeEditors, CloseWidget(c) PROVE IInv'
  BY <1>4, CloseStep DEF CloseWidget
<1>5. ASSUME NEW c \in CodeEditors, DisposeCodeEditor(c) PROVE IInv'
  BY <1>5, DisposeStep
<1>6. ASSUME NEW id \in Ids, createReferencesEditorElement(id) PROVE IInv'
  BY <1>6, ToggleStep
<1>7. ASSUME NEW id \in Ids, closeReferencesEditor(id) \/ closeEditor(id) PROVE IInv'
  BY <1>7, LeaveStep
<1>8. ASSUME NEW id \in Ids, CloseReferencesEditorEnd(id) PROVE IInv'
  <2>1. closing' \subseteq closing /\ UNCHANGED <<alive, searches, store, mounted>>
    BY <1>8 DEF CloseReferencesEditorEnd
  <2>2. CASE codeEditor[id] \in alive
    <3>1. codeEditor[id] \in CodeEditors /\ closeWidget(codeEditor[id])
      BY <1>8, <2>2 DEF CloseReferencesEditorEnd, IInv, TypeOK
    <3>2. QED
      BY <2>1, <3>1, CloseStep
  <2>3. CASE codeEditor[id] \notin alive
    <3>1. UNCHANGED controllers
      BY <1>8, <2>3 DEF CloseReferencesEditorEnd
    <3>2. QED
      BY <1>t, <2>1, <3>1, FrameStep DEF store
  <2>4. QED
    BY <2>2, <2>3
<1>9. ASSUME NEW r \in requests, ModelArrives(r) PROVE IInv'
  <2>1. CASE r.current /\ widget[r.codeEditor] # None
    BY <1>9, <2>1, ModelTakenStep DEF ModelArrives
  <2>2. CASE ~ r.current \/ widget[r.codeEditor] = None
    BY <1>9, <2>2, ModelDroppedStep DEF ModelArrives
  <2>3. QED
    BY <2>1, <2>2
<1>10. ASSUME NEW r \in requests, InputShown(r) PROVE IInv'
  BY <1>10, InputStep
<1>11. ASSUME NEW r \in requests, ModelResolves(r) PROVE IInv'
  BY <1>11, ResolveStep
<1>12. ASSUME NEW w \in Writers, CopyMap(w) \/ WriteCopy(w) PROVE IInv'
  BY <1>12, CopyStep, WriteStep
<1>13. QED
  BY <1>1, <1>2, <1>3, <1>4, <1>5, <1>6, <1>7, <1>8, <1>9, <1>10, <1>11, <1>12 DEF Next

LEMMA Inductive == Spec => []IInv
  BY InitHolds, StepHolds, PTL DEF Spec

(* The variables of the references editors keep their types. *)
THEOREM TypeCorrect == Spec => []TypeOK
  BY Inductive, PTL DEF IInv

(* No references editor outlives its code editor, in whatever order searches answer and code editors are    *)
(* disposed (createReferencesEditor, respondToCodeEditorClosing), unless an old copy of the map brings it   *)
(* back.                                                                                                    *)
THEOREM NoOrphans == Spec => []HostsAlive
  BY Inductive, PTL DEF IInv

(* A controller only ever shows the model of the editor its widget is in (toggleWidget's request counter).  *)
THEOREM ModelsInPlace == Spec => []ModelOfWidget
  BY Inductive, PTL DEF IInv

(* Only a promise cancelled before it settles loses its model: every other model of a drawn editor is held, *)
(* on its way or disposed (toggleWidget, closeWidget, dispose).                                             *)
THEOREM ModelsDisposed == Spec => []NoModelLeaks
  BY Inductive, PTL DEF IInv

(* A shown editor names only references of its own model, whichever continuations still run.                *)
THEOREM ReferencesInPlace == Spec => []ShownNamesOwnReference
  BY Inductive, PTL DEF IInv
=============================================================================
