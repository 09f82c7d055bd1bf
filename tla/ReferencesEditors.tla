-------------------------- MODULE ReferencesEditors --------------------------
(***************************************************************************)
(* References editors: the canvas editors that list the references of a    *)
(* symbol of a code editor.  The store keeps the editor; the               *)
(* ReferencesController of the code editor keeps the widget drawn inside   *)
(* it and the model of references the widget shows.  They are joined by    *)
(* promises: the search for the references, the model given to the widget, *)
(* the tree that takes the model as its input, and the closes that wait for*)
(* the service.  The code editor may go away between any two of these, and *)
(* an operation of the store that copied the map before an await of its own*)
(* may write the copy back, with the editors that were closed since.       *)
(*                                                                         *)
(* Every references editor has its own model, so a model is named by the   *)
(* uuid of its editor.  The controller's request counter only ever answers *)
(* "is this the latest request?" and is kept as that answer, in the field  *)
(* current of each outstanding request.  The widget has no field nodeId    *)
(* (its identifier is editorId), so the two deleteEditor(_widget.nodeId) of*)
(* the controller never happen: a widget that is closed leaves its editor  *)
(* on the canvas.                                                          *)
(***************************************************************************)
CONSTANTS
  CodeEditors,   \* the code editors
  Ids,           \* the uuids of references editors
  Writers,       \* the operations of the store that write a map they copied before an await
  None           \* undefined

ASSUME NoneAssumption == None \notin Ids \cup CodeEditors

\* A promise of a model, not settled yet (pending) or settled, or of the tree that shows it, with its
\* continuation to come.
Request == [codeEditor : CodeEditors, id : Ids, stage : {"pending", "model", "input"}, current : BOOLEAN]

\* A copy of the map: its references editors, and what each names as its current reference.
Copy == [editors : SUBSET Ids, reference : [Ids -> Ids \cup {None}]]

ASSUME CopyAssumption == None \notin Copy

VARIABLES
  alive,             \* the code editors that have not been disposed
  searches,          \* the code editors a search for references was started in
  codeEditor,        \* of each references editor created so far
  onCanvas,          \* the references editors in idToEditorMap
  currentReference,  \* the model whose reference an editor names as the current one
  mounted,           \* the editors whose effect has created their widget since they came to the canvas
  widget,            \* the editor of the controller's _widget
  model,             \* the controller's _model
  disposed,          \* the models that were disposed
  requests,          \* the requests that are outstanding
  closing,           \* the editors whose closeReferencesEditor waits for the service
  writers,           \* the writers that have not copied the map yet
  copies,            \* the copy each writer has still to write
  restored,          \* history: the editors such a write has brought back
  cancelled          \* history: the models whose promise was cancelled before it settled

store == <<codeEditor, onCanvas, currentReference, writers, copies, restored>>

controllers == <<widget, model, disposed, requests, cancelled>>

vars == <<alive, searches, store, mounted, controllers, closing>>

\* The references editors created so far.
Created == {id \in Ids : codeEditor[id] # None}

TypeOK ==
  /\ alive \subseteq CodeEditors
  /\ searches \subseteq CodeEditors
  /\ codeEditor \in [Ids -> CodeEditors \cup {None}]
  /\ onCanvas \subseteq Created
  /\ currentReference \in [Ids -> Ids \cup {None}]
  /\ mounted \subseteq Created
  /\ widget \in [CodeEditors -> Created \cup {None}]
  /\ model \in [CodeEditors -> Created \cup {None}]
  /\ disposed \subseteq Created
  /\ requests \subseteq Request
  /\ closing \subseteq Created
  /\ writers \subseteq Writers
  /\ copies \in [Writers -> Copy \cup {None}]
  /\ restored \subseteq Created
  /\ cancelled \subseteq Created

Init ==
  /\ alive = CodeEditors
  /\ searches = {}
  /\ codeEditor = [id \in Ids |-> None]
  /\ onCanvas = {}
  /\ currentReference = [id \in Ids |-> None]
  /\ mounted = {}
  /\ widget = [c \in CodeEditors |-> None]
  /\ model = [c \in CodeEditors |-> None]
  /\ disposed = {}
  /\ requests = {}
  /\ closing = {}
  /\ writers = Writers
  /\ copies = [w \in Writers |-> None]
  /\ restored = {}
  /\ cancelled = {}
-----------------------------------------------------------------------------
\* The user looks for the references of a symbol: the language providers are asked.
FindReferences(c) ==
  /\ c \in alive
  /\ searches' = searches \cup {c}
  /\ UNCHANGED <<alive, store, mounted, controllers, closing>>

\* An editor under a new uuid comes to the canvas.
NewEditor(c) ==
  \E id \in Ids \ Created :
    /\ codeEditor' = [codeEditor EXCEPT ![id] = c]
    /\ onCanvas' = onCanvas \cup {id}

\* Mutant of createReferencesEditor: the canvas is not searched for the editor of the code editor.
createForAnyCodeEditor(c) ==
  /\ c \in searches
  /\ searches' = searches \ {c}
  /\ NewEditor(c)
  /\ UNCHANGED <<alive, currentReference, writers, copies, restored, mounted, controllers, closing>>

\* The references are found.  The canvas may have no editor of the code editor any more, and never has one
\* if the code editor was disposed meanwhile, as it has no model then: nothing is created.
createReferencesEditor(c) ==
  /\ c \in searches
  /\ searches' = searches \ {c}
  /\ \/ c \in alive /\ NewEditor(c)
     \/ UNCHANGED <<codeEditor, onCanvas>>
  /\ UNCHANGED <<alive, currentReference, writers, copies, restored, mounted, controllers, closing>>
-----------------------------------------------------------------------------
\* Mutant of Dropped: a controller without a model disposes one as well.
DroppedAlways(c) == disposed \cup {model[c]}

\* The models disposed when the controller of c drops the one it has.
Dropped(c) == disposed \cup ({model[c]} \ {None})

\* The promise of the widget that c has, if it is not settled: the widget cancels it as it is disposed.
Cancels(c) == {r \in requests : r.codeEditor = c /\ r.id = widget[c] /\ r.stage = "pending"}

\* The requests once those of c are no longer current.
Superseded(c) ==
  {[r EXCEPT !.current = r.current /\ r.codeEditor # c] : r \in requests \ Cancels(c)}

\* The controller of c drops the widget and the model it has; a promise that is cancelled is rejected, and
\* nobody disposes its model.
DropWidget(c) ==
  /\ model' = [model EXCEPT ![c] = None]
  /\ disposed' = Dropped(c)
  /\ cancelled' = cancelled \cup {r.id : r \in Cancels(c)}

closeWidget(c) ==
  /\ widget' = [widget EXCEPT ![c] = None]
  /\ DropWidget(c)
  /\ requests' = Superseded(c)

\* The effect of the editor's component: the widget is created in the place of the one the code editor had.
\* A code editor that is gone has no controller, and the effect throws.
createReferencesEditorElement(id) ==
  LET c == codeEditor[id] IN
  /\ id \in onCanvas \ mounted
  /\ c \in alive
  /\ mounted' = mounted \cup {id}
  /\ widget' = [widget EXCEPT ![c] = id]
  /\ DropWidget(c)
  /\ requests' = Superseded(c) \cup {[codeEditor |-> c, id |-> id, stage |-> "pending", current |-> TRUE]}
  /\ UNCHANGED <<alive, searches, store, closing>>

\* The promise of a model settles; it can no longer be cancelled.
ModelResolves(r) ==
  /\ r \in requests
  /\ r.stage = "pending"
  /\ requests' = (requests \ {r}) \cup {[r EXCEPT !.stage = "model"]}
  /\ UNCHANGED <<alive, searches, store, mounted, widget, model, disposed, cancelled, closing>>

\* The controller takes the model of a request.
TakeModel(r) ==
  /\ model' = [model EXCEPT ![r.codeEditor] = r.id]
  /\ disposed' = Dropped(r.codeEditor)
  /\ requests' = (requests \ {r}) \cup {[r EXCEPT !.stage = "input"]}

DisposeModel(r) ==
  /\ disposed' = disposed \cup {r.id}
  /\ requests' = requests \ {r}
  /\ UNCHANGED model

\* Mutants of ModelArrives: the counter is not compared, a late model is not disposed.
ModelArrivesLate(r) ==
  /\ r \in requests
  /\ r.stage = "model"
  /\ \/ widget[r.codeEditor] # None /\ TakeModel(r)
     \/ widget[r.codeEditor] = None /\ DisposeModel(r)
  /\ UNCHANGED <<alive, searches, store, mounted, widget, cancelled, closing>>

ModelArrivesAndLeaks(r) ==
  /\ r \in requests
  /\ r.stage = "model"
  /\ \/ r.current /\ widget[r.codeEditor] # None /\ TakeModel(r)
     \/ /\ ~ r.current \/ widget[r.codeEditor] = None
        /\ requests' = requests \ {r}
        /\ UNCHANGED <<model, disposed>>
  /\ UNCHANGED <<alive, searches, store, mounted, widget, cancelled, closing>>

\* modelPromise.then: a model that is not of the latest request, or that finds no widget, is disposed.
ModelArrives(r) ==
  /\ r \in requests
  /\ r.stage = "model"
  /\ \/ r.current /\ widget[r.codeEditor] # None /\ TakeModel(r)
     \/ (~ r.current \/ widget[r.codeEditor] = None) /\ DisposeModel(r)
  /\ UNCHANGED <<alive, searches, store, mounted, widget, cancelled, closing>>

\* What an editor names as its current reference, once it is one of the model of id.
setCurrentReference(id, of) ==
  currentReference' = IF id \in onCanvas THEN [currentReference EXCEPT ![id] = of] ELSE currentReference

\* Mutant of InputShown: the model of the request goes to the editor of the widget.
InputShownByWidget(r) ==
  LET c == r.codeEditor IN
  /\ r \in requests
  /\ r.stage = "input"
  /\ requests' = requests \ {r}
  /\ IF widget[c] # None /\ model[c] # None THEN setCurrentReference(widget[c], r.id) ELSE UNCHANGED currentReference
  /\ UNCHANGED <<alive, searches, codeEditor, onCanvas, writers, copies, restored, mounted, widget, model, disposed,
                 cancelled, closing>>

\* setModel(...).then: it asks whether there is a widget and a model, not whether they are still its own.
InputShown(r) ==
  LET c == r.codeEditor IN
  /\ r \in requests
  /\ r.stage = "input"
  /\ requests' = requests \ {r}
  /\ IF widget[c] # None /\ model[c] # None THEN setCurrentReference(r.id, model[c]) ELSE UNCHANGED currentReference
  /\ UNCHANGED <<alive, searches, codeEditor, onCanvas, writers, copies, restored, mounted, widget, model, disposed,
                 cancelled, closing>>

\* A reference is picked in the tree of the widget.
ShowReference(c) ==
  /\ widget[c] # None /\ model[c] # None
  /\ setCurrentReference(widget[c], model[c])
  /\ UNCHANGED <<alive, searches, codeEditor, onCanvas, writers, copies, restored, mounted, controllers, closing>>
-----------------------------------------------------------------------------
\* The widget is closed by its button, by Escape, by a new text model or language, or to open a reference.
CloseWidget(c) ==
  /\ widget[c] # None
  /\ closeWidget(c)
  /\ UNCHANGED <<alive, searches, store, mounted, closing>>

\* The user closes the editor; closing the widget waits for the service.
closeReferencesEditor(id) ==
  /\ id \in onCanvas
  /\ onCanvas' = onCanvas \ {id}
  /\ closing' = closing \cup {id}
  /\ UNCHANGED <<alive, searches, codeEditor, currentReference, writers, copies, restored, mounted, controllers>>

\* The service is there: the controller closes the widget it has, whosever it is.
CloseReferencesEditorEnd(id) ==
  /\ id \in closing
  /\ closing' = closing \ {id}
  /\ IF codeEditor[id] \in alive THEN closeWidget(codeEditor[id]) ELSE UNCHANGED controllers
  /\ UNCHANGED <<alive, searches, store, mounted>>

\* closeEditor and the bulk closes: the editor leaves the canvas and the controller is not told.  A goto in
\* the tree deletes the editor of its widget in this way.
closeEditor(id) ==
  /\ id \in onCanvas
  /\ onCanvas' = onCanvas \ {id}
  /\ UNCHANGED <<alive, searches, codeEditor, currentReference, writers, copies, restored, mounted, controllers, closing>>

respondToCodeEditorClosing(c) == onCanvas' = {id \in onCanvas : codeEditor[id] # c}

\* The code editor is disposed, and its controller with it, which stops listening to its widget first, so that
\* no promise is cancelled, and leaves the request counter alone.
DisposeCodeEditor(c) ==
  /\ c \in alive
  /\ alive' = alive \ {c}
  /\ respondToCodeEditorClosing(c)
  /\ widget' = [widget EXCEPT ![c] = None]
  /\ model' = [model EXCEPT ![c] = None]
  /\ disposed' = Dropped(c)
  /\ UNCHANGED <<searches, codeEditor, currentReference, writers, copies, restored, mounted, requests, cancelled, closing>>
-----------------------------------------------------------------------------
\* An operation of the store copies the map and waits, as the one that opens a diff editor does.
CopyMap(w) ==
  /\ w \in writers
  /\ writers' = writers \ {w}
  /\ copies' = [copies EXCEPT ![w] =
       [editors |-> onCanvas,
        reference |-> [id \in Ids |-> IF id \in onCanvas THEN currentReference[id] ELSE None]]]
  /\ UNCHANGED <<alive, searches, codeEditor, onCanvas, currentReference, restored, mounted, controllers, closing>>

\* It writes its copy: the map is as it was, and the components of editors that return are mounted anew.
WriteCopy(w) ==
  LET copy == copies[w]
      back == copy.editors \ onCanvas
  IN /\ copy # None
     /\ copies' = [copies EXCEPT ![w] = None]
     /\ onCanvas' = copy.editors
     /\ currentReference' =
          [id \in Ids |-> IF id \in copy.editors THEN copy.reference[id] ELSE currentReference[id]]
     /\ restored' = restored \cup back
     /\ mounted' = mounted \ back
     /\ UNCHANGED <<alive, searches, codeEditor, writers, controllers, closing>>

Next ==
  \/ \E c \in CodeEditors :
       \/ FindReferences(c)
       \/ createReferencesEditor(c)
       \/ ShowReference(c)
       \/ CloseWidget(c)
       \/ DisposeCodeEditor(c)
  \/ \E id \in Ids :
       \/ createReferencesEditorElement(id)
       \/ closeReferencesEditor(id)
       \/ CloseReferencesEditorEnd(id)
       \/ closeEditor(id)
  \/ \E r \in requests : ModelResolves(r) \/ ModelArrives(r) \/ InputShown(r)
  \/ \E w \in Writers : CopyMap(w) \/ WriteCopy(w)

Spec == Init /\ [][Next]_vars
-----------------------------------------------------------------------------
(* A references editor on the canvas belongs to a code editor that still exists, whatever the order in      *)
(* which a search answers, the editor is created and the code editor is disposed: its widget asks the       *)
(* controller of that code editor (WS createReferencesEditor, respondToCodeEditorClosing).  Only an editor  *)
(* that was closed and came back with an old copy of the map may be without one.                            *)
HostsAlive == \A id \in onCanvas \ restored : codeEditor[id] \in alive

(* The model a controller holds is the one of the editor its widget is drawn in: a model that arrives after *)
(* another widget has taken the place never goes into that one (toggleWidget).  It is not disposed, unless  *)
(* an old copy of the map brought the editor back, whose component then draws its old model again.          *)
ModelOfWidget ==
  \A c \in CodeEditors : model[c] # None => /\ widget[c] = model[c]
                                            /\ codeEditor[model[c]] = c
                                            /\ model[c] \in restored \/ model[c] \notin disposed

(* A model is lost only by cancelling its promise before it settles: any other model of a drawn editor is   *)
(* held by its controller, still on its way to it, or disposed, however the widgets of a code editor        *)
(* replace each other (toggleWidget, dispose).  A cancelled promise is rejected, and nobody disposes its    *)
(* model.                                                                                                   *)
NoModelLeaks ==
  \A id \in mounted \ cancelled : \/ id \in disposed
                                  \/ model[codeEditor[id]] = id
                                  \/ \E r \in requests : r.id = id /\ r.stage # "input"

(* The editor whose widget a controller shows names, as its current reference, only references of its own   *)
(* model, although the continuation of an earlier widget still runs and asks only whether there is a        *)
(* widget.  Of the editor of a closed widget, which is still on the canvas, this is not true, and so not of *)
(* one that came back with an old copy of the map.                                                          *)
ShownNamesOwnReference ==
  \A c \in CodeEditors : widget[c] \notin restored \cup {None} => currentReference[widget[c]] \in {None, widget[c]}
=============================================================================
