--------------------------- MODULE SceneCollection ---------------------------
(***************************************************************************)
(* The scene collection in the main window (UI/window-basic-main.cpp): the *)
(* scenes of libobs and their items, the two lists that show them, saving, *)
(* loading and the end of the program.                                     *)
(*                                                                         *)
(* What the user does runs in the UI thread, and so do at once the slots   *)
(* for the signals libobs emits meanwhile.  Other threads (plugins,        *)
(* scripts) may change scenes as well: their slots wait in Qt's queue.     *)
(* One slot, or all that one input sets off, is one step; no other thread  *)
(* acts while a collection is loaded or cleared.                           *)
(*                                                                         *)
(* A scene or an item that is added is a new one: one that neither libobs, *)
(* nor a list, nor a waiting slot knows.                                   *)
(* SetCurrentScene, the change of the collection and the list widgets are  *)
(* external.  A list that loses its current row makes the next one current,*)
(* or else the one before.                                                 *)
(*                                                                         *)
(* A definition named Op_Fault is Op with a fault in it, for checking that *)
(* the properties notice; no specification uses it.                        *)
(***************************************************************************)
EXTENDS Integers, Sequences, SequencesExt, FiniteSets

CONSTANTS
  Collections,   \* scene collections
  Scenes,        \* scenes
  Home,          \* the collection each scene is made in
  Default,       \* the scene CreateDefaultScene makes, for each collection
  Items,         \* the items of scenes
  None,          \* no scene
  MaxChanges,    \* bound on what users and threads do
  Environments   \* the surroundings, see Environment

(* threads: other threads change scenes; missing: the file of a collection *)
(* may be gone when it is to be loaded.                                    *)
Environment == [threads : BOOLEAN, missing : BOOLEAN]

ASSUME SceneCollectionAssumption ==
  /\ Home \in [Scenes -> Collections]
  /\ Default \in [Collections -> Scenes]
  /\ \A c \in Collections : Home[Default[c]] = c
  /\ None \notin Scenes
  /\ MaxChanges \in Nat
  /\ Environments \subseteq Environment

VARIABLES
  env,             \* the environment of this behaviour, which stays as it is
  phase,           \* "init", "running" or "closing"
  collection,      \* SceneCollectionFile of the configuration
  scenes,          \* libobs: the scenes there are
  items,           \* libobs: the items of each scene, lowest first
  list,            \* ui->scenes
  current,         \* its current row, or None
  rows,            \* ui->sources, top row first
  slots,           \* the queue of Qt
  projectChanged,  \* projectChanged
  disableSaving,   \* disableSaving
  file,            \* the file of each collection
  last,            \* history: what there was to save when the program ended
  changes          \* the number of changes so far

widgets == <<list, current, rows>>
saving == <<projectChanged, slots>>
lib == <<scenes, items>>
vars == <<env, phase, collection, lib, widgets, saving, disableSaving, file,
          last, changes>>

(* What a file holds: the order of the list, the scenes of libobs with      *)
(* their items, and the current scene.                                     *)
Snapshot == [order |-> list, items |-> [s \in scenes |-> items[s]],
             current |-> current]

Fresh(c) == [order |-> <<Default[c]>>,
             items |-> [s \in {Default[c]} |-> <<>>],
             current |-> Default[c]]

NoItems == [s \in Scenes |-> <<>>]

Init ==
  /\ env \in Environments
  /\ phase = "init"
  /\ collection \in Collections
  /\ scenes = {} /\ items = NoItems
  /\ list = <<>> /\ current = None /\ rows = <<>>
  /\ slots = <<>>
  /\ projectChanged = FALSE
  /\ disableSaving = 1
  /\ file = [c \in Collections |-> Fresh(c)]
  /\ last = Fresh(collection)
  /\ changes = 0

-----------------------------------------------------------------------------
(* SaveProject, when it is called with queue q.                            *)
SaveProject(q) ==
  IF disableSaving > 0
  THEN slots' = q /\ UNCHANGED projectChanged
  ELSE slots' = Append(q, [slot |-> "save"]) /\ projectChanged' = TRUE

(* SaveProjectDeferred.                                                    *)
SaveProjectDeferred ==
  IF disableSaving > 0 \/ ~projectChanged
  THEN UNCHANGED <<projectChanged, file>>
  ELSE file' = [file EXCEPT ![collection] = Snapshot] /\ projectChanged' = FALSE

-----------------------------------------------------------------------------
(* The two lists.                                                          *)

Row(seq, x) == SelectInSeq(seq, LAMBDA y : y = x)
Without(seq, x) == IF Row(seq, x) = 0 THEN seq ELSE RemoveAt(seq, Row(seq, x))

(* UpdateSources: each item is inserted above the one before.              *)
UpdateSources_Appends(seq) == seq

UpdateSources(seq) == Reverse(seq)

(* UpdateSceneSelection, as SetCurrentScene ends with it.                  *)
Show(s, its) ==
  /\ current' = s
  /\ rows' = IF s = None THEN <<>> ELSE UpdateSources(its[s])

(* takeItem, then insertItem, which takes the nearest row there is.         *)
MoveRow(seq, from, to) ==
  LET rest == RemoveAt(seq, from)
      at == IF to < 1 THEN 1 ELSE IF to > Len(seq) THEN Len(seq) ELSE to
  IN  InsertAt(rest, at, seq[from])

(* Elements are moved one by one, each that the list has to its row.        *)
Placed(seq, xs, to) ==
  LET Place(l, k) == LET from == Row(l, xs[k])
                     IN  IF from = 0 THEN l ELSE MoveRow(l, from, to[k])
      placed[k \in 0..Len(xs)] == IF k = 0 THEN seq ELSE Place(placed[k - 1], k)
  IN  placed[Len(xs)]

(* ReorderSources with ReorderSceneItem for each item in turn: the lowest   *)
(* item comes last.                                                        *)
ReorderSources(seq, its) == Placed(seq, its, [k \in DOMAIN its |-> Len(seq) - k + 1])

(* LoadSceneListOrder with ReorderItemByName for each name in turn.        *)
LoadSceneListOrder(seq, order) == Placed(seq, order, [k \in DOMAIN order |-> k])

RemoveScene(s) ==
  LET i == Row(list, s)
      left == Without(list, s)
  IN  /\ list' = left
      /\ IF i = 0 \/ s # current THEN UNCHANGED <<current, rows>>
         ELSE Show(IF left = <<>> THEN None
                   ELSE left[IF i <= Len(left) THEN i ELSE Len(left)], items)

-----------------------------------------------------------------------------
(* The queued slots.                                                       *)
AddSceneItem(s, i) ==
  /\ rows' = IF current = s THEN <<i>> \o rows ELSE rows
  /\ UNCHANGED <<list, current>>

RemoveSceneItem(s, i) ==
  /\ rows' = IF current = s THEN Without(rows, i) ELSE rows
  /\ UNCHANGED <<list, current>>

RunSlot ==
  /\ phase # "init" /\ slots # <<>>
  /\ LET m == Head(slots)
     IN  CASE m.slot = "save" ->
                /\ SaveProjectDeferred
                /\ slots' = Tail(slots) /\ UNCHANGED widgets
           [] m.slot = "addItem" ->
                /\ AddSceneItem(m.scene, m.item)
                /\ SaveProject(Tail(slots)) /\ UNCHANGED file
           [] m.slot = "removeItem" ->
                /\ RemoveSceneItem(m.scene, m.item)
                /\ SaveProject(Tail(slots)) /\ UNCHANGED file
           [] m.slot = "removeScene" ->
                /\ RemoveScene(m.scene)
                /\ SaveProject(Tail(slots)) /\ UNCHANGED file
           [] m.slot = "reorder" /\ m.scene = current ->
                /\ rows' = ReorderSources(rows, items[current])
                /\ SaveProject(Tail(slots)) /\ UNCHANGED <<list, current, file>>
           [] m.slot = "gone" \/ (m.slot = "reorder" /\ m.scene # current) ->
                slots' = Tail(slots) /\ UNCHANGED <<widgets, projectChanged, file>>
           [] m.slot = "stale" ->
                /\ SaveProject(Tail(slots)) /\ UNCHANGED <<widgets, file>>
  /\ UNCHANGED <<env, phase, collection, lib, disableSaving, last, changes>>

-----------------------------------------------------------------------------
(* Loading.                                                                *)

(* ClearSceneData: the scenes go; a queued slot for one of them finds       *)
(* nothing that is shown any more, and ReorderSources returns at once.      *)
Cleared(m) ==
  [slot |-> IF m.slot = "save" THEN "save"
            ELSE IF m.slot \in {"reorder", "gone"} THEN "gone" ELSE "stale"]

ClearSceneData(q) == [k \in DOMAIN q |-> Cleared(q[k])]

(* Load: the scenes of the file come, first the list in some order and     *)
(* then in that of the file.  Without a file CreateDefaultScene makes one  *)
(* scene, and the name of the collection stays as it was.                  *)
LoadFile(c, f) ==
  LET its == [s \in Scenes |-> IF s \in DOMAIN f.items THEN f.items[s] ELSE <<>>]
  IN  /\ scenes' = DOMAIN f.items
      /\ items' = its
      /\ list' = LoadSceneListOrder(SetToSeq(DOMAIN f.items), f.order)
      /\ Show(IF f.current \in DOMAIN f.items THEN f.current ELSE None, its)
      /\ collection' = c
      /\ slots' = ClearSceneData(slots)

CreateDefaultScene(c) ==
  /\ scenes' = {Default[c]} /\ items' = NoItems
  /\ list' = <<Default[c]>>
  /\ Show(Default[c], NoItems)
  /\ UNCHANGED collection

Load(c, f) ==
  \/ LoadFile(c, f) /\ projectChanged' = FALSE
  \/ /\ env.missing
     /\ CreateDefaultScene(c)
     /\ slots' = Append(ClearSceneData(slots), [slot |-> "save"])
     /\ projectChanged' = TRUE

(* OBSInit: saving is enabled around Load and at the end.                  *)
OBSInit ==
  /\ phase = "init"
  /\ phase' = "running"
  /\ Load(collection, file[collection])
  /\ disableSaving' = 0
  /\ UNCHANGED <<env, file, last, changes>>

Change == phase = "running" /\ changes < MaxChanges /\ changes' = changes + 1

(* A mutation: saved only if there was an edit since the last save.         *)
SaveProjectNow_IfChanged ==
  IF disableSaving > 0 \/ ~projectChanged THEN UNCHANGED file
  ELSE file' = [file EXCEPT ![collection] = Snapshot]

(* The change of the collection, external: SaveProjectNow and Load.        *)
SaveProjectNow ==
  IF disableSaving > 0 THEN UNCHANGED file
  ELSE file' = [file EXCEPT ![collection] = Snapshot]

ChangeCollection(c) ==
  /\ Change
  /\ c # collection
  /\ SaveProjectNow
  /\ Load(c, file[c])
  /\ UNCHANGED <<env, phase, disableSaving, last>>

(* closeEvent up to the end of the event loop; ~OBSBasic runs what is left *)
(* in the queue.                                                           *)
CloseEvent_KeepsSaving ==
  /\ phase = "running"
  /\ phase' = "closing"
  /\ SaveProjectNow
  /\ last' = Snapshot
  /\ scenes' = {} /\ items' = NoItems
  /\ list' = <<>> /\ Show(None, NoItems)
  /\ slots' = ClearSceneData(slots)
  /\ UNCHANGED <<env, collection, disableSaving, projectChanged, changes>>

CloseEvent ==
  /\ phase = "running"
  /\ phase' = "closing"
  /\ SaveProjectNow
  /\ projectChanged' = FALSE
  /\ last' = Snapshot
  /\ disableSaving' = disableSaving + 1
  /\ scenes' = {} /\ items' = NoItems
  /\ list' = <<>> /\ Show(None, NoItems)
  /\ slots' = ClearSceneData(slots)
  /\ UNCHANGED <<env, collection, changes>>

-----------------------------------------------------------------------------
(* What the user does with scenes.                                         *)
NewScene(its) ==
  {s \in Scenes \ (scenes \cup Range(list)) :
     /\ Home[s] = collection
     /\ \A k \in DOMAIN slots : "scene" \in DOMAIN slots[k] => slots[k].scene # s}
  \X {its}

DuplicateSelectedScene ==
  IF current = None THEN {} ELSE NewScene(items[current])

(* The last scene cannot be removed.                                       *)
QueryRemoveSource == Len(list) # 1

(* on_actionAddScene_triggered, DuplicateSelectedScene with AddScene.      *)
AddScene ==
  /\ Change
  /\ \E new \in NewScene(<<>>) \cup DuplicateSelectedScene :
       LET s == new[1]
           its == [items EXCEPT ![s] = new[2]]
       IN  /\ scenes' = scenes \cup {s} /\ items' = its
           /\ list' = Append(list, s)
           /\ Show(s, its)
  /\ SaveProject(slots)
  /\ UNCHANGED <<env, phase, collection, disableSaving, file, last>>

RemoveSelectedScene_Any ==
  /\ Change
  /\ current # None
  /\ scenes' = scenes \ {current} /\ UNCHANGED items
  /\ RemoveScene(current)
  /\ SaveProject(slots)
  /\ UNCHANGED <<env, phase, collection, disableSaving, file, last>>

RemoveSelectedScene ==
  /\ Change
  /\ current # None /\ QueryRemoveSource
  /\ scenes' = scenes \ {current} /\ UNCHANGED items
  /\ RemoveScene(current)
  /\ SaveProject(slots)
  /\ UNCHANGED <<env, phase, collection, disableSaving, file, last>>

(* on_scenes_currentItemChanged, the hotkey of a scene.                    *)
SelectScene(s) ==
  /\ Change
  /\ s \in Range(list)
  /\ Show(s, items)
  /\ UNCHANGED <<env, phase, collection, lib, list, saving, disableSaving,
                 file, last>>

(* ChangeSceneIndex: nothing is saved.                                     *)
ChangeSceneIndex(to) ==
  /\ Change
  /\ current # None
  /\ list' = MoveRow(list, Row(list, current), to)
  /\ UNCHANGED <<env, phase, collection, lib, current, rows, saving,
                 disableSaving, file, last>>

-----------------------------------------------------------------------------
(* What happens to the items of scene s, by its effect on libobs: the user  *)
(* adds, removes and moves them (on_actionRemoveSource_triggered,           *)
(* on_actionMoveUp_triggered and the like), and the slots run at once.      *)
IsNew(s, i) ==
  /\ i \notin Range(items[s]) \cup Range(rows)
  /\ \A k \in DOMAIN slots :
       slots[k].slot \in {"addItem", "removeItem"} => slots[k].item # i
ItemAdded(s, i) == [items EXCEPT ![s] = Append(@, i)]
ItemRemoved(s, i) == [items EXCEPT ![s] = Without(@, i)]

Item(s) ==
  /\ Change
  /\ SaveProject(slots)
  /\ UNCHANGED <<env, phase, collection, scenes, disableSaving, file, last>>

AddItem(s, i) ==
  /\ IsNew(s, i)
  /\ items' = ItemAdded(s, i)
  /\ AddSceneItem(s, i)
  /\ Item(s)

RemoveItem(s, i) ==
  /\ i \in Range(items[s])
  /\ items' = ItemRemoved(s, i)
  /\ RemoveSceneItem(s, i)
  /\ Item(s)

Moved(s, i, to) == [items EXCEPT ![s] = MoveRow(@, Row(@, i), to)]

(* The user moves what is shown.                                           *)
MoveItem(s, i, to) ==
  /\ i \in Range(items[s]) /\ to # Row(items[s], i)
  /\ items' = Moved(s, i, to)
  /\ s = current
  /\ rows' = ReorderSources(rows, items'[s])
  /\ UNCHANGED <<list, current>>
  /\ Item(s)

-----------------------------------------------------------------------------
(* What another thread does: SceneItemAdded, SceneItemRemoved,              *)
(* SourceRemoved queue their slots.                                        *)
Thread(message) ==
  /\ Change /\ env.threads
  /\ slots' = Append(slots, message)
  /\ UNCHANGED <<env, phase, collection, widgets, projectChanged, disableSaving,
                 file, last>>

Thread_AddItem(s, i) ==
  /\ IsNew(s, i)
  /\ items' = ItemAdded(s, i) /\ UNCHANGED scenes
  /\ Thread([slot |-> "addItem", scene |-> s, item |-> i])

Thread_RemoveItem(s, i) ==
  /\ i \in Range(items[s])
  /\ items' = ItemRemoved(s, i) /\ UNCHANGED scenes
  /\ Thread([slot |-> "removeItem", scene |-> s, item |-> i])

Thread_MoveItem(s, i, to) ==
  /\ i \in Range(items[s]) /\ to # Row(items[s], i)
  /\ items' = Moved(s, i, to) /\ UNCHANGED scenes
  /\ Thread([slot |-> "reorder", scene |-> s])

Thread_RemoveScene(s) ==
  /\ scenes' = scenes \ {s} /\ UNCHANGED items
  /\ Thread([slot |-> "removeScene", scene |-> s])

-----------------------------------------------------------------------------
Next ==
  \/ OBSInit \/ RunSlot \/ CloseEvent
  \/ \E c \in Collections : ChangeCollection(c)
  \/ AddScene \/ RemoveSelectedScene
  \/ \E s \in Scenes : SelectScene(s)
  \/ \E to \in 1..Len(list) : ChangeSceneIndex(to)
  \/ \E s \in scenes, i \in Items :
       \/ AddItem(s, i) \/ RemoveItem(s, i)
       \/ \E to \in DOMAIN items[s] : MoveItem(s, i, to) \/ Thread_MoveItem(s, i, to)
       \/ Thread_AddItem(s, i) \/ Thread_RemoveItem(s, i)
  \/ \E s \in scenes : Thread_RemoveScene(s)

(* Qt runs the queued slots.                                               *)
Spec == Init /\ [][Next]_vars /\ WF_vars(RunSlot)

-----------------------------------------------------------------------------
(* The variables have the values the code gives them.                      *)
TypeOK ==
  /\ env \in Environments
  /\ phase \in {"init", "running", "closing"}
  /\ collection \in Collections
  /\ scenes \subseteq Scenes
  /\ items \in [Scenes -> Seq(Items)]
  /\ list \in Seq(Scenes) /\ rows \in Seq(Items)
  /\ current \in Range(list) \cup {None}
  /\ projectChanged \in BOOLEAN
  /\ disableSaving \in 0..1
  /\ changes \in 0..MaxChanges

(* No operation writes one collection into the file of another or leaves a *)
(* file without a scene, if the files stay where they are and no other      *)
(* thread removes scenes: the name of the file changes only after the old  *)
(* collection is saved, the scenes are cleared with saving disabled, and   *)
(* the last scene cannot be removed.                                       *)
FilesAreTheirOwn ==
  ~env.missing =>
    \A c \in Collections :
      /\ \A s \in DOMAIN file[c].items : Home[s] = c
      /\ ~env.threads => DOMAIN file[c].items # {}

(* What the two lists say is what libobs has, whenever the queue of Qt has *)
(* run: the scenes, and the items of the scene that is shown in their      *)
(* order.  With other threads the list of items may hold more: a scene     *)
(* that is chosen while the slot of a new item waits lists the item twice. *)
(* At any time the current scene is in the list, as TypeOK says.           *)
ListsMirror ==
  /\ TypeOK
  /\ phase = "running" /\ slots = <<>> =>
       /\ Range(list) = scenes /\ Len(list) = Cardinality(scenes)
       /\ current # None => Range(items[current]) \subseteq Range(rows)
       /\ current # None /\ ~env.threads => rows = Reverse(items[current])
       /\ current = None => rows = <<>>

(* A collection holds what libobs and the lists have while it is open, and  *)
(* what its file has otherwise.  Other threads leave the lists behind, so   *)
(* that only the scenes and their items are the collection's then.          *)
Document(f) == IF env.threads THEN f.items ELSE f
Open == IF phase = "running" THEN {collection} ELSE {}
Contents == [c \in Collections |-> Document(IF c \in Open THEN Snapshot ELSE file[c])]

Store == INSTANCE CollectionStore
           WITH open <- Open, contents <- Contents, safe <- ~env.missing

(* Nothing is lost or mixed up when the collection changes or the program   *)
(* ends: what was open is in its file, be it saved or not, marked as        *)
(* changed or not (the order of the scenes is not), and loading it gives    *)
(* back the same scenes, items, order and current scene.                    *)
NothingLost == Store!Spec

(* Every change of the scenes and their items comes into the file of their *)
(* collection, SaveProject's deferred write included; what the program had *)
(* at its end is what the file keeps, whatever the queue runs afterwards.  *)
(* Only the order in which another thread puts the items of a scene that   *)
(* is not shown may stay unsaved: ReorderSources returns before it saves.  *)
Saved(f) ==
  IF env.threads
  THEN /\ DOMAIN f.items = scenes
       /\ \A s \in scenes : Range(f.items[s]) = Range(items[s])
  ELSE f.items = Snapshot.items

EditsReachTheFile ==
  []<>( \/ phase = "init"
        \/ phase = "running" /\ Saved(file[collection])
        \/ phase = "closing" /\ file[collection] = last)
=============================================================================
