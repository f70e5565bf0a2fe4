-------------------------------- MODULE Spaces --------------------------------
(***************************************************************************)
(* The Spaces of the host window: SpaceManager and its SpaceStore.         *)
(*                                                                         *)
(* A Space is a persistent descriptor; it has a view, a whole frontend,    *)
(* while it is live.  The manager runs in the main process of Electron,    *)
(* and everything one message from the rail, the topbar or the Maestro     *)
(* dashboard makes it do happens between two turns of the event loop: it   *)
(* is one action.  What crosses those turns is the folder picker and the   *)
(* dialog of create(), the debounced save of the store, what the rail was  *)
(* last told, and the end of the process with what was not yet saved.      *)
(*                                                                         *)
(* Sizes, stacking order, colours and loading of the pages are left out.   *)
(***************************************************************************)
EXTENDS Naturals, FiniteSets, Sequences, SequencesExt

CONSTANTS
  Ids,          \* what newId() may return: never twice the same
  Maestro,      \* MAESTRO_SPACE_ID
  None,         \* no Space
  NoFile,       \* spaces.json is absent or cannot be read
  NoRail,       \* the rail has not been told anything yet
  Names,        \* what the user may write over a Space: name, colour, emoji
  Blank,        \* the name of a Space that has none of its own
  LegacyFiles,  \* what spaces.json may be before the first launch
  MaxLive,      \* MAX_LIVE
  MaxCreations, \* bound: calls of create() at once
  MaxGestures,  \* bound: messages handled in all
  MaxTrouble    \* bound: crashes and failed writes

All == Ids \cup {Maestro}

Stores == [spaces : Seq(All), recency : Seq(All), active : All \cup {None}, names : [All -> Names]]

(* Each Space once, and its lastActive. *)
Coherent(st) ==
  /\ st \in Stores
  /\ IsInjective(st.spaces) /\ IsInjective(st.recency)
  /\ ToSet(st.recency) = ToSet(st.spaces)

ASSUME SpacesAssumption ==
  /\ Maestro \notin Ids /\ None \notin All
  /\ Blank \in Names
  /\ \A f \in LegacyFiles \ {NoFile} : Coherent(f)
  /\ MaxLive \in Nat \ {0}

ASSUME BoundsAssumption ==
  MaxCreations \in Nat /\ MaxGestures \in Nat /\ MaxTrouble \in Nat

VARIABLES
  up,         \* the process runs and its window is not closed
  store,      \* SpaceStore.state: the Spaces in the order of the rail, activeId,
              \* their names, and their order by lastActive, oldest first
  file,       \* spaces.json
  saving,     \* saveTimer is armed
  unwritten,  \* the last flush() failed
  live,       \* the keys of views
  visible,    \* the views that setVisible() shows
  active,     \* activeId
  preview,    \* maestroPreviewId
  rail,       \* the state last pushed to the rail
  picking,    \* calls of create() that wait for the folder picker
  asking,     \* calls of create() that wait for the dialog
  used,       \* history: the ids given out
  previewed,  \* history: views made by previewSurface() since the last open()
  gestures,   \* how much of MaxGestures is used
  trouble     \* how much of MaxTrouble is used

viewVars   == <<live, visible, active, preview, previewed>>
saveVars   == <<saving, unwritten>>
createVars == <<picking, asking>>
boundVars  == <<gestures, trouble>>

vars == <<up, store, file, saveVars, viewVars, rail, createVars, used, boundVars>>

------------------------------------------------------------------------------
(* SpaceStore.  An operator introduced as a fault is the operator after it    *)
(* with a plausible slip; it is not part of the specification.                *)

State(spaces, recency, id, names) ==
  [spaces |-> spaces, recency |-> recency, active |-> id, names |-> names]

EmptyStore == State(<<>>, <<>>, None, [s \in All |-> Blank])

Known(st) == ToSet(st.spaces)

Workspaces(st) == Known(st) \ {Maestro}

(* Array.filter(): the elements of s that are in S, in the order of s.  It is a *)
(* recursive function, and not SelectSeq, for the proofs about it.              *)
Filter(s, S) ==
  LET kept[n \in 0 .. Len(s)] ==
        IF n = 0 THEN <<>>
        ELSE IF s[n] \in S THEN Append(kept[n - 1], s[n]) ELSE kept[n - 1]
  IN  kept[Len(s)]

Without(s, id) == Filter(s, All \ {id})

(* newId(): a counter, that no launch repeats.  The ids left are a bound. *)
NewId == CHOOSE id \in Ids \ used : TRUE

IdsLeft == used # Ids

Latest(recency, id) == Append(Without(recency, id), id)

(* add() of a descriptor whose lastActive is now. *)
Add(st, id, name) ==
  State(Append(st.spaces, id), Latest(st.recency, id), st.active, [st.names EXCEPT ![id] = name])

(* remove(): the store falls back on the first Space left. *)
RemoveSpace(st, id) ==
  LET left == Without(st.spaces, id)
      next == IF st.active # id THEN st.active ELSE IF left = <<>> THEN None ELSE Head(left)
  IN  State(left, Without(st.recency, id), next, [st.names EXCEPT ![id] = Blank])

(* Fault: lastActive of a Space that was already opened is recorded twice. *)
SetActiveTwice(st, id) == State(st.spaces, Append(st.recency, id), id, st.names)

(* setActive(), for a Space of the store. *)
SetActive(st, id) == State(st.spaces, Latest(st.recency, id), id, st.names)

PinMaestroFront(spaces) ==
  IF Contains(spaces, Maestro) THEN <<Maestro>> \o Without(spaces, Maestro) ELSE spaces

(* ensureMaestro() *)
EnsureMaestro(st) ==
  IF Maestro \in Known(st)
    THEN State(PinMaestroFront(st.spaces), st.recency, st.active, st.names)
    ELSE State(<<Maestro>> \o st.spaces, Latest(st.recency, Maestro), st.active, st.names)

(* Fault: the Spaces that the rail does not name are dropped. *)
ReorderDrops(st, ids) ==
  State(PinMaestroFront(Filter(ids, Known(st))), st.recency, st.active, st.names)

(* Fault: pinMaestroFront() is not called. *)
ReorderUnpinned(st, ids) ==
  LET order == Filter(ids, Known(st)) \o Filter(st.spaces, All \ ToSet(ids))
  IN  State(order, st.recency, st.active, st.names)

(* reorder(): those that the rail names in its order, the others after them. *)
Reorder(st, ids) ==
  LET order == Filter(ids, Known(st)) \o Filter(st.spaces, All \ ToSet(ids))
  IN  State(PinMaestroFront(order), st.recency, st.active, st.names)

(* update() of a descriptor. *)
Update(st, id, name) ==
  State(st.spaces, st.recency, st.active, [st.names EXCEPT ![id] = name])

(* seedIfEmpty(): Maestro does not count as a Space to work in. *)
SeedIfEmpty(st) == IF Workspaces(st) = {} THEN Add(st, NewId, Blank) ELSE st

FirstWorkspace(st) == Head(Without(st.spaces, Maestro))

ScheduleSave == saving' = TRUE /\ unwritten' = FALSE

(* writeFileSync() and renameSync(), that may throw. *)
WriteFile ==
  \/ file' = store /\ UNCHANGED trouble
  \/ trouble < MaxTrouble /\ trouble' = trouble + 1 /\ UNCHANGED file

(* Fault: the timer is cleared and the temporary file never renamed. *)
FlushLost ==
  /\ up /\ saving
  /\ saving' = FALSE
  /\ UNCHANGED <<up, store, file, unwritten, viewVars, rail, createVars, used, boundVars>>

(* saveTimer fires; flush() only logs an error. *)
Flush ==
  /\ up /\ saving
  /\ saving' = FALSE
  /\ WriteFile
  /\ unwritten' = (file' # store)
  /\ UNCHANGED <<up, store, viewVars, rail, createVars, used, gestures>>

------------------------------------------------------------------------------
(* SpaceManager *)

(* pushState(), after the changes of the step; lost while the rail is loading. *)
PushState ==
  rail' = IF rail = NoRail THEN NoRail
          ELSE [spaces |-> store'.spaces, names |-> store'.names, active |-> active', live |-> live']

Older(st, a, b) == IndexFirstSubSeq(<<a>>, st.recency) < IndexFirstSubSeq(<<b>>, st.recency)

(* Fault: one view too many is kept. *)
SuspendedLate(st, views, id) ==
  LET candidates == views \ {id, Maestro}
  IN  {gone \in SUBSET candidates :
         /\ Cardinality(views \ gone) <= MaxLive + 1 \/ gone = candidates
         /\ gone # {} => Cardinality(views \ gone) > MaxLive
         /\ \A a \in gone, b \in candidates \ gone : Older(st, a, b)}

(* Fault: Maestro is suspended like any other Space. *)
SuspendedAny(st, views, id) ==
  LET candidates == views \ {id}
  IN  {gone \in SUBSET candidates :
         /\ Cardinality(views \ gone) <= MaxLive \/ gone = candidates
         /\ gone # {} => Cardinality(views \ gone) >= MaxLive
         /\ \A a \in gone, b \in candidates \ gone : Older(st, a, b)}

(* What enforceSuspension() destroys: the oldest views, until MaxLive are left *)
(* or only the active one and Maestro are.                                     *)
Suspended(st, views, id) ==
  LET candidates == views \ {id, Maestro}
  IN  {gone \in SUBSET candidates :
         /\ Cardinality(views \ gone) <= MaxLive \/ gone = candidates
         /\ gone # {} => Cardinality(views \ gone) >= MaxLive
         /\ \A a \in gone, b \in candidates \ gone : Older(st, a, b)}

(* Fault: the store is not told. *)
OpenUntold(st, views, id) ==
  /\ store'     = st
  /\ active'    = id
  /\ preview'   = IF id = Maestro THEN preview ELSE None
  /\ visible'   = {id}
  /\ \E gone \in Suspended(store', views \cup {id}, id) : live' = (views \cup {id}) \ gone
  /\ previewed' = {}
  /\ ScheduleSave
  /\ PushState

(* open(), of a Space of st, when the store is st and the views are views. *)
Open(st, views, id) ==
  /\ store'     = SetActive(st, id)
  /\ active'    = id
  /\ preview'   = IF id = Maestro THEN preview ELSE None
  /\ visible'   = {id}
  /\ \E gone \in Suspended(store', views \cup {id}, id) : live' = (views \cup {id}) \ gone
  /\ previewed' = {}
  /\ ScheduleSave
  /\ PushState

(* boot(), on what load() found. *)
Boot ==
  /\ ~up /\ IdsLeft
  /\ LET loaded == IF file = NoFile THEN EmptyStore ELSE file
         st     == EnsureMaestro(SeedIfEmpty(loaded))
     IN  /\ Open(st, {}, IF st.active \in Known(st) THEN st.active ELSE FirstWorkspace(st))
         /\ used' = used \cup Workspaces(st)
  /\ up' = TRUE
  /\ UNCHANGED <<file, createVars, boundVars>>

(* SpacesIpc.READY: the page of the rail is loaded. *)
RailReady ==
  /\ up /\ rail = NoRail
  /\ rail' = [spaces |-> store.spaces, names |-> store.names, active |-> active, live |-> live]
  /\ UNCHANGED <<up, store, file, saveVars, viewVars, createVars, used, boundVars>>

Gesture == up /\ gestures < MaxGestures /\ gestures' = gestures + 1

(* A message of the rail, that may name a Space closed since. *)
FromRail == Gesture /\ rail # NoRail /\ UNCHANGED trouble

(* A call of the Maestro dashboard, shown or not. *)
FromMaestro == Gesture /\ Maestro \in live /\ UNCHANGED trouble

OpenSpace(id) ==
  /\ FromRail
  /\ id \in Known(store)
  /\ Open(store, live, id)
  /\ UNCHANGED <<up, file, createVars, used>>

(* close(): Maestro is permanent, and there is always a Space to work in. *)
Close(id) ==
  /\ FromRail
  /\ id \in used /\ IdsLeft
  /\ LET st == SeedIfEmpty(RemoveSpace(store, id))
     IN  /\ used' = used \cup Workspaces(st)
         /\ \/ active = id /\ Open(st, live \ {id}, FirstWorkspace(st))
            \/ /\ active # id
               /\ store'     = st
               /\ live'      = live \ {id}
               /\ visible'   = visible \ {id}
               /\ previewed' = previewed \ {id}
               /\ ScheduleSave
               /\ UNCHANGED <<active, preview>>
               /\ PushState
  /\ UNCHANGED <<up, file, createVars>>

(* Fault: an edition that is not saved. *)
EditUnsaved(id) ==
  /\ FromRail
  /\ id \in used \cup {Maestro}
  /\ \E name \in Names :
       store' = IF id \in Known(store) THEN Update(store, id, name) ELSE store
  /\ UNCHANGED <<up, file, saveVars, viewVars, createVars, used>>
  /\ PushState

(* rename(), setColor() and setEmoji() *)
Edit(id) ==
  /\ FromRail
  /\ id \in used \cup {Maestro}
  /\ IF id \in Known(store)
       THEN (\E name \in Names : store' = Update(store, id, name)) /\ ScheduleSave
       ELSE UNCHANGED <<store, saveVars>>
  /\ UNCHANGED <<up, file, viewVars, createVars, used>>
  /\ PushState

(* Fault: the rail is not told of the order it asked for. *)
DragUntold ==
  /\ FromRail
  /\ \E ids \in SetToAllKPermutations(used \cup {Maestro}) : store' = Reorder(store, ids)
  /\ ScheduleSave
  /\ UNCHANGED <<up, file, viewVars, rail, createVars, used>>

(* SpacesIpc.REORDER *)
Drag ==
  /\ FromRail
  /\ \E ids \in SetToAllKPermutations(used \cup {Maestro}) : store' = Reorder(store, ids)
  /\ ScheduleSave
  /\ UNCHANGED <<up, file, viewVars, createVars, used>>
  /\ PushState

(* create() up to the folder picker. *)
Create ==
  /\ FromRail
  /\ picking + asking < MaxCreations
  /\ picking' = picking + 1
  /\ UNCHANGED <<up, store, file, saveVars, viewVars, rail, asking, used>>

(* The picker is answered, and promptNewSpace() follows, or cancelled. *)
FolderPicked ==
  /\ up /\ picking > 0
  /\ picking' = picking - 1
  /\ asking' \in {asking, asking + 1}
  /\ UNCHANGED <<up, store, file, saveVars, viewVars, rail, used, boundVars>>

(* The dialog is cancelled. *)
DialogCancelled ==
  /\ up /\ asking > 0
  /\ asking' = asking - 1
  /\ UNCHANGED <<up, store, file, saveVars, viewVars, rail, picking, used, boundVars>>

(* The dialog is confirmed: create() adds the Space and opens it. *)
DialogConfirmed ==
  /\ up /\ asking > 0 /\ IdsLeft
  /\ asking' = asking - 1
  /\ used' = used \cup {NewId}
  /\ \E name \in Names : Open(Add(store, NewId, name), live, NewId)
  /\ UNCHANGED <<up, file, picking, boundVars>>

(* routeToSurface() up to the loading of the page. *)
RouteToSurface(id) ==
  /\ FromMaestro
  /\ id \in Known(store)
  /\ Open(store, live, id)
  /\ UNCHANGED <<up, file, createVars, used>>

(* Fault: the Space that is opened is not looked up any more. *)
PreviewUnchecked(id) ==
  /\ FromMaestro
  /\ id \in used
  /\ active = Maestro
  /\ live'      = live \cup {id}
  /\ previewed' = previewed \cup ({id} \ live)
  /\ preview'   = id
  /\ visible'   = {Maestro, id}
  /\ UNCHANGED <<up, store, file, saveVars, active, rail, createVars, used>>

(* previewSurface() up to the loading of the page: nothing is suspended, and *)
(* the rail is not told.                                                     *)
PreviewSurface(id) ==
  /\ FromMaestro
  /\ id \in Workspaces(store)
  /\ active = Maestro
  /\ live'      = live \cup {id}
  /\ previewed' = previewed \cup ({id} \ live)
  /\ preview'   = id
  /\ visible'   = {Maestro, id}
  /\ UNCHANGED <<up, store, file, saveVars, active, rail, createVars, used>>

(* MAESTRO_CLEAR_PREVIEW *)
ClearPreview ==
  /\ FromMaestro
  /\ preview' = None
  /\ visible' = live \cap {active}
  /\ UNCHANGED <<up, store, file, saveVars, live, active, previewed, rail, createVars, used>>

(* The process is gone, and with it everything but the file. *)
Gone ==
  /\ up' = FALSE
  /\ store' = EmptyStore /\ saving' = FALSE /\ unwritten' = FALSE
  /\ live' = {} /\ visible' = {} /\ active' = None /\ preview' = None /\ previewed' = {}
  /\ rail' = NoRail
  /\ picking' = 0 /\ asking' = 0
  /\ UNCHANGED used

(* The window is closed: dispose() flushes the store and quits. *)
Quit ==
  /\ Gesture
  /\ WriteFile
  /\ Gone

Crash ==
  /\ up /\ trouble < MaxTrouble
  /\ trouble' = trouble + 1
  /\ Gone
  /\ UNCHANGED <<file, gestures>>

------------------------------------------------------------------------------

Init ==
  /\ up = FALSE
  /\ store = EmptyStore
  /\ file \in LegacyFiles
  /\ saving = FALSE /\ unwritten = FALSE
  /\ live = {} /\ visible = {} /\ active = None /\ preview = None /\ previewed = {}
  /\ rail = NoRail
  /\ picking = 0 /\ asking = 0
  /\ used = IF file = NoFile THEN {} ELSE Workspaces(file)
  /\ gestures = 0 /\ trouble = 0

Next ==
  \/ Boot \/ RailReady \/ Flush
  \/ \E id \in All : OpenSpace(id) \/ Edit(id) \/ RouteToSurface(id)
  \/ \E id \in Ids : Close(id) \/ PreviewSurface(id)
  \/ Drag \/ ClearPreview
  \/ Create \/ FolderPicked \/ DialogCancelled \/ DialogConfirmed
  \/ Quit \/ Crash

Spec == Init /\ [][Next]_vars

(* A timer that nothing re-arms fires. *)
FairSpec == Spec /\ WF_vars(Flush)

------------------------------------------------------------------------------

(* Each variable has the values its declaration allows; in particular the   *)
(* store and the file list each Space once, however it was dragged or       *)
(* reopened, and the order by lastActive is an order of these Spaces.       *)
TypeOK ==
  /\ up \in BOOLEAN /\ saving \in BOOLEAN /\ unwritten \in BOOLEAN
  /\ Coherent(store)
  /\ file # NoFile => Coherent(file)
  /\ live \subseteq All /\ visible \subseteq live /\ previewed \subseteq live
  /\ active \in All \cup {None} /\ preview \in Ids \cup {None}
  /\ picking \in 0 .. MaxCreations /\ asking \in 0 .. MaxCreations
  /\ used \subseteq Ids
  /\ gestures \in 0 .. MaxGestures /\ trouble \in 0 .. MaxTrouble

(* Whatever file the program found and whatever is closed or dragged, the   *)
(* rail lists Maestro first, and at least one Space to work in              *)
(* (ensureMaestro(), pinMaestroFront(), seedIfEmpty()).                     *)
MaestroLeads ==
  up => /\ Head(store.spaces) = Maestro
        /\ Workspaces(store) # {}

(* The manager and its store agree on the active Space, its view is shown,  *)
(* and nothing else is but a preview beside Maestro, whatever is closed,    *)
(* previewed or opened meanwhile (open(), close(), previewSurface()).       *)
ActiveIsShown ==
  up => /\ active = store.active
        /\ active \in visible /\ visible \subseteq live
        /\ visible \subseteq {active} \cup (IF active = Maestro THEN {preview} ELSE {})

(* No frontend runs for a Space that does not exist any more: a late call   *)
(* of the rail or of the dashboard does not bring one back (close(),        *)
(* remove(), routeToSurface()).                                             *)
ViewsAreOfSpaces ==
  up => live \subseteq Known(store)

(* However the user, the dialog of a new Space and the Maestro dashboard    *)
(* interleave, the rail has last been told the Spaces, the active one and   *)
(* the live ones of now, but for the views that a preview has made since    *)
(* (pushState()).                                                           *)
RailIsCurrent ==
  rail # NoRail =>
    /\ rail.spaces = store.spaces /\ rail.names = store.names
    /\ rail.active = active
    /\ live \ rail.live \subseteq previewed /\ rail.live \subseteq live

(* No more than MAX_LIVE frontends are kept, Maestro and the active one in  *)
(* any case, and without those that were made for a preview since the last  *)
(* open() (enforceSuspension()).                                            *)
LiveIsBounded ==
  Cardinality(live \ previewed) <= MaxLive \/ live \ previewed \subseteq {active, Maestro}

(* The state of the manager is coherent between any two handlers: Maestro     *)
(* leads, every view is of a known Space, and their number is bounded.        *)
SpacesAreSound == TypeOK /\ MaestroLeads /\ ViewsAreOfSpaces /\ LiveIsBounded

(* What memory has and the file has not will be saved: the timer is armed,  *)
(* unless the last write failed (scheduleSave(), flush()).                  *)
SaveIsPending ==
  up /\ file # store => saving \/ unwritten

(* While the program runs, the Maestro dashboard stays loaded once it is,   *)
(* whatever is opened, suspended or closed ("gardé chaud").                 *)
MaestroStaysWarm ==
  [][up /\ up' /\ Maestro \in live => Maestro \in live']_vars

(* A Space leaves the rail only when the user closes it: not because the    *)
(* rail dragged an order that is older than the Space.                      *)
SpacesAreKept ==
  [][up /\ up' => \A id \in Known(store) \ Known(store') : Close(id)]_vars

(* What the user changes is on disk once the changes pause, unless the      *)
(* write fails or the program ends before.                                  *)
Saved ==
  (up /\ file # store) ~> (~up \/ file = store \/ unwritten)

==============================================================================
