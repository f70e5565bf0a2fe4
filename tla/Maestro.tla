------------------------------ MODULE Maestro ------------------------------
(***************************************************************************)
(* FabiMaestroServiceImpl of fabi-maestro-service.ts, the board of every   *)
(* agent of the IDE: the sessions of the chat engine, followed on a stream *)
(* of events that is never replayed and on a list that is polled; those of *)
(* Claude and Codex (MaestroHooks); and the widgets that are open, told by *)
(* maestro-surface-reporter.ts of the frontend of a Space.                 *)
(*                                                                         *)
(* It starts when run() has made its monitor and scans the terminals.  The *)
(* frontend of one Space is modelled.                                      *)
(***************************************************************************)
EXTENDS MaestroHooks

CONSTANTS
  Sessions,   \* sessions of the chat engine, each in a chat of its own
  Models      \* models that answer

ASSUME MaestroAssumption == Sessions \cap CLIs = {} /\ Models # {}

VARIABLES
  present,    \* bound: a behaviour has agents of one kind, they share only the push
  boot,       \* how far run() is
  base,       \* the URL of the engine: none, known, or that of an earlier process
  stream,     \* the stream of events: none, open, cut
  rec,        \* what is known of each session
  model,      \* the model of its last answer
  old,        \* not seen for 15 s
  reply,      \* the answer under way to a request of each session
  shown,      \* what the board shows
  shownModel, \* with the model of each session
  hushed,     \* sessions whose model was learned after the last snapshot
  up,         \* the engine runs
  exist,      \* its sessions
  pending,    \* the requests that wait in it
  unheard,    \* requests that ended without being heard of
  wire,       \* the event on the stream
  open,       \* the widgets that are open
  front,      \* the frontend runs
  reading,    \* its report, under way
  surfaces    \* the last report

supervision == <<boot, base, stream>>
known == <<rec, model>>
board == <<shown, shownModel, hushed>>
engine == <<up, exist, pending, unheard>>
frontend == <<open, front, reading>>
vars == <<present, bridge, scans, push, events, supervision, known, old, reply, board, engine, wire,
          frontend, surfaces>>

Widgets == Sessions \cup CLIs
Silence == [kind |-> "none"]
NoReport == [on |-> FALSE, items |-> {}]
NoReply == [at |-> "none", n |-> None, allow |-> FALSE, mine |-> FALSE]

(* Fault: the widgets of a frontend that is gone are kept. *)
OpenSurfacesForgets == surfaces.items

(* openSurfaces(): a report is worth 10 s. *)
OpenSurfaces == IF surfaces.old THEN {} ELSE surfaces.items
Terminals == OpenSurfaces \cap CLIs

------------------------------------------------------------------------------
(* snapshot(), schedulePush() *)

View(x) ==
  CASE x \in CLIs -> external[x]
    [] x \in Sessions /\ x \in OpenSurfaces -> rec[x]
    [] OTHER -> Unknown

Snapshot == [x \in Widgets |-> View(x)]
SnapshotModel == [s \in Sessions |-> IF View(s) = Unknown THEN None ELSE model[s]]

Shows == shown' = Snapshot /\ shownModel' = SnapshotModel /\ hushed' = {}

Push ==
  /\ push /\ push' = FALSE /\ Shows
  /\ UNCHANGED <<bridge, scans, events, supervision, known, old, reply, engine, wire, frontend,
                 surfaces>>

(* setClient(): a board that is opened again. *)
Attaches ==
  /\ board # <<Snapshot, SnapshotModel, {}>> /\ Shows
  /\ UNCHANGED <<bridge, scans, push, events, supervision, known, old, reply, engine, wire, frontend,
                 surfaces>>

------------------------------------------------------------------------------
(* The engine.  An event that nobody listens to is lost. *)

EventKinds == {"asked", "replied", "idle", "deleted", "created", "busy", "error", "part", "message",
               "model", "question"}
EndsRequest(kind) == kind \in {"idle", "replied", "deleted"}

Emit(kind, s, n) ==
  /\ wire = Silence
  /\ wire' = IF stream = "open" THEN [kind |-> kind, s |-> s, n |-> n] ELSE Silence

Over(s, ns) ==
  /\ pending' = [pending EXCEPT ![s] = @ \ ns]
  /\ unheard' = IF stream = "open" THEN unheard ELSE unheard \cup {<<s, n>> : n \in pending[s] \cap ns}

EngineStarts ==
  /\ ~up /\ up' = TRUE /\ Happens
  /\ UNCHANGED <<bridge, scans, push, supervision, known, old, reply, board, exist, pending,
                 unheard, wire, frontend, surfaces>>

(* Its next process listens on another port.  The end of its requests is      *)
(* never told, nor is an end that is on its way.                              *)
EngineDies ==
  /\ up /\ up' = FALSE /\ Happens
  /\ pending' = [s \in Sessions |-> {}]
  /\ unheard' = unheard \cup {<<s, n>> : s \in Sessions, n \in Asks}
  /\ wire' = Silence
  /\ base' = IF base = "known" THEN "stale" ELSE base
  /\ stream' = IF stream = "open" THEN "cut" ELSE stream
  /\ UNCHANGED <<bridge, scans, push, boot, known, old, reply, board, exist, frontend,
                 surfaces>>

Cut ==
  /\ stream = "open" /\ stream' = "cut" /\ Happens
  /\ wire' = Silence
  /\ unheard' = IF wire # Silence /\ EndsRequest(wire.kind) THEN unheard \cup {<<wire.s, n>> : n \in Asks}
                ELSE unheard
  /\ UNCHANGED <<bridge, scans, push, boot, base, known, old, reply, board, up, exist,
                 pending, frontend, surfaces>>

EngineAsks(s) ==
  /\ up /\ s \in exist /\ Happens
  /\ \E n \in Asks \ pending[s] :
       /\ <<s, n>> \notin unheard /\ rec[s].socket # n /\ reply[s].n # n
       /\ pending' = [pending EXCEPT ![s] = @ \cup {n}]
       /\ Emit("asked", s, n)
  /\ UNCHANGED <<bridge, scans, push, supervision, known, old, reply, board, up, exist, unheard,
                 frontend, surfaces>>

(* The chat, or its automatic mode, answers. *)
ChatAnswers(s) ==
  /\ up /\ Happens
  /\ \E n \in pending[s] : Over(s, {n}) /\ Emit("replied", s, n)
  /\ UNCHANGED <<bridge, scans, push, supervision, known, old, reply, board, up, exist, frontend,
                 surfaces>>

TurnEnds(s) ==
  /\ up /\ s \in exist /\ Happens
  /\ Over(s, Asks) /\ Emit("idle", s, None)
  /\ UNCHANGED <<bridge, scans, push, supervision, known, old, reply, board, up, exist, frontend,
                 surfaces>>

Progresses(s, kind) ==
  /\ up /\ Happens
  /\ exist' = exist \cup {s}
  /\ Emit(kind, s, None)
  /\ UNCHANGED <<bridge, scans, push, supervision, known, old, reply, board, up, pending, unheard,
                 frontend, surfaces>>

Deleted(s) ==
  /\ up /\ s \in exist /\ exist' = exist \ {s} /\ Happens
  /\ Over(s, Asks) /\ Emit("deleted", s, None)
  /\ UNCHANGED <<bridge, scans, push, supervision, known, old, reply, board, up, frontend, surfaces>>

------------------------------------------------------------------------------
(* handleEvent() *)

Ensured(r) == IF r = Unknown THEN Hook("idle", None, None) ELSE r

(* Fault: the end of a turn leaves its request on the board. *)
HeardKeepsAsk(r, e) ==
  CASE e.kind = "deleted" -> Unknown
    [] e.kind = "created" -> r
    [] e.kind = "idle" -> [Ensured(r) EXCEPT !.status = "idle"]
    [] e.kind = "replied" -> Hook("generating", None, None)
    [] e.kind = "busy" -> [Ensured(r) EXCEPT !.status = "generating"]
    [] e.kind = "error" -> [Ensured(r) EXCEPT !.status = "error"]
    [] e.kind = "part" -> [Ensured(r) EXCEPT !.status = IF @ = "waiting" THEN @ ELSE "generating"]
    [] e.kind \in {"message", "model"} -> Ensured(r)
    [] e.kind \in {"asked", "question"} -> Hook("waiting", e.n, e.n)

Heard(r, e) ==
  CASE e.kind = "deleted" -> Unknown
    [] e.kind = "created" -> r
    [] e.kind = "idle" -> Hook("idle", None, None)
    [] e.kind = "replied" -> Hook("generating", None, None)
    [] e.kind = "busy" -> [Ensured(r) EXCEPT !.status = "generating"]
    [] e.kind = "error" -> [Ensured(r) EXCEPT !.status = "error"]
    [] e.kind = "part" -> [Ensured(r) EXCEPT !.status = IF @ = "waiting" THEN @ ELSE "generating"]
    [] e.kind \in {"message", "model"} -> Ensured(r)
    [] e.kind \in {"asked", "question"} -> Hook("waiting", e.n, e.n)

(* Fault: an answer given elsewhere is noted, and not pushed. *)
HeardPushesForgets(e) == e.kind \notin {"created", "message", "model", "replied"}

HeardPushes(e) == e.kind \notin {"created", "message", "model"}

(* message.updated, of an answer. *)
HeardModel(was, kind, told) ==
  CASE kind = "deleted" -> None
    [] kind = "model" -> told
    [] OTHER -> was

(* The record that an answer under way will change is no longer on the board. *)
Drops(gone) == [s \in Sessions |-> IF s \in gone THEN [reply[s] EXCEPT !.mine = FALSE] ELSE reply[s]]

Hears ==
  /\ wire # Silence /\ wire' = Silence
  /\ rec' = [rec EXCEPT ![wire.s] = Heard(@, wire)]
  /\ \E m \in Models : model' = [model EXCEPT ![wire.s] = HeardModel(@, wire.kind, m)]
  /\ hushed' = IF wire.kind = "model" THEN hushed \cup {wire.s} ELSE hushed
  /\ reply' = Drops(IF wire.kind = "deleted" THEN {wire.s} ELSE {})
  /\ old' = old \ {wire.s}
  /\ push' = (push \/ HeardPushes(wire))
  /\ UNCHANGED <<bridge, scans, events, supervision, shown, shownModel, engine, frontend, surfaces>>

------------------------------------------------------------------------------
(* run(), refreshSessions(), openEventStream() *)

(* ensureBaseUrl(): it waits for 30 s and goes on without. *)
EngineFound ==
  /\ boot = "engine" /\ boot' = "list"
  /\ base' = IF up THEN "known" ELSE "none"
  /\ UNCHANGED <<bridge, scans, push, events, stream, known, old, reply, board, engine,
                 wire, frontend, surfaces>>

(* The stream is opened once, after the first list, and only if there is a    *)
(* URL; later it is only opened again.                                        *)
Booted ==
  IF boot # "list" THEN UNCHANGED <<boot, stream>>
  ELSE boot' = "up" /\ stream' = CASE base' = "none" -> "none"
                                   [] base' = "known" /\ up -> "open"
                                   [] OTHER -> "cut"

(* The answer of the list is taken for what the engine has when it is applied. *)
(* A session that the list lacks and that was not seen for long is forgotten.  *)
RefreshSessions ==
  /\ boot \in {"list", "up"} /\ up
  /\ base' = "known"
  /\ rec' = [s \in Sessions |-> CASE s \in exist -> Ensured(rec[s])
                                  [] s \in old \ exist -> Unknown
                                  [] OTHER -> rec[s]]
  /\ model' = [s \in Sessions |-> IF s \in old \ exist THEN None ELSE model[s]]
  /\ reply' = Drops(old \ exist)
  /\ old' = old \ exist
  /\ push' = TRUE
  /\ Booted
  /\ UNCHANGED <<bridge, scans, events, board, engine, wire, frontend, surfaces>>

RefreshFails ==
  /\ boot = "list" /\ Happens
  /\ UNCHANGED base /\ Booted
  /\ UNCHANGED <<bridge, scans, push, known, old, reply, board, engine, wire, frontend, surfaces>>

Reconnects ==
  /\ stream = "cut" /\ up /\ base = "known" /\ stream' = "open"
  /\ UNCHANGED <<bridge, scans, push, events, boot, base, known, old, reply, board, engine,
                 wire, frontend, surfaces>>

Ages(s) ==
  /\ rec[s] # Unknown /\ s \notin old /\ old' = old \cup {s} /\ Happens
  /\ UNCHANGED <<bridge, scans, push, supervision, known, reply, board, engine, wire, frontend,
                 surfaces>>

------------------------------------------------------------------------------
(* send(), replyPermission() *)

Sends(s) ==
  /\ rec[s] # Unknown /\ Happens
  /\ rec' = [rec EXCEPT ![s].status = "generating"]
  /\ push' = TRUE
  /\ UNCHANGED <<bridge, scans, supervision, model, old, reply, board, engine, wire, frontend,
                 surfaces>>

Replies(s, allow) ==
  /\ rec[s].socket # None /\ reply[s] = NoReply /\ Happens
  /\ reply' = [reply EXCEPT ![s] = [at |-> "sent", n |-> rec[s].socket, allow |-> allow,
                                   mine |-> TRUE]]
  /\ UNCHANGED <<bridge, scans, push, supervision, known, old, board, engine, wire, frontend,
                 surfaces>>

ReplyTaken(s) ==
  /\ reply[s].at = "sent" /\ up /\ reply[s].n \in pending[s]
  /\ reply' = [reply EXCEPT ![s].at = "taken"]
  /\ Over(s, {reply[s].n}) /\ Emit("replied", s, reply[s].n)
  /\ UNCHANGED <<bridge, scans, push, events, supervision, known, old, board, up, exist, frontend,
                 surfaces>>

(* Whatever its record says by now is cleared, on the board or not. *)
ReplyDone(s) ==
  /\ reply[s].at = "taken"
  /\ reply' = [reply EXCEPT ![s] = NoReply]
  /\ rec' = [rec EXCEPT ![s] = IF ~reply[s].mine THEN @
                               ELSE Hook(IF reply[s].allow THEN "generating" ELSE "idle", None, None)]
  /\ push' = TRUE
  /\ UNCHANGED <<bridge, scans, events, supervision, model, old, board, engine, wire, frontend,
                 surfaces>>

ReplyFails(s) ==
  /\ reply[s].at = "sent" /\ (~up \/ reply[s].n \notin pending[s])
  /\ reply' = [reply EXCEPT ![s] = NoReply]
  /\ UNCHANGED <<bridge, scans, push, events, supervision, known, old, board, engine, wire,
                 frontend, surfaces>>

------------------------------------------------------------------------------
(* MaestroSurfaceReporter *)

WidgetOpens(x) ==
  /\ front /\ Happens
  /\ open' = IF x \in open THEN open \ {x} ELSE open \cup {x}
  /\ UNCHANGED <<bridge, scans, push, supervision, known, old, reply, board, engine, wire, front,
                 reading, surfaces>>

(* report(): the widgets are read before the processes of the terminals are   *)
(* awaited; it does nothing while another report is under way.                *)
ReportReads ==
  /\ front /\ ~reading.on
  /\ reading' = [on |-> TRUE, items |-> open]
  /\ UNCHANGED <<bridge, scans, push, events, supervision, known, old, reply, board, engine, wire,
                 open, front, surfaces>>

(* reportOpenSurfaces(): a scan, if none runs; the push comes after it. *)
Reported(items) ==
  /\ surfaces' = [items |-> items, old |-> FALSE]
  /\ IF scanning = Idle /\ boot # "scan" THEN scanning' = Scan(items \cap CLIs) /\ UNCHANGED push
     ELSE push' = TRUE /\ UNCHANGED scanning

ReportSends ==
  /\ reading.on /\ reading' = NoReport
  /\ Reported(reading.items)
  /\ UNCHANGED <<bridge, external, failed, events, supervision, known, old, reply, board, engine,
                 wire, open, front>>

(* onStop(); a report that is under way may come after it. *)
FrontStops ==
  /\ front /\ front' = FALSE /\ open' = {} /\ Happens
  /\ Reported({})
  /\ UNCHANGED <<bridge, external, failed, supervision, known, old, reply, board, engine, wire,
                 reading>>

FrontDies ==
  /\ front /\ front' = FALSE /\ open' = {} /\ reading' = NoReport /\ Happens
  /\ UNCHANGED <<bridge, scans, push, supervision, known, old, reply, board, engine, wire, surfaces>>

(* A frontend that runs may be suspended. *)
ReportAges ==
  /\ surfaces.items # {} /\ ~surfaces.old
  /\ IF front THEN Happens ELSE UNCHANGED events
  /\ surfaces' = [surfaces EXCEPT !.old = TRUE]
  /\ UNCHANGED <<bridge, scans, push, supervision, known, old, reply, board, engine, wire, frontend>>

------------------------------------------------------------------------------
Init ==
  /\ HooksInit /\ present \in {Sessions, CLIs}
  /\ boot = "scan" /\ base = "none" /\ stream = "none"
  /\ rec = [s \in Sessions |-> Unknown] /\ model = [s \in Sessions |-> None] /\ old = {}
  /\ reply = [s \in Sessions |-> NoReply]
  /\ shown = [x \in Widgets |-> Unknown] /\ shownModel = [s \in Sessions |-> None] /\ hushed = {}
  /\ up \in {FALSE, present = Sessions} /\ exist \in {{}, present \cap Sessions}
  /\ pending = [s \in Sessions |-> {}] /\ unheard = {} /\ wire = Silence
  /\ open = present /\ front = TRUE /\ reading = NoReport
  /\ surfaces = [items |-> {}, old |-> FALSE]

rest == <<base, stream, known, old, reply, board, engine, wire, frontend, surfaces>>

ScanOver == /\ ScanEnds \/ ScanFails
            /\ boot' = IF boot = "scan" THEN "engine" ELSE boot
            /\ UNCHANGED rest

External ==
  \/ HooksStep(present \cap CLIs, Terminals) /\ UNCHANGED <<boot, rest>>
  \/ boot # "scan" /\ ScanStarts(Terminals) /\ UNCHANGED <<boot, rest>>
  \/ ScanOver

Engine ==
  \/ EngineStarts \/ EngineDies \/ Cut
  \/ \E s \in Sessions :
       \/ EngineAsks(s) \/ ChatAnswers(s) \/ TurnEnds(s) \/ Deleted(s)
       \/ \E kind \in {"created", "busy", "error", "part", "message", "model", "question"} :
            Progresses(s, kind)
       \/ Ages(s)

Supervises ==
  \/ EngineFound \/ RefreshSessions \/ RefreshFails \/ Reconnects \/ Hears
  \/ \E s \in Sessions : Sends(s) \/ ReplyTaken(s) \/ ReplyDone(s) \/ ReplyFails(s)
  \/ \E s \in Sessions, allow \in BOOLEAN : Replies(s, allow)

Frontend ==
  \/ \E x \in present : WidgetOpens(x)
  \/ ReportReads \/ ReportSends \/ FrontStops \/ FrontDies \/ ReportAges

Next ==
  /\ UNCHANGED present
  /\ \/ External \/ Frontend \/ Push \/ Attaches
     \/ present = Sessions /\ (Engine \/ Supervises)

Spec == Init /\ [][Next]_vars

(* The timers of the scan, of the push and of a heartbeat that is overdue. *)
Timer(action) == action /\ UNCHANGED present

FairSpec ==
  /\ Spec
  /\ WF_vars(Timer(Push)) /\ WF_vars(Timer(~front /\ ReportAges)) /\ WF_vars(Timer(ReportSends))
  /\ WF_vars(Timer(ScanOver))
  /\ WF_vars(Timer(boot # "scan" /\ ScanStarts(Terminals) /\ UNCHANGED <<boot, rest>>))

------------------------------------------------------------------------------
(* Properties *)

TypeOK ==
  /\ HooksTypeOK /\ present \in {Sessions, CLIs}
  /\ boot \in {"scan", "engine", "list", "up"} /\ base \in {"none", "known", "stale"}
  /\ stream \in {"none", "open", "cut"}
  /\ rec \in [Sessions -> [status : {"unknown", "idle", "generating", "waiting", "error"},
                            ask : Asks \cup {None}, socket : Asks \cup {None}]]
  /\ {model, shownModel} \subseteq [Sessions -> Models \cup {None}] /\ hushed \subseteq Sessions
  /\ reply \in [Sessions -> [at : {"none", "sent", "taken"}, n : Asks \cup {None}, allow : BOOLEAN,
                              mine : BOOLEAN]]
  /\ wire \in {Silence} \cup [kind : EventKinds, s : Sessions, n : Asks \cup {None}]
  /\ old \subseteq Sessions /\ exist \subseteq Sessions /\ {up, front} \subseteq BOOLEAN
  /\ pending \in [Sessions -> SUBSET Asks] /\ unheard \subseteq Sessions \X Asks
  /\ DOMAIN shown = Widgets /\ open \subseteq Widgets
  /\ reading \in [on : BOOLEAN, items : SUBSET Widgets]
  /\ surfaces \in [old : BOOLEAN, items : SUBSET Widgets]

(* What the board offers to answer waits in the engine: a request that was    *)
(* answered in the chat, or went with its turn or its session, is taken off   *)
(* the board by the very event that tells of it.                              *)
OfferIsPending ==
  /\ TypeOK
  /\ \A s \in Sessions :
       LET n == rec[s].socket IN
         n # None => \/ n \in pending[s]
                     \/ <<s, n>> \in unheard
                     \/ wire # Silence /\ wire.s = s /\ EndsRequest(wire.kind)

(* An agent on the board is shown as it is known, or a push is on its way.    *)
(* One handler changes what is shown without a push, message.updated: only    *)
(* the model it tells of is late, and only until the next snapshot.           *)
ShownIsCurrent ==
  ~push =>
    /\ \A x \in Widgets : shown[x] # Unknown /\ View(x) # Unknown => shown[x] = View(x)
    /\ \A s \in Sessions \ hushed :
         shown[s] # Unknown /\ View(s) # Unknown => shownModel[s] = model[s]

(* The board follows what is known, of the sessions of the chat and of those  *)
(* of the terminals.                                                          *)
BoardIsCurrent == ExternalIsCurrent /\ ShownIsCurrent

(* The agents of a frontend that stopped, or died, leave the board, even if   *)
(* a report of it comes late.                                                 *)
ClosedGo == ~front ~> [](\A x \in Widgets : shown[x] = Unknown)
=============================================================================
