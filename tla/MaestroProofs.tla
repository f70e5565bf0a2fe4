--------------------------- MODULE MaestroProofs ---------------------------
(***************************************************************************)
(* The supervision of the agents, proved for any sessions, terminals and   *)
(* requests: a program that waits can be answered, an offer waits in the   *)
(* engine, and the board follows what is known.                            *)
(***************************************************************************)
EXTENDS Maestro, TLAPS

ClientStates == {"none", "waiting", "allowed", "denied", "dropped", "gone", "ended"}
ScanStates == [on : BOOLEAN, terminals : SUBSET CLIs]

BridgeTypes ==
  hook \in [CLIs -> HookStates] /\ client \in [CLIs -> [Asks -> ClientStates]] /\ aged \subseteq CLIs

(* A request that is on its way to the supervision waits in the engine. *)
AskedWaits == wire.kind \in {"asked", "question"} => wire.n \in pending[wire.s] \cup {None}

(* What is shown is what is known, or nothing: stronger than ShownIsCurrent,  *)
(* for an agent may come back to the board without a push.                    *)
ShownAsKnown ==
  ~push => /\ \A s \in Sessions : shown[s] \in {Unknown, rec[s]}
           /\ \A c \in CLIs : shown[c] \in {Unknown, external[c]}
           /\ \A s \in Sessions \ hushed : shown[s] = Unknown \/ shownModel[s] = model[s]

IInv ==
  /\ TypeOK /\ AskIsReachable /\ ExternalIsCurrent
  /\ OfferIsPending /\ AskedWaits /\ ShownAsKnown

------------------------------------------------------------------------------
(* The bridge *)

LEMMA HooksAre ==
  /\ Unknown \in HookStates
  /\ Unknown.socket = None /\ Unknown.ask = None
  /\ \A status \in CliStatuses \cup {"unknown"}, ask \in Asks \cup {None}, socket \in Asks \cup {None} :
       Hook(status, ask, socket) \in HookStates
  /\ \A status, ask, socket : Hook(status, ask, socket).socket = socket
  BY DEF Unknown, Hook, HookStates, CliStatuses

LEMMA NoAsk == None \notin Asks
  BY DEF None, Asks

(* A scan that runs is not Idle. *)
LEMMA ScansAre ==
  ASSUME NEW terminals \in SUBSET CLIs
  PROVE  Scan(terminals) # Idle /\ Scan(terminals) \in ScanStates /\ Idle \in ScanStates
  BY DEF Scan, Idle, ScanStates

(* What a step of the bridge owes: the one client that waits is the one that  *)
(* is held, and a change of a session is scanned and pushed.                  *)
BridgeKeeps(terminals) ==
  /\ BridgeTypes' /\ AskIsReachable'
  /\ \/ OnChange(terminals)
     \/ UNCHANGED <<hook, scanning, push>> /\ aged \subseteq aged'
  /\ UNCHANGED <<external, failed>> /\ Happens

LEMMA TellsKeeps ==
  ASSUME BridgeTypes, AskIsReachable, NEW c \in CLIs, NEW status \in CliStatuses,
         NEW terminals, Tells(c, status, terminals)
  PROVE  BridgeKeeps(terminals)
  <1>1. hook[c].socket \in Asks \cup {None}
    BY DEF BridgeTypes, HookStates
  <1>2. Told(hook[c], status) \in HookStates /\ Told(hook[c], status).socket = hook[c].socket
    BY <1>1, HooksAre DEF Told
  <1>3. hook' = [hook EXCEPT ![c] = Told(hook[c], status)] /\ UNCHANGED client /\ aged' = aged \ {c}
    BY DEF Tells, Fresh
  <1>4. BridgeTypes' /\ \A d \in CLIs : hook'[d].socket = hook[d].socket
    BY <1>2, <1>3 DEF BridgeTypes
  <1>5. AskIsReachable'
    BY <1>3, <1>4 DEF AskIsReachable
  <1> QED BY <1>4, <1>5 DEF Tells, BridgeKeeps

LEMMA AsksKeeps ==
  ASSUME BridgeTypes, AskIsReachable, NEW c \in CLIs, NEW terminals, AsksPermission(c, terminals)
  PROVE  BridgeKeeps(terminals)
  <1>1. PICK n \in Asks :
          /\ client[c][n] = "none"
          /\ client' = [client EXCEPT ![c] = [Release(client[c], hook[c]) EXCEPT ![n] = "waiting"]]
          /\ hook' = [hook EXCEPT ![c] = Asked(hook[c], n)]
    BY DEF AsksPermission
  <1>0. aged' = aged \ {c}
    BY DEF AsksPermission, Fresh
  <1> DEFINE released == Release(client[c], hook[c])
  (* The client that was held was the only one to wait. *)
  <1>2. released \in [Asks -> ClientStates] /\ \A m \in Asks : released[m] # "waiting"
    BY DEF Release, BridgeTypes, ClientStates, AskIsReachable
  <1> HIDE DEF released
  <1>3. Asked(hook[c], n) \in HookStates /\ Asked(hook[c], n).socket = n
    BY HooksAre DEF Asked, CliStatuses
  <1>4. /\ hook' \in [CLIs -> HookStates] /\ hook'[c].socket = n
        /\ \A d \in CLIs \ {c} : hook'[d] = hook[d]
    BY <1>1, <1>3 DEF BridgeTypes
  <1>5. [released EXCEPT ![n] = "waiting"] \in [Asks -> ClientStates]
        /\ \A m \in Asks \ {n} : [released EXCEPT ![n] = "waiting"][m] # "waiting"
    BY <1>2 DEF ClientStates
  <1>6. /\ client' \in [CLIs -> [Asks -> ClientStates]]
        /\ \A m \in Asks \ {n} : client'[c][m] # "waiting"
        /\ \A d \in CLIs \ {c} : client'[d] = client[d]
    BY <1>1, <1>5 DEF BridgeTypes, released
  <1>7. AskIsReachable'
    BY <1>4, <1>6 DEF AskIsReachable
  <1> QED BY <1>0, <1>4, <1>6, <1>7 DEF AsksPermission, BridgeKeeps, BridgeTypes

LEMMA EndsKeeps ==
  ASSUME BridgeTypes, AskIsReachable, NEW c \in CLIs, NEW terminals, Ends(c, terminals)
  PROVE  BridgeKeeps(terminals)
  <1> DEFINE gone == [n \in Asks |-> IF client[c][n] = "waiting" THEN "ended" ELSE client[c][n]]
  <1>1. gone \in [Asks -> ClientStates] /\ \A n \in Asks : gone[n] # "waiting"
    BY DEF BridgeTypes, ClientStates
  <1>2. hook' = [hook EXCEPT ![c] = Unknown] /\ client' = [client EXCEPT ![c] = gone] /\ aged' = aged \ {c}
    BY DEF Ends, Fresh
  <1> HIDE DEF gone
  <1>3. /\ BridgeTypes' /\ \A n \in Asks : client'[c][n] # "waiting"
        /\ \A d \in CLIs \ {c} : client'[d] = client[d] /\ hook'[d] = hook[d]
    BY <1>1, <1>2, HooksAre DEF BridgeTypes
  <1>4. AskIsReachable'
    BY <1>3 DEF AskIsReachable
  <1> QED BY <1>3, <1>4 DEF Ends, BridgeKeeps

LEMMA LeavesKeeps ==
  ASSUME BridgeTypes, AskIsReachable, NEW c \in CLIs, NEW terminals, Leaves(c)
  PROVE  BridgeKeeps(terminals)
  <1>1. PICK n \in Asks : client' = [client EXCEPT ![c][n] = "gone"]
    BY DEF Leaves
  <1>2. UNCHANGED <<hook, aged, scanning, push, external, failed>> /\ Happens
    BY DEF Leaves, scans
  <1>3. /\ client' \in [CLIs -> [Asks -> ClientStates]]
        /\ \A d \in CLIs, m \in Asks : client'[d][m] \in {client[d][m], "gone"}
    BY <1>1 DEF BridgeTypes, ClientStates
  <1>4. AskIsReachable'
    BY <1>2, <1>3 DEF AskIsReachable
  <1> QED BY <1>2, <1>3, <1>4 DEF BridgeKeeps, BridgeTypes

LEMMA RespondKeeps ==
  ASSUME BridgeTypes, AskIsReachable, NEW c \in CLIs, NEW allow \in BOOLEAN, NEW terminals,
         Respond(c, allow, terminals)
  PROVE  BridgeKeeps(terminals)
  <1> DEFINE n == hook[c].socket
             answer == CASE client[c][n] # "waiting" -> client[c][n]
                         [] allow -> "allowed"
                         [] OTHER -> "denied"
             h == Hook(IF allow THEN "generating" ELSE "idle", None, None)
  <1>1. n \in Asks
    BY DEF Respond, BridgeTypes, HookStates
  <1>2. answer \in ClientStates /\ answer # "waiting"
    BY <1>1 DEF BridgeTypes, ClientStates
  <1>3. h \in HookStates
    BY HooksAre DEF CliStatuses
  <1>4. client' = [client EXCEPT ![c][n] = answer] /\ hook' = [hook EXCEPT ![c] = h] /\ aged' = aged \ {c}
    BY DEF Respond, Fresh
  <1> HIDE DEF answer, h
  <1>5. /\ hook' \in [CLIs -> HookStates] /\ \A d \in CLIs \ {c} : hook'[d] = hook[d]
    BY <1>3, <1>4 DEF BridgeTypes
  <1>6. /\ client' \in [CLIs -> [Asks -> ClientStates]]
        /\ client'[c][n] # "waiting"
        /\ \A m \in Asks \ {n} : client'[c][m] = client[c][m]
        /\ \A d \in CLIs \ {c} : client'[d] = client[d]
    BY <1>1, <1>2, <1>4 DEF BridgeTypes
  <1>7. AskIsReachable'
    BY <1>5, <1>6 DEF AskIsReachable
  <1> QED BY <1>4, <1>5, <1>6, <1>7 DEF Respond, BridgeKeeps, BridgeTypes

LEMMA AgesKeeps ==
  ASSUME BridgeTypes, AskIsReachable, NEW c \in CLIs, NEW terminals, HookAges(c)
  PROVE  BridgeKeeps(terminals)
  BY DEF HookAges, BridgeTypes, AskIsReachable, BridgeKeeps, scans

LEMMA BridgeSteps ==
  ASSUME BridgeTypes, AskIsReachable, NEW clis \in SUBSET CLIs, NEW terminals, HooksStep(clis, terminals)
  PROVE  BridgeKeeps(terminals)
  BY TellsKeeps, AsksKeeps, EndsKeeps, LeavesKeeps, RespondKeeps, AgesKeeps DEF HooksStep

------------------------------------------------------------------------------
(* The engine *)

RecStates == [status : {"unknown", "idle", "generating", "waiting", "error"},
              ask : Asks \cup {None}, socket : Asks \cup {None}]
ReplyStates == [at : {"none", "sent", "taken"}, n : Asks \cup {None}, allow : BOOLEAN, mine : BOOLEAN]
Events == [kind : EventKinds, s : Sessions, n : Asks \cup {None}]

EngineTypes ==
  /\ rec \in [Sessions -> RecStates] /\ reply \in [Sessions -> ReplyStates]
  /\ wire \in {Silence} \cup Events
  /\ pending \in [Sessions -> SUBSET Asks] /\ unheard \subseteq Sessions \X Asks
  /\ stream \in {"none", "open", "cut"}

(* What is offered for a session is pending, or its end is on the way or lost. *)
OfferWaits(s) ==
  LET n == rec[s].socket
  IN n # None => \/ n \in pending[s]
                 \/ <<s, n>> \in unheard
                 \/ wire # Silence /\ wire.s = s /\ EndsRequest(wire.kind)

EngineInv == EngineTypes /\ AskedWaits /\ \A s \in Sessions : OfferWaits(s)

LEMMA OfferParts == OfferIsPending <=> TypeOK /\ \A s \in Sessions : OfferWaits(s)
  BY DEF OfferIsPending, OfferWaits

LEMMA RecsAre ==
  /\ Unknown \in RecStates
  /\ \A status \in {"unknown", "idle", "generating", "waiting", "error"},
        ask \in Asks \cup {None}, socket \in Asks \cup {None} : Hook(status, ask, socket) \in RecStates
  BY DEF Unknown, Hook, RecStates

LEMMA EnsuredIs ==
  ASSUME NEW r \in RecStates
  PROVE  Ensured(r) \in RecStates /\ Ensured(r).socket = r.socket
  BY RecsAre, HooksAre DEF Ensured

(* Emit() of an event that the slot is free for. *)
LEMMA EmitIs ==
  ASSUME NEW kind \in EventKinds, NEW s \in Sessions, NEW n \in Asks \cup {None}, Emit(kind, s, n),
         stream \in {"none", "open", "cut"}
  PROVE  /\ wire = Silence /\ wire' \in {Silence} \cup Events
         /\ wire' = Silence \/ (wire'.kind = kind /\ wire'.s = s /\ wire'.n = n)
         /\ stream = "open" => wire' # Silence /\ wire'.kind = kind /\ wire'.s = s
         /\ Silence.kind = "none"
  BY DEF Emit, Events, Silence, EventKinds

(* Over() with the event that tells of it. *)
LEMMA OverKeeps ==
  ASSUME EngineInv, NEW s \in Sessions, NEW ns \in SUBSET Asks, NEW kind \in {"idle", "replied", "deleted"},
         NEW n \in Asks \cup {None}, Over(s, ns), Emit(kind, s, n),
         reply' \in [Sessions -> ReplyStates], UNCHANGED <<rec, stream>>
  PROVE  EngineInv'
  <1>0. EngineTypes /\ wire = Silence
    BY EmitIs DEF EngineInv, Emit
  <1>1. /\ wire' \in {Silence} \cup Events /\ wire'.kind \notin {"asked", "question"}
        /\ stream = "open" => wire' # Silence /\ wire'.s = s /\ EndsRequest(wire'.kind)
    BY <1>0, EmitIs DEF EngineTypes, EndsRequest, EventKinds
  <1>2. /\ pending' \in [Sessions -> SUBSET Asks] /\ pending'[s] = pending[s] \ ns
        /\ \A o \in Sessions \ {s} : pending'[o] = pending[o]
    BY <1>0 DEF Over, EngineTypes
  <1>3. /\ unheard' \subseteq Sessions \X Asks /\ unheard \subseteq unheard'
        /\ stream # "open" => \A m \in pending[s] \cap ns : <<s, m>> \in unheard'
    BY <1>0 DEF Over, EngineTypes
  <1>4. EngineTypes' /\ AskedWaits'
    BY <1>0, <1>1, <1>2, <1>3 DEF EngineTypes, AskedWaits
  <1>5. ASSUME NEW o \in Sessions
        PROVE  OfferWaits(o)'
    <2>1. CASE o = s
      BY <1>0, <1>1, <1>2, <1>3, <2>1 DEF EngineInv, OfferWaits
    <2>2. CASE o # s
      BY <1>0, <1>2, <1>3, <2>2 DEF EngineInv, OfferWaits
    <2> QED BY <2>1, <2>2
  <1> QED BY <1>4, <1>5 DEF EngineInv

(* An event that asks for nothing and ends nothing. *)
LEMMA TellKeeps ==
  ASSUME EngineInv, NEW s \in Sessions,
         NEW kind \in {"created", "busy", "error", "part", "message", "model", "question"},
         Emit(kind, s, None), UNCHANGED <<rec, reply, stream, pending, unheard>>
  PROVE  EngineInv'
  <1>1. /\ EngineTypes /\ wire = Silence /\ wire' \in {Silence} \cup Events
        /\ wire'.kind # "asked" /\ (wire'.kind = "question" => wire'.n = None)
    BY EmitIs DEF EngineInv, EngineTypes, EventKinds
  <1> QED BY <1>1 DEF EngineInv, EngineTypes, AskedWaits, OfferWaits

LEMMA AskKeeps ==
  ASSUME EngineInv, NEW s \in Sessions, EngineAsks(s)
  PROVE  EngineInv'
  <1>1. PICK n \in Asks : pending' = [pending EXCEPT ![s] = pending[s] \cup {n}] /\ Emit("asked", s, n)
    BY DEF EngineAsks
  <1>2. UNCHANGED <<rec, reply, stream, unheard>>
    BY DEF EngineAsks, supervision, known
  <1>3. /\ EngineTypes /\ wire = Silence /\ wire' \in {Silence} \cup Events
        /\ wire'.kind # "question" /\ (wire'.kind = "asked" => wire'.s = s /\ wire'.n = n)
    BY <1>1, EmitIs DEF EngineInv, EngineTypes, EventKinds
  <1>4. /\ pending' \in [Sessions -> SUBSET Asks] /\ n \in pending'[s]
        /\ \A o \in Sessions : pending[o] \subseteq pending'[o]
    BY <1>1, <1>3 DEF EngineTypes
  <1>5. EngineTypes' /\ AskedWaits'
    BY <1>2, <1>3, <1>4 DEF EngineTypes, AskedWaits
  <1>6. \A o \in Sessions : OfferWaits(o)'
    BY <1>2, <1>3, <1>4 DEF EngineInv, OfferWaits
  <1> QED BY <1>5, <1>6 DEF EngineInv

(* The stream breaks: an end that was on its way is not heard of. *)
LEMMA BreakKeeps ==
  ASSUME EngineInv, Cut \/ EngineDies
  PROVE  EngineInv'
  <1>0. EngineTypes /\ Silence.kind = "none"
    BY DEF EngineInv, Silence
  <1>1. /\ wire' = Silence /\ UNCHANGED <<rec, reply>> /\ stream' \in {"none", "open", "cut"}
        /\ pending' \in [Sessions -> SUBSET Asks]
    BY <1>0 DEF Cut, EngineDies, EngineTypes, known
  <1>2. /\ unheard' \subseteq Sessions \X Asks /\ unheard \subseteq unheard'
    BY <1>0 DEF Cut, EngineDies, EngineTypes, Events
  <1>3. EngineTypes' /\ AskedWaits'
    BY <1>0, <1>1, <1>2 DEF EngineTypes, AskedWaits
  <1>4. ASSUME NEW s \in Sessions
        PROVE  OfferWaits(s)'
    <2>0. rec[s].socket \in Asks \cup {None}
      BY <1>0 DEF EngineTypes, RecStates
    <2>1. CASE Cut
      <3>1. pending' = pending
        BY <2>1 DEF Cut
      <3>2. wire # Silence /\ wire.s = s /\ EndsRequest(wire.kind) => \A n \in Asks : <<s, n>> \in unheard'
        BY <2>1 DEF Cut
      <3> QED BY <1>1, <1>2, <2>0, <3>1, <3>2 DEF EngineInv, OfferWaits
    <2>2. CASE EngineDies
      <3>1. \A n \in Asks : <<s, n>> \in unheard'
        BY <2>2 DEF EngineDies
      <3> QED BY <1>1, <2>0, <3>1 DEF OfferWaits
    <2> QED BY <2>1, <2>2
  <1> QED BY <1>3, <1>4 DEF EngineInv

(* handleEvent(), of an event of the type that is told. *)
LEMMA HeardIs ==
  ASSUME NEW r \in RecStates, NEW e \in Events
  PROVE  /\ Heard(r, e) \in RecStates
         /\ EndsRequest(e.kind) => Heard(r, e).socket = None
         /\ e.kind \in {"asked", "question"} => Heard(r, e).socket = e.n
         /\ e.kind \in {"created", "busy", "error", "part", "message", "model"} => Heard(r, e).socket = r.socket
         /\ e.kind = "created" => Heard(r, e) = r
         /\ e.kind \in {"message", "model"} => Heard(r, e) = Ensured(r)
  <1> DEFINE t == Ensured(r)
  <1>0. e.kind \in EventKinds /\ e.n \in Asks \cup {None} /\ t \in RecStates /\ t.socket = r.socket
    BY EnsuredIs DEF Events
  <1>1. CASE e.kind \in {"deleted", "created", "message", "model"}
    BY <1>0, <1>1, RecsAre, HooksAre DEF Heard, EndsRequest
  <1>3. CASE e.kind \in {"idle", "replied", "asked", "question"}
    BY <1>0, <1>3, RecsAre, HooksAre DEF Heard, EndsRequest
  <1>2. CASE e.kind \in {"busy", "error", "part"}
    <2> HIDE DEF t
    <2>1. ASSUME NEW status \in {"idle", "generating", "waiting", "error", "unknown"}
          PROVE  [t EXCEPT !.status = status] \in RecStates /\ [t EXCEPT !.status = status].socket = t.socket
      BY <1>0 DEF RecStates
    <2>2. t.status \in {"idle", "generating", "waiting", "error", "unknown"}
      BY <1>0 DEF RecStates
    <2>3. \E status \in {"idle", "generating", "waiting", "error", "unknown"} :
            Heard(r, e) = [t EXCEPT !.status = status]
      BY <1>2, <2>2 DEF Heard, t
    <2> QED BY <1>0, <1>2, <2>1, <2>3 DEF EndsRequest
  <1> QED BY <1>0, <1>1, <1>2, <1>3 DEF EventKinds

LEMMA DropsAre ==
  ASSUME EngineTypes, NEW gone
  PROVE  Drops(gone) \in [Sessions -> ReplyStates]
  BY DEF EngineTypes, Drops, ReplyStates

LEMMA HearsKeeps ==
  ASSUME EngineInv, Hears
  PROVE  EngineInv'
  <1>0. EngineTypes /\ wire \in Events /\ Silence.kind = "none"
    BY DEF EngineInv, EngineTypes, Hears, Silence
  <1>1. /\ wire' = Silence /\ UNCHANGED <<stream, pending, unheard>>
        /\ rec' = [rec EXCEPT ![wire.s] = Heard(rec[wire.s], wire)]
        /\ reply' \in [Sessions -> ReplyStates]
    BY <1>0, DropsAre DEF Hears, supervision, known, engine
  <1>2. wire.s \in Sessions /\ wire.n \in Asks \cup {None} /\ wire.kind \in EventKinds
    BY <1>0 DEF Events
  <1>3. rec[wire.s] \in RecStates
    BY <1>0, <1>2 DEF EngineTypes
  <1> DEFINE h == Heard(rec[wire.s], wire)
  <1>4. h \in RecStates /\ (EndsRequest(wire.kind) => h.socket = None)
    BY <1>0, <1>3, HeardIs
  <1>5. h.socket \in {None, rec[wire.s].socket} \/ (wire.kind = "asked" /\ h.socket = wire.n)
        \/ (wire.kind = "question" /\ h.socket = wire.n)
    BY <1>0, <1>2, <1>3, HeardIs DEF EndsRequest, EventKinds
  <1> HIDE DEF h
  <1>6. rec' \in [Sessions -> RecStates] /\ rec'[wire.s] = h /\ \A o \in Sessions \ {wire.s} : rec'[o] = rec[o]
    BY <1>0, <1>1, <1>2, <1>4 DEF EngineTypes, h
  <1>7. EngineTypes' /\ AskedWaits'
    BY <1>0, <1>1, <1>6 DEF EngineTypes, AskedWaits
  <1>8. ASSUME NEW o \in Sessions
        PROVE  OfferWaits(o)'
    <2>1. CASE o # wire.s
      BY <1>1, <1>6, <2>1 DEF EngineInv, OfferWaits
    <2>2. CASE o = wire.s
      BY <1>1, <1>4, <1>5, <1>6, <2>2 DEF EngineInv, OfferWaits, AskedWaits, EndsRequest
    <2> QED BY <2>1, <2>2
  <1> QED BY <1>7, <1>8 DEF EngineInv

(* The steps of the engine and of the sessions that keep what is offered, or  *)
(* take it off the board.                                                     *)
LEMMA EngineSteps ==
  ASSUME EngineInv, Engine
  PROVE  EngineInv'
  <1>0. EngineTypes
    BY DEF EngineInv
  <1>1. CASE EngineStarts \/ \E s \in Sessions : Ages(s)
    <2>1. UNCHANGED <<rec, reply, wire, pending, unheard, stream>>
      BY <1>1 DEF EngineStarts, Ages, supervision, known, engine
    <2> QED BY <2>1 DEF EngineInv, EngineTypes, AskedWaits, OfferWaits
  <1>2. CASE EngineDies \/ Cut
    BY <1>2, BreakKeeps
  <1>3. ASSUME NEW s \in Sessions, EngineAsks(s)
        PROVE  EngineInv'
    BY <1>3, AskKeeps
  <1>4. ASSUME NEW s \in Sessions, ChatAnswers(s)
        PROVE  EngineInv'
    <2>1. PICK n \in pending[s] : Over(s, {n}) /\ Emit("replied", s, n)
      BY <1>4 DEF ChatAnswers
    <2>2. n \in Asks /\ UNCHANGED <<rec, reply, stream>>
      BY <1>0, <1>4 DEF EngineTypes, ChatAnswers, supervision, known
    <2> QED BY <1>0, <2>1, <2>2, OverKeeps DEF EngineTypes
  <1>5. ASSUME NEW s \in Sessions, TurnEnds(s) \/ Deleted(s)
        PROVE  EngineInv'
    <2>1. /\ Over(s, Asks) /\ (Emit("idle", s, None) \/ Emit("deleted", s, None))
          /\ UNCHANGED <<rec, reply, stream>>
      BY <1>5 DEF TurnEnds, Deleted, supervision, known
    <2> QED BY <1>0, <2>1, OverKeeps DEF EngineTypes
  <1>6. ASSUME NEW s \in Sessions, NEW kind \in {"created", "busy", "error", "part", "message", "model", "question"},
               Progresses(s, kind)
        PROVE  EngineInv'
    <2>1. Emit(kind, s, None) /\ UNCHANGED <<rec, reply, stream, pending, unheard>>
      BY <1>6 DEF Progresses, supervision, known
    <2> QED BY <2>1, TellKeeps
  <1> QED BY <1>1, <1>2, <1>3, <1>4, <1>5, <1>6 DEF Engine

(* A session is given a state that offers what it did, or nothing. *)
LEMMA RecKeeps ==
  ASSUME EngineInv, rec' \in [Sessions -> RecStates], reply' \in [Sessions -> ReplyStates],
         \A s \in Sessions : rec'[s].socket \in {rec[s].socket, None},
         stream' \in {"none", "open", "cut"}, UNCHANGED <<wire, pending, unheard>>
  PROVE  EngineInv'
  <1>1. EngineTypes' /\ AskedWaits'
    BY DEF EngineInv, EngineTypes, AskedWaits
  <1>2. \A s \in Sessions : OfferWaits(s)'
    BY DEF EngineInv, OfferWaits
  <1> QED BY <1>1, <1>2 DEF EngineInv

LEMMA SessionSteps ==
  ASSUME EngineInv, Supervises
  PROVE  EngineInv'
  <1>0. EngineTypes
    BY DEF EngineInv
  <1>1. CASE EngineFound \/ RefreshFails \/ Reconnects
    <2>1. UNCHANGED <<rec, reply, wire, pending, unheard>> /\ stream' \in {"none", "open", "cut"}
      BY <1>0, <1>1 DEF EngineFound, RefreshFails, Reconnects, Booted, engine, known, EngineTypes
    <2> QED BY <1>0, <2>1, RecKeeps DEF EngineTypes
  <1>2. CASE RefreshSessions
    <2>1. /\ UNCHANGED <<wire, pending, unheard>> /\ stream' \in {"none", "open", "cut"}
          /\ reply' \in [Sessions -> ReplyStates]
          /\ rec' = [s \in Sessions |-> CASE s \in exist -> Ensured(rec[s])
                                          [] s \in old \ exist -> Unknown
                                          [] OTHER -> rec[s]]
      BY <1>0, <1>2, DropsAre DEF RefreshSessions, Booted, engine, EngineTypes
    <2>2. \A s \in Sessions : rec'[s] \in {rec[s], Unknown, Ensured(rec[s])} /\ rec[s] \in RecStates
      BY <1>0, <2>1 DEF EngineTypes
    <2>3. \A s \in Sessions : rec'[s] \in RecStates /\ rec'[s].socket \in {rec[s].socket, None}
      BY <2>2, EnsuredIs, RecsAre, HooksAre
    <2>4. rec' \in [Sessions -> RecStates]
      BY <2>1, <2>3
    <2> QED BY <1>0, <2>1, <2>3, <2>4, RecKeeps DEF EngineTypes
  <1>3. CASE Hears
    BY <1>3, HearsKeeps
  <1>4. ASSUME NEW s \in Sessions, Sends(s)
        PROVE  EngineInv'
    <2>1. rec' = [rec EXCEPT ![s].status = "generating"] /\ UNCHANGED <<reply, wire, pending, unheard, stream>>
      BY <1>4 DEF Sends, supervision, known, engine
    <2>2. rec' \in [Sessions -> RecStates] /\ \A o \in Sessions : rec'[o].socket = rec[o].socket
      BY <1>0, <2>1 DEF EngineTypes, RecStates
    <2> QED BY <1>0, <2>1, <2>2, RecKeeps DEF EngineTypes
  <1>5. ASSUME NEW s \in Sessions, NEW allow \in BOOLEAN, Replies(s, allow)
        PROVE  EngineInv'
    <2>1. /\ reply' = [reply EXCEPT ![s] = [at |-> "sent", n |-> rec[s].socket, allow |-> allow,
                                           mine |-> TRUE]]
          /\ UNCHANGED <<rec, wire, pending, unheard, stream>>
      BY <1>5 DEF Replies, supervision, known, engine
    <2>2. reply' \in [Sessions -> ReplyStates]
      BY <1>0, <2>1 DEF EngineTypes, ReplyStates, RecStates
    <2> QED BY <1>0, <2>1, <2>2, RecKeeps DEF EngineTypes
  <1>6. ASSUME NEW s \in Sessions, ReplyTaken(s)
        PROVE  EngineInv'
    <2>1. /\ reply' = [reply EXCEPT ![s].at = "taken"]
          /\ Over(s, {reply[s].n}) /\ Emit("replied", s, reply[s].n) /\ reply[s].n \in pending[s]
          /\ UNCHANGED <<rec, stream>>
      BY <1>6 DEF ReplyTaken, supervision, known
    <2>2. reply[s].n \in Asks
      BY <1>0, <2>1 DEF EngineTypes
    <2>3. reply' \in [Sessions -> ReplyStates]
      BY <1>0, <2>1 DEF EngineTypes, ReplyStates
    <2> QED BY <1>0, <2>1, <2>2, <2>3, OverKeeps DEF EngineTypes
  <1>7. ASSUME NEW s \in Sessions, ReplyDone(s)
        PROVE  EngineInv'
    <2> DEFINE done == IF ~reply[s].mine THEN rec[s]
                       ELSE Hook(IF reply[s].allow THEN "generating" ELSE "idle", None, None)
    <2>1. /\ reply' = [reply EXCEPT ![s] = NoReply] /\ rec' = [rec EXCEPT ![s] = done]
          /\ UNCHANGED <<wire, pending, unheard, stream>>
      BY <1>7 DEF ReplyDone, supervision, known, engine
    <2>2. done \in RecStates /\ done.socket \in {rec[s].socket, None}
      BY <1>0, RecsAre, HooksAre DEF EngineTypes
    <2> HIDE DEF done
    <2>3. reply' \in [Sessions -> ReplyStates]
      BY <1>0, <2>1 DEF EngineTypes, ReplyStates, NoReply
    <2>4. rec' \in [Sessions -> RecStates] /\ \A o \in Sessions : rec'[o].socket \in {rec[o].socket, None}
      BY <1>0, <2>1, <2>2 DEF EngineTypes
    <2> QED BY <1>0, <2>1, <2>3, <2>4, RecKeeps DEF EngineTypes
  <1>8. ASSUME NEW s \in Sessions, ReplyFails(s)
        PROVE  EngineInv'
    <2>1. reply' = [reply EXCEPT ![s] = NoReply] /\ UNCHANGED <<rec, wire, pending, unheard, stream>>
      BY <1>8 DEF ReplyFails, supervision, known, engine
    <2>2. reply' \in [Sessions -> ReplyStates]
      BY <1>0, <2>1 DEF EngineTypes, ReplyStates, NoReply
    <2> QED BY <1>0, <2>1, <2>2, RecKeeps DEF EngineTypes
  <1> QED BY <1>1, <1>2, <1>3, <1>4, <1>5, <1>6, <1>7, <1>8 DEF Supervises

LEMMA EngineInvSteps ==
  ASSUME EngineInv, [Next]_vars
  PROVE  EngineInv'
  <1>1. CASE UNCHANGED <<rec, reply, wire, pending, unheard, stream>>
    BY <1>1 DEF EngineInv, EngineTypes, AskedWaits, OfferWaits
  <1>2. CASE External \/ Frontend \/ Push \/ Attaches \/ UNCHANGED vars
    <2>1. UNCHANGED <<rec, reply, wire, pending, unheard, stream>>
      BY <1>2 DEF External, ScanOver, rest, Frontend, WidgetOpens, ReportReads, ReportSends, FrontStops,
         FrontDies, ReportAges, Push, Attaches, vars, engine, supervision, known
    <2> QED BY <1>1, <2>1
  <1> QED BY <1>2, EngineSteps, SessionSteps DEF Next

------------------------------------------------------------------------------
(* The scans and the board *)

ScanTypes ==
  /\ external \in [CLIs -> HookStates] /\ scanning \in ScanStates
  /\ failed \in BOOLEAN /\ push \in BOOLEAN

(* The bridge and the scans: a change is followed by a scan that is not over. *)
BridgeInv == BridgeTypes /\ ScanTypes /\ AskIsReachable /\ ExternalIsCurrent

LEMMA TerminalsAre == Terminals \in SUBSET CLIs
  BY DEF Terminals

LEMMA BridgeInvKeeps ==
  ASSUME BridgeInv, BridgeKeeps(Terminals)
  PROVE  BridgeInv'
  <1>1. ScanTypes'
    BY TerminalsAre, ScansAre DEF BridgeInv, BridgeKeeps, OnChange, ScanTypes
  <1>2. ExternalIsCurrent'
    BY TerminalsAre, ScansAre DEF BridgeInv, BridgeKeeps, OnChange, ExternalIsCurrent
  <1> QED BY <1>1, <1>2 DEF BridgeInv, BridgeKeeps

LEMMA ScanKeeps ==
  ASSUME BridgeInv, ScanStarts(Terminals) \/ ScanEnds \/ ScanFails
  PROVE  BridgeInv'
  <1>0. UNCHANGED bridge
    BY DEF ScanStarts, ScanEnds, ScanFails
  <1>1. CASE ScanStarts(Terminals)
    BY <1>0, <1>1, TerminalsAre, ScansAre DEF ScanStarts, BridgeInv, bridge, BridgeTypes, ScanTypes,
       AskIsReachable, ExternalIsCurrent
  <1>2. CASE ScanEnds
    <2>1. PICK coarse \in [scanning.terminals -> Coarse] :
            external' = [c \in CLIs |-> IF c \in scanning.terminals THEN Apply(c, coarse[c]) ELSE Unknown]
      BY <1>2 DEF ScanEnds
    <2>2. Coarse \subseteq HookStates
      BY HooksAre DEF Coarse, CliStatuses
    <2>3. external' \in [CLIs -> HookStates]
      BY <2>1, <2>2, HooksAre DEF BridgeInv, BridgeTypes, Apply
    <2>4. \A c \in CLIs \ aged : hook[c] # Unknown => external'[c] \in {hook[c], Unknown}
      BY <2>1 DEF Apply
    <2>5. ScanTypes'
      BY <1>2, <2>3, ScansAre DEF ScanEnds, ScanTypes
    <2>6. ExternalIsCurrent'
      BY <1>0, <2>4 DEF ExternalIsCurrent, bridge
    <2> QED BY <1>0, <2>5, <2>6 DEF BridgeInv, bridge, BridgeTypes, AskIsReachable
  <1>3. CASE ScanFails
    BY <1>0, <1>3, ScansAre DEF ScanFails, BridgeInv, bridge, BridgeTypes, ScanTypes, AskIsReachable,
       ExternalIsCurrent
  <1> QED BY <1>1, <1>2, <1>3

LEMMA ReportKeeps ==
  ASSUME BridgeInv, NEW items, Reported(items), UNCHANGED <<bridge, external, failed>>
  PROVE  BridgeInv'
  <1>1. items \cap CLIs \in SUBSET CLIs
    OBVIOUS
  <1>2. ScanTypes'
    BY <1>1, ScansAre DEF BridgeInv, Reported, ScanTypes
  <1>3. ExternalIsCurrent'
    BY <1>1, ScansAre DEF BridgeInv, Reported, ExternalIsCurrent, bridge
  <1> QED BY <1>2, <1>3 DEF BridgeInv, bridge, BridgeTypes, AskIsReachable

LEMMA BridgeInvSteps ==
  ASSUME BridgeInv, [Next]_vars
  PROVE  BridgeInv'
  <1>1. ASSUME UNCHANGED <<bridge, scans>>, push' \in BOOLEAN
        PROVE  BridgeInv'
    BY <1>1 DEF BridgeInv, bridge, scans, BridgeTypes, ScanTypes, AskIsReachable, ExternalIsCurrent
  <1>2. CASE External
    <2>1. present \cap CLIs \in SUBSET CLIs
      OBVIOUS
    <2>2. CASE HooksStep(present \cap CLIs, Terminals)
      BY <2>1, <2>2, BridgeSteps, BridgeInvKeeps DEF BridgeInv
    <2> QED BY <1>2, <2>2, ScanKeeps DEF External, ScanOver
  <1>3. CASE ReportSends \/ FrontStops
    BY <1>3, ReportKeeps DEF ReportSends, FrontStops
  <1>4. CASE (\E x \in present : WidgetOpens(x)) \/ ReportReads \/ FrontDies \/ ReportAges \/ Push \/ Attaches
             \/ UNCHANGED vars
    <2>1. UNCHANGED <<bridge, scans>> /\ push' \in {push, FALSE}
      BY <1>4 DEF WidgetOpens, ReportReads, FrontDies, ReportAges, Push, Attaches, vars
    <2> QED BY <1>1, <2>1 DEF BridgeInv, ScanTypes
  <1>5. CASE Engine
    <2>1. UNCHANGED <<bridge, scans, push>>
      BY <1>5 DEF Engine, EngineStarts, EngineDies, Cut, EngineAsks, ChatAnswers, TurnEnds, Deleted,
         Progresses, Ages
    <2> QED BY <1>1, <2>1 DEF BridgeInv, ScanTypes
  <1>6. CASE Supervises
    <2>1. UNCHANGED <<bridge, scans>>
      BY <1>6 DEF Supervises, EngineFound, RefreshSessions, RefreshFails, Reconnects, Hears, Sends,
         ReplyTaken, ReplyDone, ReplyFails, Replies
    <2>2. push' = push \/ push' = TRUE \/ push' = (push \/ HeardPushes(wire))
      BY <1>6 DEF Supervises, EngineFound, RefreshSessions, RefreshFails, Reconnects, Hears, Sends,
         ReplyTaken, ReplyDone, ReplyFails, Replies
    <2>3. push' \in BOOLEAN
      BY <2>2 DEF BridgeInv, ScanTypes, HeardPushes
    <2> QED BY <1>1, <2>1, <2>3
  <1> QED BY <1>2, <1>3, <1>4, <1>5, <1>6 DEF Next, Frontend

ModelTypes ==
  /\ model \in [Sessions -> Models \cup {None}] /\ shownModel \in [Sessions -> Models \cup {None}]
  /\ hushed \subseteq Sessions

(* What the board shows: each change of it is a snapshot, each change of what *)
(* is known is followed by a push.                                            *)
ShownInv == ShownAsKnown /\ DOMAIN shown = Widgets /\ EngineInv /\ ModelTypes

LEMMA SnapshotIs ==
  ASSUME Shows, UNCHANGED <<rec, model, external>>
  PROVE  ShownAsKnown' /\ (DOMAIN shown = Widgets)'
  <1>1. /\ shown' = [x \in Widgets |-> View(x)] /\ hushed' = {}
        /\ \A s \in Sessions : shownModel'[s] = IF View(s) = Unknown THEN None ELSE model[s]
    BY DEF Shows, Snapshot, SnapshotModel
  <1>0. \A s \in Sessions : shown'[s] = View(s)
    BY <1>1 DEF Widgets
  <1>2. \A s \in Sessions : shown'[s] \in {Unknown, rec[s]}
    BY <1>1, MaestroAssumption DEF Widgets, View
  <1>3. \A c \in CLIs : shown'[c] = external[c]
    BY <1>1, MaestroAssumption DEF Widgets, View
  <1> QED BY <1>0, <1>1, <1>2, <1>3 DEF ShownAsKnown

LEMMA ShownSteps ==
  ASSUME ShownInv, BridgeInv, [Next]_vars
  PROVE  ShownAsKnown' /\ (DOMAIN shown = Widgets)'
  <1>1. ASSUME UNCHANGED board, push' = TRUE \/ UNCHANGED <<known, external, push>>
        PROVE  ShownAsKnown' /\ (DOMAIN shown = Widgets)'
    BY <1>1 DEF ShownInv, ShownAsKnown, known, board
  <1>2. CASE Push \/ Attaches
    BY <1>2, SnapshotIs DEF Push, Attaches, scans, known
  <1>3. CASE External
    <2>1. UNCHANGED <<board, known>>
      BY <1>3 DEF External, ScanOver, rest
    <2>2. CASE HooksStep(present \cap CLIs, Terminals)
      <3>1. present \cap CLIs \in SUBSET CLIs
        OBVIOUS
      <3>2. BridgeKeeps(Terminals)
        BY <2>2, <3>1, BridgeSteps DEF BridgeInv
      <3> QED BY <1>1, <2>1, <3>2 DEF BridgeKeeps, OnChange
    <2>3. CASE ScanStarts(Terminals) \/ ScanFails
      BY <1>1, <2>1, <2>3 DEF ScanStarts, ScanFails, BridgeInv, ScanTypes
    <2>4. CASE ScanEnds
      BY <1>1, <2>1, <2>4 DEF ScanEnds
    <2> QED BY <1>3, <2>2, <2>3, <2>4 DEF External, ScanOver
  <1>4. CASE Frontend
    <2>1. UNCHANGED <<board, known, external>>
      BY <1>4 DEF Frontend, WidgetOpens, ReportReads, ReportSends, FrontStops, FrontDies, ReportAges, scans
    <2>2. push' = TRUE \/ UNCHANGED push
      BY <1>4 DEF Frontend, WidgetOpens, ReportReads, ReportSends, FrontStops, FrontDies, ReportAges, Reported
    <2> QED BY <1>1, <2>1, <2>2
  <1>5. CASE Engine
    <2>1. UNCHANGED <<board, known, external, push>>
      BY <1>5 DEF Engine, EngineStarts, EngineDies, Cut, EngineAsks, ChatAnswers, TurnEnds, Deleted,
         Progresses, Ages, scans
    <2> QED BY <1>1, <2>1
  <1>6. CASE Supervises /\ ~Hears
    <2>1. UNCHANGED <<board, external>>
      BY <1>6 DEF Supervises, EngineFound, RefreshSessions, RefreshFails, Reconnects, Sends,
         ReplyTaken, ReplyDone, ReplyFails, Replies, scans
    <2>2. push' = TRUE \/ UNCHANGED <<known, push>>
      BY <1>6 DEF Supervises, EngineFound, RefreshSessions, RefreshFails, Reconnects, Sends,
         ReplyTaken, ReplyDone, ReplyFails, Replies
    <2> QED BY <1>1, <2>1, <2>2
  (* The events that are not pushed make a session known that is not shown,   *)
  (* or tell of a model.                                                       *)
  <1>7. CASE Hears
    <2>0. /\ wire \in Events /\ wire.s \in Sessions /\ rec[wire.s] \in RecStates
          /\ rec \in [Sessions -> RecStates]
      BY <1>7 DEF Hears, ShownInv, EngineInv, EngineTypes, Events
    <2>1. /\ UNCHANGED <<shown, shownModel, external>> /\ push' = (push \/ HeardPushes(wire))
          /\ rec' = [rec EXCEPT ![wire.s] = Heard(rec[wire.s], wire)]
      BY <1>7 DEF Hears, scans
    <2>2. CASE push \/ HeardPushes(wire)
      BY <2>1, <2>2 DEF ShownInv, ShownAsKnown
    <2>3. CASE ~push /\ ~HeardPushes(wire)
      <3>1. Heard(rec[wire.s], wire) \in {rec[wire.s], Ensured(rec[wire.s])}
        BY <2>0, <2>3, HeardIs DEF HeardPushes
      <3>2. Heard(rec[wire.s], wire) = rec[wire.s] \/ rec[wire.s] = Unknown
        BY <3>1 DEF Ensured
      <3>3. \A s \in Sessions : rec'[s] = rec[s] \/ rec[s] = Unknown
        BY <2>0, <2>1, <3>2
      <3>4. PICK m \in Models : model' = [model EXCEPT ![wire.s] = HeardModel(model[wire.s], wire.kind, m)]
        BY <1>7 DEF Hears
      <3>5. \A s \in Sessions \ hushed' : model'[s] = model[s] /\ s \notin hushed
        <4>1. CASE wire.kind = "model"
          <5>1. hushed' = hushed \cup {wire.s}
            BY <1>7, <4>1 DEF Hears
          <5> QED BY <2>0, <3>4, <5>1 DEF ShownInv
        <4>2. CASE wire.kind # "model"
          <5>1. hushed' = hushed
            BY <1>7, <4>2 DEF Hears
          <5>2. HeardModel(model[wire.s], wire.kind, m) = model[wire.s]
            BY <2>3, <4>2 DEF HeardModel, HeardPushes
          <5> QED BY <2>0, <3>4, <5>1, <5>2 DEF ShownInv
        <4> QED BY <4>1, <4>2
      <3> QED BY <2>1, <2>3, <3>3, <3>5 DEF ShownInv, ShownAsKnown
    <2> QED BY <2>2, <2>3
  <1>8. CASE UNCHANGED vars
    BY <1>1, <1>8 DEF vars, scans
  <1> QED BY <1>2, <1>3, <1>4, <1>5, <1>6, <1>7, <1>8 DEF Next

------------------------------------------------------------------------------
(* The other types *)

BoardTypes ==
  /\ present \in {Sessions, CLIs}
  /\ boot \in {"scan", "engine", "list", "up"} /\ base \in {"none", "known", "stale"}
  /\ old \subseteq Sessions /\ exist \subseteq Sessions /\ {up, front} \subseteq BOOLEAN
  /\ open \subseteq Widgets
  /\ reading \in [on : BOOLEAN, items : SUBSET Widgets]
  /\ surfaces \in [old : BOOLEAN, items : SUBSET Widgets]

LEMMA TypeParts ==
  TypeOK <=> BridgeTypes /\ ScanTypes /\ events \in 0..MaxEvents /\ EngineTypes /\ BoardTypes
             /\ DOMAIN shown = Widgets /\ ModelTypes
  BY DEF TypeOK, ModelTypes, HooksTypeOK, BridgeTypes, ScanTypes, EngineTypes, BoardTypes, RecStates, ReplyStates,
     Events, ClientStates, ScanStates

LEMMA ModelSteps ==
  ASSUME ModelTypes, wire \in {Silence} \cup Events, [Next]_vars
  PROVE  ModelTypes'
  <1>1. CASE UNCHANGED <<model, board>>
    BY <1>1 DEF ModelTypes, board
  <1>2. CASE Push \/ Attaches
    <2>1. UNCHANGED model /\ hushed' = {} /\ shownModel' = SnapshotModel
      BY <1>2 DEF Push, Attaches, Shows, known
    <2>2. SnapshotModel \in [Sessions -> Models \cup {None}]
      BY DEF SnapshotModel, ModelTypes
    <2> QED BY <2>1, <2>2 DEF ModelTypes
  <1>3. CASE External \/ Frontend \/ UNCHANGED vars
    <2>1. UNCHANGED <<model, board>>
      BY <1>3 DEF External, ScanOver, rest, Frontend, WidgetOpens, ReportReads, ReportSends, FrontStops,
         FrontDies, ReportAges, vars, known
    <2> QED BY <1>1, <2>1
  <1>4. CASE Engine
    <2>1. UNCHANGED <<model, board>>
      BY <1>4 DEF Engine, EngineStarts, EngineDies, Cut, EngineAsks, ChatAnswers, TurnEnds, Deleted,
         Progresses, Ages, known
    <2> QED BY <1>1, <2>1
  <1>5. CASE Hears
    <2>1. UNCHANGED shownModel /\ hushed' \in {hushed, hushed \cup {wire.s}} /\ wire.s \in Sessions
      BY <1>5 DEF Hears, Events
    <2>2. PICK m \in Models : model' = [model EXCEPT ![wire.s] = HeardModel(model[wire.s], wire.kind, m)]
      BY <1>5 DEF Hears
    <2>3. HeardModel(model[wire.s], wire.kind, m) \in Models \cup {None}
      BY <2>1 DEF HeardModel, ModelTypes
    <2> QED BY <2>1, <2>2, <2>3 DEF ModelTypes
  <1>6. CASE RefreshSessions
    BY <1>6 DEF RefreshSessions, ModelTypes, board
  <1>7. CASE Supervises /\ ~Hears /\ ~RefreshSessions
    <2>1. UNCHANGED <<model, board>>
      BY <1>7 DEF Supervises, EngineFound, RefreshFails, Reconnects, Sends, ReplyTaken, ReplyDone,
         ReplyFails, Replies, known
    <2> QED BY <1>1, <2>1
  <1> QED BY <1>2, <1>3, <1>4, <1>5, <1>6, <1>7 DEF Next

LEMMA EventSteps ==
  ASSUME events \in 0..MaxEvents, [Next]_vars
  PROVE  events' \in 0..MaxEvents
  <1>1. CASE Happens
    BY <1>1, MaestroHooksAssumption DEF Happens
  <1>2. CASE External \/ Frontend \/ Push \/ Attaches \/ UNCHANGED vars
    <2>1. Happens \/ UNCHANGED events
      BY <1>2 DEF External, HooksStep, Tells, AsksPermission, Ends, Leaves, Respond, HookAges, ScanOver, ScanStarts,
         ScanEnds, ScanFails, Frontend, WidgetOpens, ReportReads, ReportSends, FrontStops, FrontDies,
         ReportAges, Push, Attaches, vars
    <2> QED BY <1>1, <2>1
  <1>3. CASE Engine
    <2>1. Happens
      BY <1>3 DEF Engine, EngineStarts, EngineDies, Cut, EngineAsks, ChatAnswers, TurnEnds, Deleted,
         Progresses, Ages
    <2> QED BY <1>1, <2>1
  <1>4. CASE Supervises
    <2>1. Happens \/ UNCHANGED events
      BY <1>4 DEF Supervises, EngineFound, RefreshSessions, RefreshFails, Reconnects, Hears, Sends,
         ReplyTaken, ReplyDone, ReplyFails, Replies
    <2> QED BY <1>1, <2>1
  <1> QED BY <1>2, <1>3, <1>4 DEF Next

LEMMA BoardSteps ==
  ASSUME BoardTypes, ScanTypes, wire \in {Silence} \cup Events, [Next]_vars
  PROVE  BoardTypes'
  <1>0. present' = present
    BY DEF Next, vars
  <1>1. CASE External \/ Push \/ Attaches \/ UNCHANGED vars
    <2>1. UNCHANGED <<base, old, up, exist, open, front, reading, surfaces>>
      BY <1>1 DEF External, ScanOver, rest, Push, Attaches, vars, supervision, known, engine, frontend
    <2>2. boot' \in {boot, "engine"}
      BY <1>1 DEF External, ScanOver, Push, Attaches, vars, supervision, known
    <2> QED BY <1>0, <2>1, <2>2 DEF BoardTypes
  <1>2. CASE Frontend
    <2>1. UNCHANGED <<boot, base, old, up, exist>>
      BY <1>2 DEF Frontend, WidgetOpens, ReportReads, ReportSends, FrontStops, FrontDies, ReportAges,
         supervision, engine
    <2>2. present \subseteq Widgets
      BY DEF BoardTypes, Widgets
    <2>3. NoReport \in [on : BOOLEAN, items : SUBSET Widgets]
      BY DEF NoReport
    <2>4. open' \subseteq Widgets /\ front' \in BOOLEAN
      BY <1>2, <2>2 DEF Frontend, WidgetOpens, ReportReads, ReportSends, FrontStops, FrontDies, ReportAges,
         frontend, BoardTypes
    <2>5. reading' \in [on : BOOLEAN, items : SUBSET Widgets]
      <3>1. reading' \in {reading, NoReport, [on |-> TRUE, items |-> open]}
        BY <1>2 DEF Frontend, WidgetOpens, ReportReads, ReportSends, FrontStops, FrontDies, ReportAges,
           frontend
      <3>2. [on |-> TRUE, items |-> open] \in [on : BOOLEAN, items : SUBSET Widgets]
        BY DEF BoardTypes
      <3> QED BY <2>3, <3>1, <3>2 DEF BoardTypes
    <2>6. surfaces' \in [old : BOOLEAN, items : SUBSET Widgets]
      <3>1. CASE ReportSends \/ FrontStops
        <4>1. PICK items \in SUBSET Widgets : Reported(items)
          BY <3>1 DEF ReportSends, FrontStops, BoardTypes
        <4> QED BY <4>1 DEF Reported
      <3>2. CASE ReportAges
        BY <3>2 DEF ReportAges, BoardTypes
      <3>3. CASE ReportReads \/ FrontDies \/ \E x \in present : WidgetOpens(x)
        BY <3>3 DEF ReportReads, FrontDies, WidgetOpens, BoardTypes
      <3> QED BY <1>2, <3>1, <3>2, <3>3 DEF Frontend
    <2> QED BY <1>0, <2>1, <2>4, <2>5, <2>6 DEF BoardTypes
  <1>3. CASE Engine
    <2>1. UNCHANGED <<boot, open, front, reading, surfaces>>
      BY <1>3 DEF Engine, EngineStarts, EngineDies, Cut, EngineAsks, ChatAnswers, TurnEnds, Deleted,
         Progresses, Ages, supervision, known, frontend
    <2>2. (base' = base \/ base' = "stale") /\ (up' = up \/ up' = TRUE \/ up' = FALSE)
      BY <1>3 DEF Engine, EngineStarts, EngineDies, Cut, EngineAsks, ChatAnswers, TurnEnds, Deleted,
         Progresses, Ages, supervision, known, engine
    <2>3. exist' \subseteq exist \/ \E s \in Sessions : exist' = exist \cup {s}
      BY <1>3 DEF Engine, EngineStarts, EngineDies, Cut, EngineAsks, ChatAnswers, TurnEnds, Deleted,
         Progresses, Ages, engine
    <2>4. old' = old \/ \E s \in Sessions : old' = old \cup {s}
      BY <1>3 DEF Engine, EngineStarts, EngineDies, Cut, EngineAsks, ChatAnswers, TurnEnds, Deleted,
         Progresses, Ages
    <2> QED BY <1>0, <2>1, <2>2, <2>3, <2>4 DEF BoardTypes
  <1>4. CASE Supervises
    <2>1. UNCHANGED <<up, exist, open, front, reading, surfaces>>
      BY <1>4 DEF Supervises, EngineFound, RefreshSessions, RefreshFails, Reconnects, Hears, Sends,
         ReplyTaken, ReplyDone, ReplyFails, Replies, engine, frontend
    <2>2. old' \subseteq old /\ base' \in {base, "known", "none"} /\ boot' \in {boot, "list", "up"}
      BY <1>4 DEF Supervises, EngineFound, RefreshSessions, RefreshFails, Reconnects, Hears, Sends,
         ReplyTaken, ReplyDone, ReplyFails, Replies, supervision, known, Booted
    <2> QED BY <1>0, <2>1, <2>2 DEF BoardTypes
  <1> QED BY <1>1, <1>2, <1>3, <1>4 DEF Next

------------------------------------------------------------------------------
(* The theorems *)

LEMMA InvParts ==
  IInv <=> /\ EngineInv /\ BridgeInv /\ ShownInv /\ BoardTypes /\ events \in 0..MaxEvents
  BY TypeParts, OfferParts DEF IInv, EngineInv, BridgeInv, ShownInv

LEMMA Initially == Init => IInv
  <1> SUFFICES ASSUME Init PROVE IInv
    OBVIOUS
  <1>1. EngineInv
    <2>1. EngineTypes
      BY RecsAre DEF Init, EngineTypes, NoReply, ReplyStates, Silence
    <2> QED BY <2>1, HooksAre DEF Init, EngineInv, AskedWaits, OfferWaits, Silence
  <1>2. BridgeInv
    <2>1. {} \in SUBSET CLIs
      OBVIOUS
    <2>2. ScanTypes /\ scanning # Idle
      BY <2>1, HooksAre, ScansAre DEF Init, HooksInit, ScanTypes
    <2>3. BridgeTypes /\ AskIsReachable
      BY HooksAre DEF Init, HooksInit, BridgeTypes, ClientStates, AskIsReachable
    <2> QED BY <2>2, <2>3 DEF BridgeInv, ExternalIsCurrent
  <1>3. ShownInv
    BY <1>1 DEF Init, HooksInit, ShownInv, ShownAsKnown, ModelTypes, Widgets
  <1>4. BoardTypes
    BY DEF Init, BoardTypes, NoReport, Widgets
  <1>5. events \in 0..MaxEvents
    BY MaestroHooksAssumption DEF Init, HooksInit
  <1> QED BY <1>1, <1>2, <1>3, <1>4, <1>5, InvParts

LEMMA Steps ==
  ASSUME IInv, [Next]_vars
  PROVE  IInv'
  <1>0. EngineInv /\ BridgeInv /\ ShownInv /\ BoardTypes /\ events \in 0..MaxEvents
    BY InvParts
  <1>1. EngineInv' /\ BridgeInv' /\ events' \in 0..MaxEvents
    BY <1>0, EngineInvSteps, BridgeInvSteps, EventSteps
  <1>2. BoardTypes'
    BY <1>0, BoardSteps DEF BridgeInv, EngineInv, EngineTypes
  <1>3. ShownAsKnown' /\ (DOMAIN shown = Widgets)' /\ ModelTypes'
    BY <1>0, ShownSteps, ModelSteps DEF ShownInv, EngineInv, EngineTypes
  <1>4. TypeOK'
    BY <1>1, <1>2, <1>3 DEF TypeOK, HooksTypeOK, BridgeInv, BridgeTypes, ScanTypes, EngineInv, EngineTypes,
       BoardTypes, ModelTypes, RecStates, ReplyStates, Events, ClientStates, ScanStates
  <1>5. OfferIsPending'
    BY <1>1, <1>4 DEF OfferIsPending, EngineInv, OfferWaits
  <1> QED BY <1>1, <1>3, <1>4, <1>5 DEF IInv, EngineInv, BridgeInv

(* The inductive invariant of the supervision: types, the client that waits,  *)
(* what is offered, what is shown.                                            *)
THEOREM Inductive == Spec => []IInv
  <1>1. Init => IInv
    BY Initially
  <1>2. IInv /\ [Next]_vars => IInv'
    BY Steps
  <1> QED BY <1>1, <1>2, PTL DEF Spec

(* A program that waits for its answer can be given one from the board: the   *)
(* bridge holds the client of its last request, and no other client waits.    *)
THEOREM WaiterIsHeld == Spec => []AskIsReachable
  <1>1. IInv => AskIsReachable
    BY DEF IInv
  <1> QED BY <1>1, Inductive, PTL

(* An offer of the board waits in the engine, or the event that takes it off  *)
(* is on its way, or was lost with the stream: handleEvent() and the replies  *)
(* of the service leave none behind.                                          *)
THEOREM OffersWait == Spec => []OfferIsPending
  <1>1. IInv => OfferIsPending
    BY DEF IInv
  <1> QED BY <1>1, Inductive, PTL

(* The board follows what the hooks and the engine said: scanExternal() misses *)
(* no change, schedulePush() is called for each.                               *)
THEOREM BoardFollows == Spec => []BoardIsCurrent
  <1>1. IInv => BoardIsCurrent
    <2> SUFFICES ASSUME IInv PROVE BoardIsCurrent
      OBVIOUS
    <2>1. ExternalIsCurrent
      BY DEF IInv
    <2>2. ASSUME ~push, NEW x \in Widgets, shown[x] # Unknown, View(x) # Unknown
          PROVE  shown[x] = View(x)
      <3>1. CASE x \in CLIs
        BY <2>2, <3>1, MaestroAssumption DEF IInv, ShownAsKnown, View
      <3>2. CASE x \in Sessions
        BY <2>2, <3>2, MaestroAssumption DEF IInv, ShownAsKnown, View
      <3> QED BY <3>1, <3>2 DEF Widgets
    <2>3. ASSUME ~push, NEW s \in Sessions \ hushed, shown[s] # Unknown
          PROVE  shownModel[s] = model[s]
      BY <2>3 DEF IInv, ShownAsKnown
    <2> QED BY <2>1, <2>2, <2>3 DEF BoardIsCurrent, ShownIsCurrent
  <1> QED BY <1>1, Inductive, PTL

=============================================================================
