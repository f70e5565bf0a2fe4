-------------------------- MODULE ModelRegistration --------------------------
(***************************************************************************)
(* FabiSwarmModelContribution with the part of FabiSwarmFrontend that it   *)
(* reads: the swarm that may serve is registered in Theia AI as a model,   *)
(* by calls that await and are fenced by a generation.                     *)
(***************************************************************************)
EXTENDS Naturals, FiniteSets

CONSTANTS
  Swarms,
  None,
  MaxPushes,     \* bound: pushes of the backend
  MaxSyncs,      \* bound: calls of syncModelRegistration()
  MaxFailures    \* bound: calls that fail


VARIABLES
  front,        \* FabiSwarmFrontend: active, connection.ready, the URL of a ready requestAgent
  started,      \* the end of onStart(): its snapshot was answered, or failed
  generation,   \* modelSyncGeneration
  wires,        \* the calls of wire() under way
  registered,   \* modelRegistered
  model,        \* the model that Theia has (external)
  assigned,     \* agentsAssigned
  pushes, failures

vars == <<front, started, generation, wires, registered, model, assigned, pushes, failures>>

Urls == 1..2

RegistrationAssumption ==
  /\ {MaxPushes, MaxSyncs, MaxFailures} \subseteq Nat
  /\ None \notin [swarm : Swarms, url : Urls]

Fronts == [active : Swarms \cup {None}, ready : BOOLEAN, url : Urls \cup {None}]

(* What the swarm of a frontend is registered as, if it may serve. *)
Usable(f) == f.active # None /\ f.ready /\ f.url # None
Wiring(f) == [swarm |-> f.active, url |-> f.url]

UnregisterModel == registered' = FALSE /\ model' = IF registered THEN None ELSE model

(* A call of syncModelRegistration(), the calls under way being ws. *)
SyncModelRegistration(f, ws) ==
  /\ generation < MaxSyncs /\ generation' = generation + 1
  /\ wires' = IF Usable(f) THEN ws \cup {[generation |-> generation', of |-> Wiring(f), at |-> "token"]}
              ELSE ws

(* The same, and what it does at once. *)
Sync(f) ==
  /\ SyncModelRegistration(f, wires)
  /\ IF Usable(f) THEN UNCHANGED <<registered, model>> ELSE UnregisterModel

(* onActiveSwarmChanged(), onConnectionChanged(), onRequestAgentStateChanged() *)
Pushed ==
  /\ pushes < MaxPushes /\ pushes' = pushes + 1
  /\ \/ \E s \in Swarms \cup {None} : front' = [front EXCEPT !.active = s]
     \/ \E b \in BOOLEAN : front' = [front EXCEPT !.ready = b]
     \/ \E u \in Urls \cup {None} : front' = [front EXCEPT !.url = u]
  /\ Sync(front')
  /\ UNCHANGED <<started, assigned, failures>>

(* The three answers that onStart() awaited; they may be older than a push *)
(* that came since.                                                        *)
Snapshot ==
  /\ ~started /\ started' = TRUE
  /\ front' \in Fronts /\ Sync(front')
  /\ UNCHANGED <<assigned, pushes, failures>>

NoSnapshot ==
  /\ ~started /\ started' = TRUE /\ failures < MaxFailures /\ failures' = failures + 1
  /\ UNCHANGED <<front, generation, wires, registered, model, assigned, pushes>>

Current(w) == w.generation = generation
Leaves(w) == wires' = wires \ {w}
Goes(w, at) == wires' = (wires \ {w}) \cup {[w EXCEPT !.at = at]}

(* The account token is there: an older call ends here. *)
TokenReady(w) ==
  /\ w.at = "token"
  /\ IF Current(w) THEN Goes(w, "register") ELSE Leaves(w)
  /\ UNCHANGED <<front, started, generation, registered, model, assigned, pushes, failures>>

(* createOrUpdateLanguageModels() does it, some time before it returns (external). *)
Registers(w) ==
  /\ w.at = "register" /\ Goes(w, "registered") /\ model' = w.of
  /\ UNCHANGED <<front, started, generation, registered, assigned, pushes, failures>>

(* The token or the registration fails. *)
WireFails(w) ==
  /\ w.at \in {"token", "register"} /\ failures < MaxFailures /\ failures' = failures + 1
  /\ Leaves(w)
  /\ IF Current(w) THEN UnregisterModel ELSE UNCHANGED <<registered, model>>
  /\ UNCHANGED <<front, started, generation, assigned, pushes>>

(* Fault: what an older call registered is only taken away. *)
OvertakenRemoves(w) ==
  /\ w.at = "registered" /\ ~Current(w)
  /\ Leaves(w) /\ registered' = FALSE /\ model' = None
  /\ UNCHANGED <<front, started, generation, assigned, pushes, failures>>

(* The registration of an older call returns: it may have overwritten that of *)
(* the current one, and all is done again.  Two that return in turn, each     *)
(* while the other registers, go on so without end.                           *)
Overtaken(w) ==
  /\ w.at = "registered" /\ ~Current(w)
  /\ SyncModelRegistration(front, wires \ {w})
  /\ IF Usable(front) THEN registered' = TRUE /\ UNCHANGED model ELSE registered' = FALSE /\ model' = None
  /\ UNCHANGED <<front, started, assigned, pushes, failures>>

(* Fault: it is taken for the current one. *)
ReturnedUnfenced(w) ==
  /\ w.at = "registered" /\ Leaves(w)
  /\ registered' = TRUE /\ assigned' = TRUE
  /\ UNCHANGED <<front, started, generation, model, pushes, failures>>

(* The registration of the current one: the agents get it, once. *)
Returned(w) ==
  /\ w.at = "registered" /\ Current(w)
  /\ registered' = TRUE /\ assigned' = TRUE
  /\ IF assigned THEN Leaves(w) ELSE Goes(w, "assign")
  /\ UNCHANGED <<front, started, generation, model, pushes, failures>>

Assigned(w) ==
  /\ w.at = "assign" /\ Leaves(w)
  /\ \/ UNCHANGED <<assigned, failures>>
     \/ assigned' = FALSE /\ failures < MaxFailures /\ failures' = failures + 1
  /\ UNCHANGED <<front, started, generation, registered, model, pushes>>

------------------------------------------------------------------------------
Init ==
  /\ front = [active |-> None, ready |-> FALSE, url |-> None] /\ started = FALSE
  /\ generation = 0 /\ wires = {} /\ registered = FALSE /\ model = None /\ assigned = FALSE
  /\ pushes = 0 /\ failures = 0

Wire(w) == TokenReady(w) \/ Registers(w) \/ WireFails(w) \/ Overtaken(w) \/ Returned(w) \/ Assigned(w)

Next == Pushed \/ Snapshot \/ NoSnapshot \/ \E w \in wires : Wire(w)

Spec == Init /\ [][Next]_vars

TypeOK ==
  /\ front \in Fronts /\ {started, registered, assigned} \subseteq BOOLEAN /\ generation \in 0..MaxSyncs
  /\ \A w \in wires : w.generation \in 1..generation /\ w.at \in {"token", "register", "registered", "assign"}
  /\ pushes \in 0..MaxPushes /\ failures \in 0..MaxFailures

(* Once the calls have ended, in whatever order their answers came, the model *)
(* that Theia has is the one of the last push: that swarm through the Request *)
(* Agent of now, and none when it may not serve.  A usable swarm is missing   *)
(* only after a failure, which nothing retries.                               *)
ModelIsCurrent ==
  (\A w \in wires : w.at = "assign") =>
    /\ registered <=> model # None
    /\ model # None => Usable(front) /\ model = Wiring(front)
    /\ failures = 0 /\ Usable(front) => model # None
==============================================================================
