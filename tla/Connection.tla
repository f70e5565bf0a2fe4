----------------------------- MODULE Connection -----------------------------
(***************************************************************************)
(* deriveConnection() and requireContribution() of fabi-connection.ts: the *)
(* one reason, out of many that may hold at once, that the user is shown   *)
(* for the state of the swarm joined, as the registry and the local worker *)
(* tell it.  Wording, counters and layers are left out.                    *)
(***************************************************************************)

CONSTANTS Swarms, NoSwarm, NoEntry

ASSUME ConnectionAssumption == NoSwarm \notin Swarms

(* A value of a field that registries of some versions do not publish. *)
Optional == {"yes", "no", "unset"}

(* SwarmEntry, the last one pushed for a swarm: `scheduler` is its status,    *)
(* "unset" when null; `lacking` is initNodesNum above peers, and `nodesActive`*)
(* is "no" for zero.                                                          *)
Entry == [id : Swarms,
          status : {"online", "offline", "unknown"},
          scheduler : {"available", "waiting", "unset"},
          bootstrap : {"failed_capacity", "deferred_not_enough_nodes", "other"},
          pipelineReady : Optional, routingReady : Optional, nodesActive : Optional,
          needMoreNodes : BOOLEAN, pipelines : BOOLEAN, lacking : BOOLEAN]

ASSUME EntryAssumption == NoEntry \notin Entry

WorkerKind  == {"stopped", "starting", "running", "missing-binary", "error"}
WorkerStage == {"none", "handshake", "joining", "loading-weights", "ready", "alloc-timeout"}

(* WorkerState: the stage is that of a running worker. *)
WorkerState == [kind : WorkerKind, stage : WorkerStage, swarm : Swarms \cup {NoSwarm}]

Stopped == [kind |-> "stopped", stage |-> "none", swarm |-> NoSwarm]

(* handleLine(): the stage that each event of the worker's output leads to. *)
EventStage ==
  [peer_id |-> "handshake", joining_scheduler |-> "joining", allocated |-> "loading-weights",
   alloc_timeout |-> "alloc-timeout", weights_load_start |-> "loading-weights",
   weights_load_progress |-> "loading-weights", weights_load_done |-> "ready"]

(* What the worker of a swarm says: it was launched, it went a stage further, *)
(* it died or was stopped, it is about to be launched again.                  *)
Says(s) ==
  [kind : {"starting", "running", "error", "stopped"}, stage : {"none"}, swarm : {s}] \cup
  [kind : {"running"}, stage : {EventStage[e] : e \in DOMAIN EventStage}, swarm : {s}]

Reasons == {"pick-model", "worker-missing-binary", "worker-crashed", "worker-starting",
            "alloc-timeout", "insufficient-capacity", "loading-model", "scheduler-unreachable",
            "connecting", "need-more-peers", "route-busy", "ready",
            "contribution-required", "contribution-pending", "insufficient-storage"}

(* What of a worker that is not running is shown. *)
KindReason(kind) ==
  IF kind = "missing-binary" THEN "worker-missing-binary"
  ELSE IF kind = "starting" THEN "worker-starting" ELSE "worker-crashed"

(* The layers are loaded but a new turn cannot be admitted. *)
Saturated(e) == e.pipelineReady = "yes" /\ e.routingReady = "no"

(* The fallback is for the registries that do not publish pipelineReady. *)
HasServingPipeline(e) ==
  \/ e.pipelineReady = "yes"
  \/ e.pipelineReady = "unset" /\ e.nodesActive # "no"

(* The verdict of a scheduler that has answered. *)
SchedulerReason(e) ==
  IF Saturated(e) THEN (IF e.needMoreNodes THEN "need-more-peers" ELSE "route-busy")
  ELSE IF e.scheduler = "available" THEN (IF HasServingPipeline(e) THEN "ready" ELSE "loading-model")
  ELSE IF e.pipelines /\ e.pipelineReady = "no" THEN "loading-model"
  ELSE IF e.bootstrap = "deferred_not_enough_nodes" \/ e.lacking THEN "need-more-peers"
  ELSE "connecting"

DeriveConnection(active, w) ==
  IF active = NoEntry THEN "pick-model"
  ELSE IF w.kind # "running" THEN KindReason(w.kind)
  ELSE IF w.stage = "alloc-timeout" THEN "alloc-timeout"
  ELSE IF active.bootstrap = "failed_capacity" THEN "insufficient-capacity"
  ELSE IF w.stage = "loading-weights" THEN "loading-model"
  ELSE IF active.status = "offline" THEN "scheduler-unreachable"
  ELSE IF active.status = "unknown" \/ active.scheduler = "unset" THEN "connecting"
  ELSE SchedulerReason(active)

(* What the scheduler says of the account: `reason`, and for no_eligible_worker *)
(* the state of the worker when it matters.                                     *)
Answers == {"allowed", "unknown", "capacity_reached", "no_eligible_worker", "insufficient_storage",
            "invalid_credential", "status_unavailable"}

(* A route that is not ready keeps its own reason, whatever the scheduler said. *)
RequireContribution(transport, answer) ==
  IF transport # "ready" \/ answer = "allowed" THEN transport
  ELSE IF answer = "invalid_credential" THEN "contribution-required"
  ELSE IF answer = "insufficient_storage" THEN "insufficient-storage"
  ELSE "contribution-pending"

==============================================================================
