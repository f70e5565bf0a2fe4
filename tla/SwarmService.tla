---------------------------- MODULE SwarmService ----------------------------
(***************************************************************************)
(* FabiSwarmServiceImpl: which swarm is joined, and the life of the two    *)
(* processes that joining it takes, the Parallax worker and the Request    *)
(* Agent.                                                                  *)
(*                                                                         *)
(* The service is single threaded: one action is everything it does        *)
(* between two awaits.  The calls that await are variables of their own:   *)
(* `at` is the await they stand at and the other fields are the values     *)
(* they hold across it.  A call whose await is over resumes before the     *)
(* next event is handled (Resume and Due).                                 *)
(*                                                                         *)
(* The two processes are modelled from fabi-swarm-worker.ts and            *)
(* fabi-request-agent.ts, which supervise them: what they report, and when *)
(* their stop() resolves.  The contribution gate is in Contribution.       *)
(***************************************************************************)
EXTENDS Naturals, FiniteSets

CONSTANTS
  Swarms,        \* the swarms of the registry
  NoSwarm,       \* no swarm joined
  Overlap,       \* may the user act while a call of his is under way?
  Troubles,      \* which of AllTroubles may happen
  MaxTrouble,    \* bound: how many of them
  MaxGestures,   \* bound: calls that join, leave or close
  MaxChanges     \* bound: changes of the model storage

(* A process dies, the Request Agent publishes an invalid readiness, a        *)
(* preparation fails, the registry drops a swarm, the runtime is not there,   *)
(* SWARM_STATE_PATH cannot be written.  A step meets one of them at most.     *)
AllTroubles == {"worker", "agent", "readiness", "prepare", "unlisted", "missing", "file"}

ASSUME ServiceAssumption ==
  /\ NoSwarm \notin Swarms
  /\ Overlap \in BOOLEAN
  /\ Troubles \subseteq AllTroubles
  /\ MaxTrouble \in Nat /\ MaxGestures \in Nat /\ MaxChanges \in Nat

VARIABLES
  active,       \* activeSwarm
  persisted,    \* the swarm id in SWARM_STATE_PATH
  settled,      \* autoReconnectSettled
  switching,    \* switching
  worker,       \* workerState
  handle,       \* handle: the worker that is tracked, 0 if none
  workers,      \* every worker spawned: what became of it, and its swarm
  agent,        \* requestAgentState
  agentHandle,  \* requestAgentHandle, by its generation; 0 if none
  generation,   \* requestAgentGeneration
  agents,       \* every Request Agent launched, by its generation
  restart,      \* the requestAgentRestart timer: armed, and what for
  busy,         \* requestAgentActivity reports a generation
  pending,      \* modelStorage.restartPending
  revision,     \* storageRevision
  notified,     \* tryApplyModelStorageRestart() is about to be called
  storage,      \* tryApplyModelStorageRestart() under way
  connect,      \* connectSwarm() that switches
  again,        \* connectSwarm() of the swarm already joined
  leave,        \* disconnect()
  close,        \* onStop()
  revive,       \* restartRequestAgent()
  trouble,      \* how much of MaxTrouble is used
  gestures,     \* how much of MaxGestures is used
  preview,      \* the browser preview, which starts no worker
  crossed       \* auxiliary: what a call did across another one

joinVars    == <<active, persisted, settled, switching>>
workerVars  == <<worker, handle, workers>>
agentVars   == <<agent, agentHandle, generation, agents, restart, busy>>
storageVars == <<pending, revision, notified, storage>>
callVars    == <<connect, again, leave, close>>
aside       == <<preview, crossed>>

vars == <<joinVars, workerVars, agentVars, storageVars, callVars, revive, trouble, gestures, aside>>

------------------------------------------------------------------------------

(* A gesture spawns at most one worker and takes at most two generations; a   *)
(* change of the storage spawns one worker, a failure takes one generation.   *)
Workers     == 1..(MaxGestures + MaxChanges)
Generations == 1..(2 * MaxGestures + MaxTrouble)
Joinable    == Swarms \cup {NoSwarm}

(* A worker that was killed from outside, or by the spawn of another one, is  *)
(* "killed" until its close is handled, and "crashed" until it is restarted.  *)
(* Supervision ends with stop(): from "stopping" on, nothing restarts it.     *)
WorkerLife == {"none", "running", "killed", "crashed", "stopping", "gone"}
Supervised(w) == workers[w].life \in {"running", "killed", "crashed"}
Alive(w) == workers[w].life \in {"running", "killed", "stopping"}

(* A Request Agent that published an invalid readiness is "failing": it is    *)
(* being killed and its error is already reported.                            *)
AgentLife == {"none", "starting", "ready", "failing", "stopping", "closed"}
AgentRuns(g) == agents[g].life \in {"starting", "ready", "failing"}

Idle == [at |-> "idle", swarm |-> NoSwarm, wait |-> 0]
IdleStorage == [at |-> "idle", swarm |-> NoSwarm, previous |-> 0, wait |-> 0, revision |-> 0]

(* The calls a user, or the closing of the IDE, makes. *)
UserCalls == {connect, again, leave, close}
OwnCalls  == {revive, storage}

(* Without Overlap the user waits for a switch, a reconnection included, and  *)
(* for his own calls, which the panel shows; the restarts of the Request      *)
(* Agent and of the worker show nothing, and he acts while they are under     *)
(* way.  He may change the model storage and close the IDE at any time.       *)
MayAct ==
  /\ close.at = "idle"
  /\ Overlap \/ \A c \in UserCalls : c.at = "idle"

NextWorker == Cardinality({w \in Workers : workers[w].life # "none"}) + 1

(* Auxiliary: the workers that a restart of the storage spawned or displaced  *)
(* while the swarm was joined or left, the Request Agents that connectSwarm() *)
(* of the joined swarm displaced, the error of a restart that was out of      *)
(* date, and whether SWARM_STATE_PATH missed the last change.                 *)
NotCrossed == [workers |-> {}, agents |-> {}, error |-> FALSE, file |-> FALSE]

Gesture == gestures < MaxGestures /\ gestures' = gestures + 1

Trouble(kind) == kind \in Troubles /\ trouble < MaxTrouble /\ trouble' = trouble + 1

AgentClosed(g) == g # 0 => agents[g].life = "closed"
WorkerClosed(w) == w # 0 => workers[w].life = "gone"

(* Once onStop() has returned the process is about to be killed. *)
Living == close.at # "done"

(* A call whose awaited stop() is over resumes before any event is handled. *)
Due ==
  \/ \E c \in {connect, leave, close} :
       \/ c.at = "agent" /\ AgentClosed(c.wait)
       \/ c.at = "worker" /\ WorkerClosed(c.wait)
  \/ storage.at = "stop" /\ WorkerClosed(storage.wait)

Quiet == Living /\ ~Due

(* What runs after spawning worker w: killOrphanedWorkers() spares no other.  *)
Spawned(w, s) ==
  [v \in Workers |->
     IF v = w THEN [life |-> "running", swarm |-> s]
     ELSE IF workers[v].life = "running" THEN [workers[v] EXCEPT !.life = "killed"]
     ELSE workers[v]]

(* spawnWorker(): tracked, and reported running at once. *)
SpawnWorker(s) ==
  /\ handle' = NextWorker
  /\ workers' = Spawned(NextWorker, s)
  /\ worker' = [kind |-> "running", swarm |-> s]

(* Fault: stop() without clearing the restart timer of a crashed worker. *)
StopWorkerKeepsTimer(w) ==
  workers' = IF w = 0 \/ workers[w].life = "crashed" THEN workers
             ELSE [workers EXCEPT ![w].life =
                     IF @ \in {"running", "killed"} THEN "stopping" ELSE @]

(* WorkerHandle.stop(): a worker that has crashed is gone at once, and a      *)
(* second stop() neither does anything nor waits for the first.               *)
StopWorker(w) ==
  workers' = IF w = 0 THEN workers
             ELSE [workers EXCEPT ![w].life =
                     IF @ \in {"running", "killed"} THEN "stopping"
                     ELSE IF @ = "crashed" THEN "gone" ELSE @]

(* Whom the caller of stop() waits for, 0 when stop() resolves at once. *)
WaitFor(w) == IF w # 0 /\ workers[w].life \in {"running", "killed"} THEN w ELSE 0

(* launchRequestAgent() *)
LaunchAgent(s) ==
  /\ generation' = generation + 1
  /\ agentHandle' = generation + 1
  /\ agents' = [agents EXCEPT ![generation + 1] = [life |-> "starting", swarm |-> s]]
  /\ agent' = "starting"
  /\ restart' = Idle
  /\ UNCHANGED busy

(* Fault: the restart timer is not cleared. *)
StopAgentKeepsTimer ==
  /\ generation' = generation + 1
  /\ agentHandle' = 0
  /\ agents' = [g \in Generations |->
                  IF g = agentHandle /\ AgentRuns(g)
                  THEN [agents[g] EXCEPT !.life = "stopping"] ELSE agents[g]]
  /\ UNCHANGED <<agent, restart, busy>>

(* stopRequestAgent() up to its await: the generation moves on, the handle is *)
(* forgotten and told to stop.  What is awaited is its closed promise.        *)
StopAgent ==
  /\ generation' = generation + 1
  /\ restart' = Idle
  /\ agentHandle' = 0
  /\ agents' = [g \in Generations |->
                  IF g = agentHandle /\ AgentRuns(g)
                  THEN [agents[g] EXCEPT !.life = "stopping"] ELSE agents[g]]
  /\ UNCHANGED <<agent, busy>>

(* stopRequestAgent() after its await. *)
AgentStopped ==
  /\ agent' = "stopped" /\ busy' = FALSE
  /\ UNCHANGED <<agentHandle, generation, agents, restart>>

(* tryApplyModelStorageRestart() up to its first await, as the last thing an  *)
(* action does: p is restartPending, st the restart under way before it.  The *)
(* swarm without worker, which has nothing to restart, is forgotten.          *)
TryStorage(p, st) ==
  LET tries == p /\ st.at = "idle" /\ ~switching' /\ ~busy'
      none  == active' = NoSwarm \/ handle' = 0
  IN /\ pending' = (p /\ ~(tries /\ none))
     /\ storage' = IF tries /\ ~none
                   THEN [at |-> "prepare", swarm |-> active', previous |-> handle', wait |-> 0,
                         revision |-> revision]
                   ELSE st
     /\ UNCHANGED revision

Init ==
  /\ active = NoSwarm /\ persisted \in Joinable
  /\ settled = FALSE /\ switching = FALSE
  /\ worker = [kind |-> "stopped", swarm |-> NoSwarm]
  /\ handle = 0
  /\ workers = [w \in Workers |-> [life |-> "none", swarm |-> NoSwarm]]
  /\ agent = "stopped" /\ agentHandle = 0 /\ generation = 0
  /\ agents = [g \in Generations |-> [life |-> "none", swarm |-> NoSwarm]]
  /\ restart = Idle /\ busy = FALSE
  /\ pending = FALSE /\ revision = 0 /\ notified = FALSE /\ storage = IdleStorage
  /\ connect = Idle /\ again = Idle /\ leave = Idle /\ close = Idle /\ revive = Idle
  /\ trouble = 0 /\ gestures = 0
  /\ preview \in BOOLEAN /\ crossed = NotCrossed

------------------------------------------------------------------------------
(* connectSwarm() *)

(* persistSwarmId() and clearPersistedSwarmId() are best effort: when they    *)
(* fail nobody is told.                                                       *)
Persisted(s) == persisted' = s /\ crossed' = [crossed EXCEPT !.file = FALSE]

Persist(s) ==
  \/ Persisted(s) /\ UNCHANGED trouble
  \/ /\ Trouble("file")
     /\ crossed' = [crossed EXCEPT !.file = TRUE]
     /\ UNCHANGED persisted

(* s is joined, with a worker that is up. *)
Joined(s) == active = s /\ worker.kind \in {"running", "starting"}

(* Fault: the swarm is not persisted. *)
SwitchForgets(s) ==
  /\ ~switching /\ ~Joined(s)
  /\ settled' = TRUE /\ switching' = TRUE
  /\ StopAgent
  /\ connect' = [at |-> "agent", swarm |-> s, wait |-> agentHandle]
  /\ UNCHANGED <<active, persisted, workerVars, storageVars, again, leave, close, revive, trouble, aside>>

(* Another swarm, or one whose worker is not up, is switched to.              *)
Switch(s) ==
  /\ ~switching /\ ~Joined(s) /\ ~preview
  /\ Persist(s) /\ settled' = TRUE /\ switching' = TRUE
  /\ StopAgent
  /\ connect' = [at |-> "agent", swarm |-> s, wait |-> agentHandle]
  /\ UNCHANGED <<active, workerVars, storageVars, again, leave, close, revive, preview>>

(* The runtime is not installed. *)
Missing(s) ==
  /\ ~switching /\ ~Joined(s) /\ ~preview /\ Trouble("missing")
  /\ Persisted(s) /\ settled' = TRUE
  /\ active' = s
  /\ worker' = [kind |-> "missing-binary", swarm |-> s]
  /\ UNCHANGED <<switching, handle, workers, agentVars, storageVars, callVars, revive, preview>>

(* The browser preview joins without a worker, and persists nothing. *)
Preview(s) ==
  /\ ~switching /\ ~Joined(s) /\ preview
  /\ active' = s
  /\ worker' = [kind |-> "error", swarm |-> s]
  /\ UNCHANGED <<persisted, switching, handle, workers, agentVars, storageVars, callVars, revive,
                 trouble, aside>>

(* The registry does not list it any more. *)
Unlisted(s) ==
  /\ ~switching /\ ~Joined(s) /\ Trouble("unlisted")
  /\ worker' = [kind |-> "error", swarm |-> NoSwarm]
  /\ UNCHANGED <<joinVars, handle, workers, agentVars, storageVars, callVars, revive, aside>>

Connect(s) ==
  /\ Quiet /\ MayAct /\ Gesture
  /\ Switch(s) \/ Missing(s) \/ Unlisted(s) \/ (Preview(s) /\ UNCHANGED settled)

(* tryAutoReconnect(), when the registry feed pushes a list with the swarm    *)
(* that was persisted.                                                        *)
AutoReconnect ==
  /\ Quiet /\ ~settled /\ ~switching /\ active = NoSwarm /\ worker.kind = "stopped" /\ close.at = "idle"
  /\ \/ /\ persisted = NoSwarm
        /\ settled' = TRUE
        /\ UNCHANGED <<active, persisted, switching, workerVars, agentVars, storageVars, callVars,
                       revive, trouble, gestures, aside>>
     \/ /\ persisted # NoSwarm /\ Gesture
        /\ Switch(persisted) \/ Missing(persisted) \/ (Preview(persisted) /\ settled' = TRUE)

(* The Request Agent has closed; the worker that is tracked is stopped. *)
ConnectAgentStopped ==
  /\ Living /\ connect.at = "agent" /\ AgentClosed(connect.wait)
  /\ AgentStopped
  /\ connect' = [connect EXCEPT !.at = "worker", !.wait = WaitFor(handle)]
  /\ StopWorker(handle)
  /\ UNCHANGED <<aside, joinVars, worker, handle, storageVars, again, leave, close, revive, trouble, gestures>>

(* The worker has closed: the handle is forgotten, whatever it is now. *)
ConnectWorkerStopped ==
  /\ Living /\ connect.at = "worker" /\ WorkerClosed(connect.wait)
  /\ handle' = 0
  /\ active' = connect.swarm
  /\ worker' = [kind |-> "starting", swarm |-> connect.swarm]
  /\ connect' = [connect EXCEPT !.at = "prepare", !.wait = 0]
  /\ UNCHANGED <<aside, persisted, settled, switching, workers, agentVars, storageVars, again, leave,
                 close, revive, trouble, gestures>>

(* The scheduler's peer and the bootstrap are there: both processes start. *)
ConnectPrepared ==
  /\ Quiet /\ connect.at = "prepare"
  /\ SpawnWorker(connect.swarm)
  /\ LaunchAgent(connect.swarm)
  /\ switching' = FALSE
  /\ connect' = Idle
  /\ UNCHANGED <<aside, active, persisted, settled, notified, again, leave, close, revive, trouble, gestures>>
  /\ TryStorage(pending, storage)

(* Fault: `switching` is not given back. *)
ConnectFailedForgets ==
  /\ Quiet /\ connect.at = "prepare" /\ Trouble("prepare")
  /\ worker' = [kind |-> "error", swarm |-> connect.swarm]
  /\ connect' = Idle
  /\ UNCHANGED <<aside, joinVars, handle, workers, agentVars, storageVars, again, leave, close, revive,
                 gestures>>

(* There is no peer, no profile or no bootstrap. *)
ConnectFailed ==
  /\ Quiet /\ connect.at = "prepare" /\ Trouble("prepare")
  /\ worker' = [kind |-> "error", swarm |-> connect.swarm]
  /\ switching' = FALSE
  /\ connect' = Idle
  /\ UNCHANGED <<aside, active, persisted, settled, handle, workers, agentVars, notified, again, leave,
                 close, revive, gestures>>
  /\ TryStorage(pending, storage)

(* The swarm is joined already: only a Request Agent that is missing, with no *)
(* restart armed, is launched.                                                *)
ConnectAgain ==
  /\ Quiet /\ MayAct /\ Gesture /\ ~switching /\ again.at = "idle"
  /\ active # NoSwarm /\ Joined(active)
  /\ settled' = TRUE
  /\ IF agentHandle # 0 \/ restart.at = "armed" THEN Persist(active) /\ UNCHANGED <<again, agent>>
     ELSE \/ /\ Persist(active)
             /\ again' = [at |-> "prepare", swarm |-> active, wait |-> 0]
             /\ UNCHANGED agent
          \/ /\ Persisted(active) /\ Trouble("missing")
             /\ agent' = "error"
             /\ UNCHANGED again
  /\ UNCHANGED <<active, switching, workerVars, agentHandle, generation, agents, restart, busy,
                 storageVars, connect, leave, close, revive, preview>>

(* Nothing is compared again after the await: activeSwarm is read anew, and a *)
(* Request Agent that a restart launched meanwhile is displaced.              *)
AgainPrepared ==
  /\ Quiet /\ again.at = "prepare" /\ active # NoSwarm
  /\ LaunchAgent(active)
  /\ again' = Idle
  /\ crossed' = [crossed EXCEPT !.agents = @ \cup ({agentHandle} \ {0})]
  /\ UNCHANGED <<joinVars, workerVars, storageVars, connect, leave, close, revive, trouble, gestures,
                 preview>>

(* There is no bootstrap, or no activeSwarm to launch it for. *)
AgainFailed ==
  /\ Quiet /\ again.at = "prepare"
  /\ \/ active = NoSwarm /\ UNCHANGED trouble
     \/ active # NoSwarm /\ Trouble("prepare")
  /\ agent' = "error"
  /\ again' = Idle
  /\ UNCHANGED <<aside, joinVars, workerVars, agentHandle, generation, agents, restart, busy, storageVars,
                 connect, leave, close, revive, gestures>>

------------------------------------------------------------------------------
(* disconnect() and onStop() *)

Disconnect ==
  /\ Quiet /\ MayAct /\ Gesture /\ leave.at = "idle"
  /\ settled' = TRUE /\ Persist(NoSwarm) /\ pending' = FALSE
  /\ StopAgent
  /\ leave' = [at |-> "agent", swarm |-> NoSwarm, wait |-> agentHandle]
  /\ UNCHANGED <<active, switching, workerVars, revision, notified, storage, connect, again, close,
                 revive, preview>>

LeaveAgentStopped ==
  /\ Living /\ leave.at = "agent" /\ AgentClosed(leave.wait)
  /\ AgentStopped
  /\ leave' = [leave EXCEPT !.at = "worker", !.wait = WaitFor(handle)]
  /\ StopWorker(handle)
  /\ UNCHANGED <<aside, joinVars, worker, handle, notified, connect, again, close, revive, trouble, gestures>>
  /\ TryStorage(pending, storage)

LeaveWorkerStopped ==
  /\ Living /\ leave.at = "worker" /\ WorkerClosed(leave.wait)
  /\ handle' = 0
  /\ active' = NoSwarm
  /\ worker' = [kind |-> "stopped", swarm |-> NoSwarm]
  /\ leave' = Idle
  /\ UNCHANGED <<aside, persisted, settled, switching, workers, agentVars, storageVars, connect, again,
                 close, revive, trouble, gestures>>

(* The IDE closes: Theia waits for onStop() and then kills the process tree. *)
Close ==
  /\ Quiet /\ close.at = "idle" /\ Gesture
  /\ pending' = FALSE
  /\ StopAgent
  /\ close' = [at |-> "agent", swarm |-> NoSwarm, wait |-> agentHandle]
  /\ UNCHANGED <<aside, joinVars, workerVars, revision, notified, storage, connect, again, leave, revive,
                 trouble>>

CloseAgentStopped ==
  /\ Living /\ close.at = "agent" /\ AgentClosed(close.wait)
  /\ AgentStopped
  /\ close' = [close EXCEPT !.at = "worker", !.wait = WaitFor(handle)]
  /\ StopWorker(handle)
  /\ UNCHANGED <<aside, joinVars, worker, handle, notified, connect, again, leave, revive, trouble, gestures>>
  /\ TryStorage(pending, storage)

CloseWorkerStopped ==
  /\ Living /\ close.at = "worker" /\ WorkerClosed(close.wait)
  /\ handle' = 0
  /\ close' = [close EXCEPT !.at = "done", !.wait = 0]
  /\ UNCHANGED <<aside, joinVars, worker, workers, agentVars, storageVars, connect, again, leave, revive,
                 trouble, gestures>>

------------------------------------------------------------------------------
(* The Request Agent *)

(* Fault: the callbacks speak for any generation. *)
AnyGeneration(g) == g \in Generations

(* The callbacks of launchRequestAgent() speak for their own generation. *)
Current(g) == g = generation

(* Its readiness file is valid: it is the current one's word that counts. *)
AgentReady(g) ==
  /\ Quiet /\ agents[g].life = "starting"
  /\ agents' = [agents EXCEPT ![g].life = "ready"]
  /\ agent' = IF Current(g) THEN "ready" ELSE agent
  /\ UNCHANGED <<aside, joinVars, workerVars, agentHandle, generation, restart, busy, storageVars, callVars,
                 revive, trouble, gestures>>

(* Its readiness file is not: the error is reported and the process killed. *)
AgentInvalid(g) ==
  /\ Quiet /\ agents[g].life = "starting" /\ Trouble("readiness")
  /\ agents' = [agents EXCEPT ![g].life = "failing"]
  /\ IF Current(g) THEN agent' = "error" /\ busy' = FALSE ELSE UNCHANGED <<agent, busy>>
  /\ UNCHANGED <<aside, joinVars, workerVars, agentHandle, generation, restart, notified, callVars, revive, gestures>>
  /\ IF Current(g) THEN TryStorage(pending, storage) ELSE UNCHANGED <<pending, revision, storage>>

(* The process closes, unasked: its error is reported if it was not, the      *)
(* handle is forgotten, and the restart of the current one is scheduled.      *)
AgentDies(g) ==
  /\ Quiet
  /\ \/ agents[g].life \in {"starting", "ready"} /\ Trouble("agent")
     \/ agents[g].life = "failing" /\ UNCHANGED trouble
  /\ agents' = [agents EXCEPT ![g].life = "closed"]
  /\ IF Current(g) /\ agents[g].life # "failing"
     THEN agent' = "error" /\ busy' = FALSE ELSE UNCHANGED <<agent, busy>>
  /\ agentHandle' = IF agentHandle = g THEN 0 ELSE agentHandle
  /\ restart' = IF Current(g) /\ active = agents[g].swarm /\ agent' = "error" /\ restart.at = "idle"
                THEN [at |-> "armed", swarm |-> active, wait |-> g] ELSE restart
  /\ UNCHANGED <<aside, joinVars, workerVars, generation, notified, callVars, revive, gestures>>
  /\ IF Current(g) /\ agents[g].life # "failing" THEN TryStorage(pending, storage)
     ELSE UNCHANGED <<pending, revision, storage>>

(* The process closes after stop(); "stopped" is what it would report. *)
AgentCloses(g) ==
  /\ Quiet /\ agents[g].life = "stopping"
  /\ agents' = [agents EXCEPT ![g].life = "closed"]
  /\ agent' = IF Current(g) THEN "stopped" ELSE agent
  /\ agentHandle' = IF agentHandle = g THEN 0 ELSE agentHandle
  /\ UNCHANGED <<aside, joinVars, workerVars, generation, restart, busy, storageVars, callVars, revive,
                 trouble, gestures>>

(* The restart timer fires, for a generation and a swarm that are compared.   *)
(* Without a Request Agent in the runtime there will be no other restart.     *)
Revive ==
  /\ Quiet /\ restart.at = "armed" /\ revive.at = "idle"
  /\ restart' = Idle
  /\ \/ /\ Current(restart.wait) /\ active = restart.swarm
        /\ \/ revive' = [restart EXCEPT !.at = "prepare"] /\ UNCHANGED <<agent, trouble>>
           \/ Trouble("missing") /\ agent' = "error" /\ UNCHANGED revive
     \/ /\ ~(Current(restart.wait) /\ active = restart.swarm)
        /\ UNCHANGED <<revive, agent, trouble>>
  /\ UNCHANGED <<aside, joinVars, workerVars, agentHandle, generation, agents, busy, storageVars,
                 callVars, gestures>>

(* Fault: after the await only the swarm is compared. *)
RevivePreparedAnyway ==
  /\ Quiet /\ revive.at = "prepare"
  /\ revive' = Idle
  /\ IF active = revive.swarm THEN LaunchAgent(revive.swarm) ELSE UNCHANGED agentVars
  /\ UNCHANGED <<aside, joinVars, workerVars, storageVars, callVars, trouble, gestures>>

(* After the await the generation and the swarm are compared again. *)
RevivePrepared ==
  /\ Quiet /\ revive.at = "prepare"
  /\ revive' = Idle
  /\ IF Current(revive.wait) /\ active = revive.swarm
     THEN LaunchAgent(revive.swarm) ELSE UNCHANGED agentVars
  /\ UNCHANGED <<aside, joinVars, workerVars, storageVars, callVars, trouble, gestures>>

(* The error is reported without comparing them. *)
ReviveFailed ==
  /\ Quiet /\ revive.at = "prepare" /\ Trouble("prepare")
  /\ revive' = Idle
  /\ agent' = "error"
  /\ restart' = IF Current(revive.wait) /\ restart.at = "idle"
                THEN [revive EXCEPT !.at = "armed"] ELSE restart
  /\ crossed' = [crossed EXCEPT !.error = @ \/ ~Current(revive.wait)]
  /\ UNCHANGED <<preview, joinVars, workerVars, agentHandle, generation, agents, busy, storageVars, callVars, gestures>>

(* Fault: the end of a generation does not try the restart it put off. *)
GeneratedForgets(g) ==
  /\ Quiet /\ agents[g].life = "ready" /\ Current(g) /\ busy
  /\ busy' = FALSE
  /\ UNCHANGED <<aside, joinVars, workerVars, agent, agentHandle, generation, agents, restart, storageVars,
                 callVars, revive, trouble, gestures>>

(* The event feed of the current Request Agent reports a generation, or its end. *)
Generates(g) ==
  /\ Quiet /\ agents[g].life = "ready" /\ Current(g) /\ ~busy
  /\ busy' = TRUE
  /\ UNCHANGED <<aside, joinVars, workerVars, agent, agentHandle, generation, agents, restart, storageVars,
                 callVars, revive, trouble, gestures>>

Generated(g) ==
  /\ Quiet /\ agents[g].life = "ready" /\ Current(g) /\ busy
  /\ busy' = FALSE
  /\ UNCHANGED <<aside, joinVars, workerVars, agent, agentHandle, generation, agents, restart, notified,
                 callVars, revive, trouble, gestures>>
  /\ TryStorage(pending, storage)

------------------------------------------------------------------------------
(* The worker: its reports are those of any worker, tracked or not. *)

WorkerReports(w, kind) == worker' = [kind |-> kind, swarm |-> workers[w].swarm]

(* It dies, or its close after it was killed is handled. *)
WorkerDies(w) ==
  /\ Quiet
  /\ \/ workers[w].life = "running" /\ Trouble("worker")
     \/ workers[w].life = "killed" /\ UNCHANGED trouble
  /\ workers' = [workers EXCEPT ![w].life = "crashed"]
  /\ WorkerReports(w, "error")
  /\ UNCHANGED <<aside, joinVars, handle, agentVars, storageVars, callVars, revive, gestures>>

(* The restart delay is over. *)
WorkerRestarts(w) ==
  /\ Quiet /\ workers[w].life = "crashed"
  /\ workers' = Spawned(w, workers[w].swarm)
  /\ WorkerReports(w, "running")
  /\ UNCHANGED <<aside, joinVars, handle, agentVars, storageVars, callVars, revive, trouble, gestures>>

(* It has left the swarm, or was killed for taking too long. *)
WorkerCloses(w) ==
  /\ Quiet /\ workers[w].life = "stopping"
  /\ workers' = [workers EXCEPT ![w].life = "gone"]
  /\ WorkerReports(w, "stopped")
  /\ UNCHANGED <<aside, joinVars, handle, agentVars, storageVars, callVars, revive, trouble, gestures>>

------------------------------------------------------------------------------
(* The restart of the worker that a change of the model storage asks for *)

ChangeStorage ==
  /\ Quiet /\ close.at = "idle" /\ revision < MaxChanges
  /\ revision' = revision + 1
  /\ pending' = (handle # 0 /\ active # NoSwarm)
  /\ notified' = (notified \/ pending')
  /\ UNCHANGED <<aside, joinVars, workerVars, agentVars, storage, callVars, revive, trouble, gestures>>

(* The new settings are published, and the restart is tried. *)
ApplyStorage ==
  /\ Quiet /\ notified /\ notified' = FALSE
  /\ UNCHANGED <<aside, joinVars, workerVars, agentVars, callVars, revive, trouble, gestures>>
  /\ TryStorage(pending, storage)

(* The finally block: a change that came meanwhile is applied next. *)
StorageEnds ==
  /\ storage' = IdleStorage
  /\ pending' = (pending /\ storage.revision # revision)
  /\ notified' = TRUE
  /\ UNCHANGED revision

(* The bootstrap is there.  The swarm and the handle are compared, the        *)
(* generation that may have begun meanwhile is not.                           *)
StoragePrepared ==
  /\ Quiet /\ storage.at = "prepare"
  /\ IF active = storage.swarm /\ handle = storage.previous
     THEN /\ StopWorker(handle)
          /\ storage' = [storage EXCEPT !.at = "stop", !.wait = WaitFor(handle)]
          /\ UNCHANGED <<pending, revision, notified>>
     ELSE StorageEnds /\ UNCHANGED workers
  /\ UNCHANGED <<aside, joinVars, worker, handle, agentVars, callVars, revive, trouble, gestures>>

StorageFailed ==
  /\ Quiet /\ storage.at = "prepare" /\ Trouble("prepare")
  /\ worker' = [kind |-> "error", swarm |-> storage.swarm]
  /\ StorageEnds
  /\ UNCHANGED <<aside, joinVars, handle, workers, agentVars, callVars, revive, gestures>>

(* Auxiliary: the worker that takes its place, while the swarm is joined or   *)
(* left, and the one that was spawned meanwhile.                              *)
Crossing ==
  {w \in {handle, NextWorker} \ {0} :
     IF w = handle THEN handle # storage.previous ELSE ~\A c \in UserCalls : c.at = "idle"}

(* The previous worker has stopped, and another takes its place if the swarm  *)
(* is still joined.                                                           *)
StorageStopped ==
  /\ Living /\ storage.at = "stop" /\ WorkerClosed(storage.wait)
  /\ StorageEnds
  /\ \/ /\ active # storage.swarm
        /\ handle' = IF handle = storage.previous THEN 0 ELSE handle
        /\ UNCHANGED <<worker, workers, crossed>>
     \/ /\ active = storage.swarm
        /\ SpawnWorker(active)
        /\ crossed' = [crossed EXCEPT !.workers = @ \cup Crossing]
  /\ UNCHANGED <<preview, joinVars, agentVars, callVars, revive, trouble, gestures>>

------------------------------------------------------------------------------

Resume ==
  \/ ConnectAgentStopped \/ ConnectWorkerStopped \/ LeaveAgentStopped \/ LeaveWorkerStopped
  \/ CloseAgentStopped \/ CloseWorkerStopped \/ StorageStopped

User ==
  \/ \E s \in Swarms : Connect(s)
  \/ AutoReconnect \/ ConnectAgain \/ Disconnect \/ Close \/ ChangeStorage

(* The end of a preparation, a timer, a report of a process. *)
Prepared == ConnectPrepared \/ AgainPrepared \/ RevivePrepared \/ StoragePrepared \/ ApplyStorage

Failed == ConnectFailed \/ AgainFailed \/ ReviveFailed \/ StorageFailed

Agent(g) == AgentReady(g) \/ AgentCloses(g) \/ Generated(g)

AgentFault(g) == AgentInvalid(g) \/ AgentDies(g) \/ Generates(g)

Event ==
  \/ User \/ Prepared \/ Failed \/ Revive
  \/ \E g \in Generations : Agent(g) \/ AgentFault(g)
  \/ \E w \in Workers : WorkerDies(w) \/ WorkerRestarts(w) \/ WorkerCloses(w)

Next == Resume \/ Event

Spec == Init /\ [][Next]_vars

(* Preparations end, timers fire, processes start and stop, and a generation   *)
(* ends.  The user owes nothing, and nothing has to fail.                      *)
Fairness ==
  /\ WF_vars(Resume) /\ WF_vars(Revive)
  /\ WF_vars(ConnectPrepared) /\ WF_vars(AgainPrepared) /\ WF_vars(RevivePrepared)
  /\ WF_vars(StoragePrepared) /\ WF_vars(ApplyStorage)
  /\ \A g \in Generations :
       WF_vars(Agent(g)) /\ WF_vars(agents[g].life = "failing" /\ AgentDies(g))
  /\ \A w \in Workers : WF_vars(WorkerRestarts(w)) /\ WF_vars(WorkerCloses(w))

FairSpec == Spec /\ Fairness

------------------------------------------------------------------------------
(* Properties *)

CallType == [at : {"idle", "armed", "agent", "worker", "prepare", "done"},
             swarm : Joinable, wait : Nat]

JoinTypes ==
  /\ active \in Joinable /\ persisted \in Joinable
  /\ settled \in BOOLEAN /\ switching \in BOOLEAN

WorkerTypes ==
  /\ worker \in [kind : {"stopped", "starting", "running", "error", "missing-binary"},
                 swarm : Joinable]
  /\ handle \in Workers \cup {0}
  /\ workers \in [Workers -> [life : WorkerLife, swarm : Joinable]]
  /\ \A w \in Workers : workers[w].life # "none" => workers[w].swarm \in Swarms

AgentTypes ==
  /\ agent \in {"stopped", "starting", "ready", "error"}
  /\ agentHandle \in Generations \cup {0} /\ generation \in Generations \cup {0}
  /\ agents \in [Generations -> [life : AgentLife, swarm : Joinable]]
  /\ restart \in CallType /\ busy \in BOOLEAN

CallTypes ==
  /\ UserCalls \subseteq CallType /\ revive \in CallType
  /\ storage \in [at : {"idle", "prepare", "stop"}, swarm : Joinable,
                 previous : Nat, wait : Nat, revision : Nat]
  /\ pending \in BOOLEAN /\ notified \in BOOLEAN /\ revision \in Nat
  /\ trouble \in Nat /\ gestures \in Nat /\ preview \in BOOLEAN
  /\ crossed \in [workers : SUBSET Workers, agents : SUBSET Generations, error : BOOLEAN, file : BOOLEAN]

(* The variables hold what the code puts there: only a swarm gets a worker.   *)
TypeOK == JoinTypes /\ WorkerTypes /\ AgentTypes /\ CallTypes

(* What the frontend is told of the Request Agent is said by the one that is  *)
(* current: its "ready", and the base URL that goes with it, outlive neither  *)
(* its death nor its replacement (launchRequestAgent, the test of generation).*)
(* Only while a stop is awaited is it still shown.                            *)
ReadyIsCurrent ==
  agent = "ready" =>
    \/ agentHandle = generation /\ agents[generation].life = "ready"
    \/ \E c \in {connect, leave, close} : c.at = "agent"

(* Until the IDE closes, no worker that something would restart escapes the   *)
(* handle: two supervised workers kill each other at every restart (spawn     *)
(* kills what it takes for orphans).  The exception is exactly the restart    *)
(* for the model storage, which compares only the swarm after it has stopped  *)
(* the worker: crossing a join or a leave, one of the two workers escapes.    *)
OneWorker ==
  close.at = "idle" => \A w \in Workers : Supervised(w) => w = handle \/ w \in crossed.workers

(* One Request Agent at most is left running, whoever launched it, but for    *)
(* those that connectSwarm() of the joined swarm displaced: it compares       *)
(* nothing after its await, and a restart may have launched one.              *)
OneAgent ==
  \A g, h \in Generations \ crossed.agents : AgentRuns(g) /\ AgentRuns(h) => g = h

(* One worker and one Request Agent, whatever fails and restarts.             *)
OneOfEach == OneWorker /\ OneAgent

(* No call of the service is under way. *)
AtRest == \A c \in UserCalls \cup OwnCalls : c.at = "idle"

(* When no swarm is joined there is nothing left of the last one: no process  *)
(* alive or about to be restarted, no handle, no error shown (disconnect).    *)
(* What escaped its handle is still there, and so is the error of a restart   *)
(* that was prepared for an earlier generation.                               *)
NothingLeft ==
  AtRest /\ active = NoSwarm =>
    /\ handle = 0 /\ agentHandle = 0 /\ restart.at = "idle"
    /\ agent = "stopped" \/ crossed.error
    /\ \A w \in Workers \ crossed.workers : ~Alive(w) /\ ~Supervised(w)
    /\ \A g \in Generations \ crossed.agents : ~AgentRuns(g)

(* The swarm that the next start of the IDE joins is the one that is joined,  *)
(* unless the file could not be written; the browser preview writes none.     *)
PersistedIsJoined ==
  AtRest /\ active # NoSwarm /\ ~preview /\ ~crossed.file => persisted = active

(* And none once the swarm was left.                                          *)
ForgottenIsLeft ==
  AtRest /\ active = NoSwarm /\ settled /\ ~crossed.file => persisted = NoSwarm

(* At rest, what is joined is all there is: of processes and of what the next *)
(* start finds.                                                               *)
RestIsTrue == NothingLeft /\ PersistedIsJoined /\ ForgottenIsLeft

(* The membership is what the service holds, and what is left of it at rest.  *)
MembershipIsTrue == TypeOK /\ RestIsTrue

(* connectSwarm() always gives `switching` back: a swarm can be joined again. *)
SwitchEnds == switching ~> (~switching \/ ~Living)

(* A change of the model storage does not stay pending: a restart that was    *)
(* put off, by a generation or a switch, is tried again at their end          *)
(* (tryApplyModelStorageRestart and its callers).                             *)
StorageApplied == pending ~> (~pending \/ ~Living)

==============================================================================
