------------------------- MODULE SwarmServiceProofs -------------------------
(***************************************************************************)
(* The Request Agent that the frontend is told is ready is the current     *)
(* one, for any swarms, any failures and any overlap of gestures.  And for *)
(* a user who waits for his own calls, one worker and one Request Agent    *)
(* are left but for those that a restart crossed, and at rest nothing is   *)
(* left of a swarm that was left.                                          *)
(***************************************************************************)
EXTENDS SwarmService, FiniteSetTheorems, TLAPS

(* No generation was used that is yet to come, and a process of the current   *)
(* one is the one that is tracked: what a callback says of its generation is  *)
(* then said of the handle.                                                   *)
AgentsKnown ==
  /\ generation \in Nat
  /\ DOMAIN agents = Generations
  /\ \A g \in Generations : agents[g] = [life |-> agents[g].life, swarm |-> agents[g].swarm]
  /\ \A g \in Generations : g > generation => agents[g].life = "none"
  /\ \A g \in Generations : g = generation /\ AgentRuns(g) => agentHandle = g

(* The current one is not shown ready while it is being killed. *)
FailingIsShown ==
  \A g \in Generations : g = generation /\ agents[g].life = "failing" => agent # "ready"

(* The inductive invariant. *)
IInv == AgentsKnown /\ FailingIsShown /\ ReadyIsCurrent

(* Some call awaits the end of the Request Agent. *)
StopAwaited == \E c \in {connect, leave, close} : c.at = "agent"

LEMMA GenerationsAreNat == Generations \subseteq Nat /\ 0 \notin Generations
  BY ServiceAssumption DEF Generations

LEMMA InitIInv == Init => IInv
  BY GenerationsAreNat DEF Init, IInv, AgentsKnown, FailingIsShown, ReadyIsCurrent, AgentRuns

(* What an action that leaves the Request Agent alone has to see to: that it  *)
(* does not end the await of a stop.                                          *)
LEMMA Untouched ==
  ASSUME IInv, UNCHANGED <<agent, agentHandle, generation, agents>>, StopAwaited => StopAwaited'
  PROVE  IInv'
  BY DEF IInv, AgentsKnown, FailingIsShown, ReadyIsCurrent, AgentRuns, StopAwaited

(* An action that only says that it is not ready. *)
LEMMA Reported ==
  ASSUME IInv, UNCHANGED <<agentHandle, generation, agents>>, agent' # "ready"
  PROVE  IInv'
  BY DEF IInv, AgentsKnown, FailingIsShown, ReadyIsCurrent, AgentRuns

(* launchRequestAgent() *)
LEMMA Launched ==
  ASSUME IInv, NEW s, LaunchAgent(s)
  PROVE  IInv'
  <1>1. agent' = "starting" /\ generation' = generation + 1 /\ agentHandle' = generation + 1
        /\ agents' = [agents EXCEPT ![generation + 1] = [life |-> "starting", swarm |-> s]]
    BY DEF LaunchAgent
  <1>2. \A g \in Generations :
          agents'[g] = IF g = generation + 1 THEN [life |-> "starting", swarm |-> s] ELSE agents[g]
    BY <1>1 DEF IInv, AgentsKnown
  <1> QED BY <1>1, <1>2, GenerationsAreNat DEF IInv, AgentsKnown, FailingIsShown, ReadyIsCurrent, AgentRuns

(* stopRequestAgent(), which somebody then awaits. *)
LEMMA Stopping ==
  ASSUME IInv, StopAgent, StopAwaited'
  PROVE  IInv'
  <1>1. generation' = generation + 1 /\ agentHandle' = 0
    BY DEF StopAgent
  <1>2. DOMAIN agents' = Generations
    BY DEF StopAgent
  <1>3. \A g \in Generations :
          /\ agents'[g] = [life |-> agents'[g].life, swarm |-> agents'[g].swarm]
          /\ agents[g].life = "none" => agents'[g].life = "none"
    BY DEF StopAgent, IInv, AgentsKnown, AgentRuns
  <1>4. ASSUME NEW g \in Generations, g >= generation + 1 PROVE agents'[g].life = "none"
    <2>1. generation \in Nat /\ g \in Nat
      BY GenerationsAreNat DEF IInv, AgentsKnown
    <2>2. g > generation
      BY <1>4, <2>1
    <2>3. agents[g].life = "none"
      BY <2>2 DEF IInv, AgentsKnown
    <2> QED BY <1>3, <2>3
  <1> QED BY <1>1, <1>2, <1>3, <1>4, GenerationsAreNat
         DEF IInv, AgentsKnown, FailingIsShown, ReadyIsCurrent, AgentRuns, StopAwaited

(* A report of the process of generation g, which goes on to another life. *)
LEMMA Lived ==
  ASSUME IInv, NEW g \in Generations, NEW l \in {"ready", "failing", "closed"},
         agents' = [agents EXCEPT ![g].life = l], UNCHANGED generation,
         AgentRuns(g) \/ agents[g].life = "stopping",
         l # "closed" => AgentRuns(g) /\ agentHandle' = agentHandle,
         l = "closed" => agentHandle' = IF agentHandle = g THEN 0 ELSE agentHandle,
         l = "ready" => agent' = IF g = generation THEN "ready" ELSE agent,
         l # "ready" => agent' = agent \/ agent' # "ready",
         l # "ready" /\ g = generation => agent' # "ready",
         StopAwaited => StopAwaited'
  PROVE  IInv'
  <1>1. DOMAIN agents' = Generations
        /\ \A h \in Generations : agents'[h] = IF h = g THEN [life |-> l, swarm |-> agents[g].swarm] ELSE agents[h]
    BY DEF IInv, AgentsKnown
  <1>2. generation \in Nat /\ g <= generation /\ g \in Nat /\ g # 0
    BY GenerationsAreNat DEF IInv, AgentsKnown, AgentRuns
  <1>3. AgentsKnown'
    BY <1>1, <1>2, GenerationsAreNat DEF IInv, AgentsKnown, AgentRuns
  <1>4. ReadyIsCurrent'
    BY <1>1, <1>2, <1>3 DEF IInv, AgentsKnown, FailingIsShown, ReadyIsCurrent, AgentRuns, StopAwaited
  <1>5. FailingIsShown'
    BY <1>1 DEF IInv, FailingIsShown
  <1> QED BY <1>3, <1>4, <1>5 DEF IInv

LEMMA StepIInv == IInv /\ [Next]_vars => IInv'
  <1> SUFFICES ASSUME IInv, [Next]_vars PROVE IInv'
    OBVIOUS
  <1> USE DEF agentVars, callVars, joinVars, workerVars, storageVars
  <1>1. ASSUME NEW s \in Joinable, Switch(s) PROVE IInv'
    <2>1. connect'.at = "agent"
      BY <1>1 DEF Switch
    <2> QED BY <1>1, <2>1, Stopping DEF Switch, StopAwaited
  <1>2. ASSUME NEW s \in Joinable, Missing(s) \/ Preview(s) \/ Unlisted(s) PROVE IInv'
    BY <1>2, Untouched DEF Missing, Preview, Unlisted, StopAwaited
  <1>3. CASE Resume
    <2>1. ASSUME AgentStopped PROVE IInv'
      BY <2>1, Reported DEF AgentStopped
    <2>2. CASE ConnectWorkerStopped
      BY <2>2, Untouched DEF ConnectWorkerStopped, StopAwaited
    <2>3. CASE LeaveWorkerStopped
      BY <2>3, Untouched DEF LeaveWorkerStopped, StopAwaited
    <2>4. CASE CloseWorkerStopped
      BY <2>4, Untouched DEF CloseWorkerStopped, StopAwaited
    <2>5. CASE StorageStopped
      BY <2>5, Untouched DEF StorageStopped, StopAwaited
    <2> QED BY <1>3, <2>1, <2>2, <2>3, <2>4, <2>5
           DEF Resume, ConnectAgentStopped, LeaveAgentStopped, CloseAgentStopped
  <1>4. CASE User
    <2>1. ASSUME NEW s \in Swarms, Connect(s) PROVE IInv'
      BY <1>1, <1>2, <2>1 DEF Connect, Joinable
    <2>2. CASE AutoReconnect
      <3>1. CASE UNCHANGED <<agentVars, callVars>>
        BY <3>1, Untouched DEF StopAwaited
      <3>2. CASE Switch(persisted) \/ Missing(persisted) \/ Preview(persisted)
        <4>1. ASSUME NEW s, Switch(s) PROVE IInv'
          <5>1. connect'.at = "agent"
            BY <4>1 DEF Switch
          <5> QED BY <4>1, <5>1, Stopping DEF Switch, StopAwaited
        <4>2. ASSUME NEW s, Missing(s) \/ Preview(s) PROVE IInv'
          BY <4>2, Untouched DEF Missing, Preview, StopAwaited
        <4> QED BY <3>2, <4>1, <4>2
      <3> QED BY <2>2, <3>1, <3>2 DEF AutoReconnect
    <2>3. CASE ConnectAgain
      <3>1. CASE agent' = agent
        BY <2>3, <3>1, Untouched DEF ConnectAgain, StopAwaited
      <3>2. CASE agent' = "error"
        BY <2>3, <3>2, Reported DEF ConnectAgain
      <3> QED BY <2>3, <3>1, <3>2 DEF ConnectAgain
    <2>4. CASE Disconnect
      <3>1. leave'.at = "agent"
        BY <2>4 DEF Disconnect
      <3> QED BY <2>4, <3>1, Stopping DEF Disconnect, StopAwaited
    <2>5. CASE Close
      <3>1. close'.at = "agent"
        BY <2>5 DEF Close
      <3> QED BY <2>5, <3>1, Stopping DEF Close, StopAwaited
    <2>6. CASE ChangeStorage
      BY <2>6, Untouched DEF ChangeStorage, StopAwaited
    <2> QED BY <1>4, <2>1, <2>2, <2>3, <2>4, <2>5, <2>6 DEF User
  <1>5. CASE Prepared
    <2>1. CASE ConnectPrepared
      BY <2>1, Launched DEF ConnectPrepared
    <2>2. CASE AgainPrepared
      BY <2>2, Launched DEF AgainPrepared
    <2>3. CASE RevivePrepared
      BY <2>3, Launched, Untouched DEF RevivePrepared, StopAwaited
    <2>4. CASE StoragePrepared
      BY <2>4, Untouched DEF StoragePrepared, StopAwaited
    <2>5. CASE ApplyStorage
      BY <2>5, Untouched DEF ApplyStorage, StopAwaited
    <2> QED BY <1>5, <2>1, <2>2, <2>3, <2>4, <2>5 DEF Prepared
  <1>6. CASE Failed
    <2>1. CASE ConnectFailed
      BY <2>1, Untouched DEF ConnectFailed, StopAwaited
    <2>2. CASE AgainFailed
      BY <2>2, Reported DEF AgainFailed
    <2>3. CASE ReviveFailed
      BY <2>3, Reported DEF ReviveFailed
    <2>4. CASE StorageFailed
      BY <2>4, Untouched DEF StorageFailed, StopAwaited
    <2> QED BY <1>6, <2>1, <2>2, <2>3, <2>4 DEF Failed
  <1>7. CASE Revive
    <2>1. CASE agent' = agent
      BY <1>7, <2>1, Untouched DEF Revive, StopAwaited
    <2>2. CASE agent' = "error"
      BY <1>7, <2>2, Reported DEF Revive
    <2> QED BY <1>7, <2>1, <2>2 DEF Revive
  <1>8. ASSUME NEW g \in Generations, Agent(g) \/ AgentFault(g) PROVE IInv'
    <2>1. CASE AgentReady(g)
      <3>1. AgentRuns(g) /\ agents' = [agents EXCEPT ![g].life = "ready"]
            /\ agent' = (IF g = generation THEN "ready" ELSE agent)
            /\ UNCHANGED <<agentHandle, generation, connect, leave, close>>
        BY <2>1 DEF AgentReady, AgentRuns, Current
      <3> QED BY <3>1, Lived DEF StopAwaited
    <2>2. CASE AgentInvalid(g)
      <3>1. AgentRuns(g) /\ agents' = [agents EXCEPT ![g].life = "failing"]
            /\ agent' = (IF g = generation THEN "error" ELSE agent)
            /\ UNCHANGED <<agentHandle, generation, connect, leave, close>>
        BY <2>2 DEF AgentInvalid, AgentRuns, Current
      <3> QED BY <3>1, Lived DEF StopAwaited
    <2>3. CASE AgentDies(g)
      <3>1. AgentRuns(g) /\ agents' = [agents EXCEPT ![g].life = "closed"]
            /\ agent' = (IF g = generation /\ agents[g].life # "failing" THEN "error" ELSE agent)
            /\ agentHandle' = (IF agentHandle = g THEN 0 ELSE agentHandle)
            /\ UNCHANGED <<generation, connect, leave, close>>
        BY <2>3 DEF AgentDies, AgentRuns, Current
      <3>2. g = generation => agent' # "ready"
        BY <3>1 DEF IInv, FailingIsShown
      <3> QED BY <3>1, <3>2, Lived DEF StopAwaited
    <2>4. CASE AgentCloses(g)
      <3>1. agents[g].life = "stopping" /\ agents' = [agents EXCEPT ![g].life = "closed"]
            /\ agent' = (IF g = generation THEN "stopped" ELSE agent)
            /\ agentHandle' = (IF agentHandle = g THEN 0 ELSE agentHandle)
            /\ UNCHANGED <<generation, connect, leave, close>>
        BY <2>4 DEF AgentCloses, Current
      <3> QED BY <3>1, Lived DEF StopAwaited
    <2>5. CASE Generates(g) \/ Generated(g)
      BY <2>5, Untouched DEF Generates, Generated, StopAwaited
    <2> QED BY <1>8, <2>1, <2>2, <2>3, <2>4, <2>5 DEF Agent, AgentFault
  <1>9. ASSUME NEW w \in Workers, WorkerDies(w) \/ WorkerRestarts(w) \/ WorkerCloses(w) PROVE IInv'
    BY <1>9, Untouched DEF WorkerDies, WorkerRestarts, WorkerCloses, StopAwaited
  <1>10. CASE UNCHANGED vars
    BY <1>10, Untouched DEF vars, StopAwaited
  <1> QED BY <1>3, <1>4, <1>5, <1>6, <1>7, <1>8, <1>9, <1>10 DEF Next, Event

(* IInv is an invariant of the specification. *)
THEOREM Inductive == Spec => []IInv
  BY InitIInv, StepIInv, PTL DEF Spec

(* However gestures, deaths and restarts overlap, the Request Agent is shown  *)
(* ready only while the current one is tracked and ready, or while its end is *)
(* awaited (the generation of launchRequestAgent).                            *)
THEOREM AgentSpeaksForItself == Spec => []ReadyIsCurrent
  <1>1. IInv => ReadyIsCurrent
    BY DEF IInv
  <1> QED BY <1>1, Inductive, PTL

------------------------------------------------------------------------------
(* What is left of a swarm, for a user who waits for his own calls            *)

StorageStages ==
  /\ storage = [at |-> storage.at, swarm |-> storage.swarm, previous |-> storage.previous,
                wait |-> storage.wait, revision |-> storage.revision]
  /\ storage.at \in {"idle", "prepare", "stop"}
  /\ storage.at # "idle" => storage.swarm \in Swarms /\ storage.previous # 0

(* The calls of a user exclude each other, the closing of the IDE apart, and  *)
(* each of them settles the reconnection.                                     *)
CallsInv ==
  /\ connect.at \in {"idle", "agent", "worker", "prepare"}
  /\ again.at \in {"idle", "prepare"} /\ leave.at \in {"idle", "agent", "worker"}
  /\ switching = (connect.at # "idle")
  /\ connect.at # "idle" =>
       again.at = "idle" /\ leave.at = "idle" /\ settled /\ connect.swarm \in Swarms
  /\ leave.at # "idle" => again.at = "idle" /\ settled
  /\ again.at # "idle" => settled /\ active # NoSwarm
  /\ connect.at = "prepare" => active = connect.swarm
  /\ StorageStages
  /\ active \in Joinable /\ persisted \in Joinable

(* tryApplyModelStorageRestart() starts, or leaves things as they are. *)
LEMMA StorageTries ==
  ASSUME NEW p, TryStorage(p, storage)
  PROVE  \/ storage' = storage
         \/ /\ storage.at = "idle" /\ active' # NoSwarm /\ handle' # 0
            /\ storage' = [at |-> "prepare", swarm |-> active', previous |-> handle', wait |-> 0,
                           revision |-> revision]
  BY DEF TryStorage

(* What it does not do is to forget what is being restarted. *)
LEMMA StagesTried ==
  ASSUME StorageStages, NEW p, TryStorage(p, storage), active' \in Joinable
  PROVE  StorageStages'
  BY StorageTries DEF StorageStages, Joinable

LEMMA StagesStop ==
  ASSUME StorageStages, storage.at = "prepare",
         storage' = [storage EXCEPT !.at = "stop", !.wait = WaitFor(handle)]
  PROVE  StorageStages'
  <1>1. storage' = [at |-> "stop", swarm |-> storage.swarm, previous |-> storage.previous,
                    wait |-> WaitFor(handle), revision |-> storage.revision]
    BY DEF StorageStages
  <1> QED BY <1>1 DEF StorageStages

LEMMA StagesEnd ==
  ASSUME StorageEnds
  PROVE  StorageStages'
  BY DEF StorageEnds, IdleStorage, StorageStages

(* What an action that leaves the calls of the user alone does to them. *)
LEMMA CallsKept ==
  ASSUME CallsInv, UNCHANGED <<joinVars, connect, again, leave>>,
         StorageStages' \/ storage' = storage \/ \E p : TryStorage(p, storage)
  PROVE  CallsInv'
  <1>1. StorageStages'
    BY StagesTried DEF CallsInv, joinVars, StorageStages
  <1> QED BY <1>1 DEF CallsInv, joinVars

(* connectSwarm(), in any of its ends before the first await. *)
LEMMA CallsConnect ==
  ASSUME CallsInv, NEW s \in Swarms, connect.at = "idle", again.at = "idle", leave.at = "idle",
         Switch(s) \/ Missing(s) \/ Unlisted(s) \/ (Preview(s) /\ settled' \in BOOLEAN)
  PROVE  CallsInv'
  <1>1. persisted' \in Joinable
    BY DEF CallsInv, Switch, Missing, Unlisted, Preview, Persist, Persisted, Joinable, joinVars
  <1>2. NoSwarm \notin Swarms /\ Swarms \subseteq Joinable
    BY ServiceAssumption DEF Joinable
  <1>3. CASE Switch(s)
    <2>1. /\ settled' = TRUE /\ switching' = TRUE /\ connect'.at = "agent" /\ connect'.swarm = s
          /\ UNCHANGED <<active, again, leave, storage>>
      BY <1>3 DEF Switch, storageVars
    <2> QED BY <1>1, <2>1 DEF CallsInv, StorageStages
  <1>4. CASE Missing(s) \/ (Preview(s) /\ settled' \in BOOLEAN)
    <2>1. active' = s /\ UNCHANGED <<switching, connect, again, leave, storage>>
      BY <1>4 DEF Missing, Preview, callVars, storageVars
    <2> QED BY <1>1, <1>2, <2>1 DEF CallsInv, StorageStages
  <1>5. CASE Unlisted(s)
    BY <1>5 DEF Unlisted, CallsInv, StorageStages, joinVars, callVars, storageVars
  <1> QED BY <1>3, <1>4, <1>5

LEMMA CallsStep == ASSUME Overlap = FALSE PROVE CallsInv /\ [Next]_vars => CallsInv'
  <1> SUFFICES ASSUME CallsInv, [Next]_vars PROVE CallsInv'
    OBVIOUS
  <1> USE DEF callVars, storageVars, StorageStages
  <1>1. CASE User
    <2>1. ASSUME NEW s \in Swarms, Connect(s) PROVE CallsInv'
      <3>1. connect.at = "idle" /\ again.at = "idle" /\ leave.at = "idle"
        BY <2>1 DEF Connect, MayAct, UserCalls
      <3>2. Switch(s) \/ Missing(s) \/ Unlisted(s) \/ (Preview(s) /\ settled' = settled)
        BY <2>1 DEF Connect
      <3>3. CASE Switch(s) \/ Missing(s) \/ Unlisted(s)
        BY <3>1, <3>3, CallsConnect
      <3>4. CASE Preview(s) /\ settled' = settled
        BY <3>1, <3>4 DEF Preview, CallsInv, Joinable
      <3> QED BY <3>2, <3>3, <3>4
    <2>2. CASE AutoReconnect
      <3>1. connect.at = "idle" /\ again.at = "idle" /\ leave.at = "idle"
        BY <2>2 DEF AutoReconnect, CallsInv
      <3>2. CASE persisted = NoSwarm
        BY <2>2, <3>1, <3>2 DEF AutoReconnect, CallsInv
      <3>3. CASE persisted # NoSwarm
        <4>1. persisted \in Swarms
          BY <3>3 DEF CallsInv, Joinable
        <4>2. Switch(persisted) \/ Missing(persisted) \/ (Preview(persisted) /\ settled' = TRUE)
          BY <2>2, <3>3 DEF AutoReconnect
        <4> QED BY <3>1, <4>1, <4>2, CallsConnect
      <3> QED BY <3>2, <3>3
    <2>3. CASE ConnectAgain
      <3>1. again'.at \in {"idle", "prepare"} /\ persisted' \in Joinable
        BY <2>3 DEF ConnectAgain, Persist, Persisted, CallsInv
      <3> QED BY <2>3, <3>1 DEF ConnectAgain, MayAct, UserCalls, CallsInv
    <2>4. CASE Disconnect
      <3>1. persisted' \in Joinable
        BY <2>4 DEF Disconnect, Persist, Persisted, CallsInv, Joinable
      <3> QED BY <2>4, <3>1 DEF Disconnect, MayAct, UserCalls, CallsInv
    <2>5. CASE Close
      BY <2>5, CallsKept DEF Close, CallsInv, joinVars
    <2>6. CASE ChangeStorage
      BY <2>6, CallsKept DEF ChangeStorage, CallsInv, joinVars
    <2> QED BY <1>1, <2>1, <2>2, <2>3, <2>4, <2>5, <2>6 DEF User
  <1>2. CASE Resume
    <2>1. CASE ConnectAgentStopped
      BY <2>1 DEF ConnectAgentStopped, CallsInv, joinVars
    <2>2. CASE ConnectWorkerStopped
      BY <2>2, ServiceAssumption DEF ConnectWorkerStopped, CallsInv, Joinable
    <2>3. CASE LeaveAgentStopped
      <3>1. leave'.at = "worker" /\ UNCHANGED <<joinVars, connect, again>> /\ leave.at = "agent"
        BY <2>3 DEF LeaveAgentStopped
      <3>2. StorageStages'
        BY <2>3, StagesTried DEF LeaveAgentStopped, CallsInv, joinVars
      <3> QED BY <3>1, <3>2 DEF CallsInv, joinVars
    <2>4. CASE LeaveWorkerStopped
      BY <2>4 DEF LeaveWorkerStopped, CallsInv, Joinable, Idle
    <2>5. CASE CloseAgentStopped
      BY <2>5, CallsKept DEF CloseAgentStopped
    <2>6. CASE CloseWorkerStopped
      BY <2>6, CallsKept DEF CloseWorkerStopped, CallsInv, joinVars
    <2>7. CASE StorageStopped
      BY <2>7, CallsKept, StagesEnd DEF StorageStopped
    <2> QED BY <1>2, <2>1, <2>2, <2>3, <2>4, <2>5, <2>6, <2>7 DEF Resume
  <1>3. CASE Prepared
    <2>1. CASE ConnectPrepared
      <3>1. connect' = Idle /\ switching' = FALSE /\ UNCHANGED <<active, persisted, settled, again, leave>>
        BY <2>1 DEF ConnectPrepared
      <3>2. StorageStages'
        BY <2>1, StagesTried DEF ConnectPrepared, CallsInv
      <3> QED BY <3>1, <3>2 DEF CallsInv, Idle
    <2>2. CASE AgainPrepared
      BY <2>2 DEF AgainPrepared, CallsInv, Idle, joinVars
    <2>3. CASE RevivePrepared
      BY <2>3, CallsKept DEF RevivePrepared, CallsInv, joinVars
    <2>4. CASE StoragePrepared
      BY <2>4, CallsKept, StagesStop, StagesEnd DEF StoragePrepared, CallsInv
    <2>5. CASE ApplyStorage
      BY <2>5, CallsKept DEF ApplyStorage
    <2> QED BY <1>3, <2>1, <2>2, <2>3, <2>4, <2>5 DEF Prepared
  <1>4. CASE Failed
    <2>1. CASE ConnectFailed
      <3>1. connect' = Idle /\ switching' = FALSE /\ UNCHANGED <<active, persisted, settled, again, leave>>
        BY <2>1 DEF ConnectFailed
      <3>2. StorageStages'
        BY <2>1, StagesTried DEF ConnectFailed, CallsInv
      <3> QED BY <3>1, <3>2 DEF CallsInv, Idle
    <2>2. CASE AgainFailed
      BY <2>2 DEF AgainFailed, CallsInv, Idle, joinVars
    <2>3. CASE ReviveFailed
      BY <2>3, CallsKept DEF ReviveFailed, CallsInv, joinVars
    <2>4. CASE StorageFailed
      BY <2>4, CallsKept, StagesEnd DEF StorageFailed
    <2> QED BY <1>4, <2>1, <2>2, <2>3, <2>4 DEF Failed
  <1>5. CASE Revive
    BY <1>5, CallsKept DEF Revive, CallsInv, joinVars
  <1>6. ASSUME NEW g \in Generations, Agent(g) \/ AgentFault(g) PROVE CallsInv'
    <2>1. UNCHANGED <<joinVars, connect, again, leave>>
      BY <1>6 DEF Agent, AgentFault, AgentReady, AgentCloses, Generated, AgentInvalid, AgentDies, Generates
    <2>2. storage' = storage \/ \E p : TryStorage(p, storage)
      BY <1>6 DEF Agent, AgentFault, AgentReady, AgentCloses, Generated, AgentInvalid, AgentDies, Generates
    <2> QED BY <2>1, <2>2, CallsKept DEF CallsInv, joinVars
  <1>7. ASSUME NEW w \in Workers, WorkerDies(w) \/ WorkerRestarts(w) \/ WorkerCloses(w) PROVE CallsInv'
    BY <1>7, CallsKept DEF WorkerDies, WorkerRestarts, WorkerCloses, CallsInv, joinVars
  <1>8. CASE UNCHANGED vars
    BY <1>8, CallsKept DEF vars, CallsInv, joinVars
  <1> QED BY <1>1, <1>2, <1>3, <1>4, <1>5, <1>6, <1>7, <1>8 DEF Next, Event

------------------------------------------------------------------------------
(* The Request Agents *)

CrossedForm ==
  crossed = [workers |-> crossed.workers, agents |-> crossed.agents, error |-> crossed.error,
             file |-> crossed.file]

(* A restart that is armed or prepared for the current generation finds none  *)
(* tracked: what launches one meanwhile moves the generation on.              *)
Awaits(c) ==
  /\ c = [at |-> c.at, swarm |-> c.swarm, wait |-> c.wait]
  /\ c.at # "idle" => c.wait \in Nat /\ c.wait <= generation /\ (c.wait = generation => agentHandle = 0)

(* While a swarm is joined or left, and when there is none, the generation    *)
(* has no Request Agent, and no restart will give it one.                     *)
Unattended == connect.at # "idle" \/ leave.at # "idle" \/ active = NoSwarm

Silent ==
  /\ agentHandle = 0 /\ restart.at = "idle"
  /\ revive.at # "idle" => revive.wait # generation
  /\ \A g \in Generations : g = generation => agents[g].life = "none"

AgentsRun ==
  \A g \in Generations : AgentRuns(g) => g = agentHandle \/ g \in crossed.agents

(* What a frontend is told when there is none. *)
Told == active = NoSwarm \/ leave.at = "worker" => agent = "stopped" \/ crossed.error

AgentsInv ==
  /\ CrossedForm /\ agentHandle \in {0, generation} /\ AgentsRun
  /\ Awaits(restart) /\ Awaits(revive)
  /\ Unattended => Silent
  /\ Told

(* An action that leaves the Request Agents alone. *)
LEMMA AgentsKept ==
  ASSUME AgentsInv, UNCHANGED <<agentHandle, generation, agents, restart>>, CrossedForm',
         crossed'.agents = crossed.agents, revive' = revive \/ revive' = Idle, Unattended' => Unattended,
         Told'
  PROVE  AgentsInv'
  BY DEF AgentsInv, AgentsRun, AgentRuns, Awaits, Silent, Told, Idle

LEMMA AgentsLaunched ==
  ASSUME AgentsInv, IInv, NEW s, LaunchAgent(s), CrossedForm', revive' = revive \/ revive' = Idle,
         agentHandle = 0 \/ agentHandle \in crossed'.agents, crossed.agents \subseteq crossed'.agents,
         ~Unattended', leave'.at # "worker"
  PROVE  AgentsInv'
  <1>1. /\ generation' = generation + 1 /\ agentHandle' = generation + 1 /\ restart' = Idle
        /\ agents' = [agents EXCEPT ![generation + 1] = [life |-> "starting", swarm |-> s]]
    BY DEF LaunchAgent
  <1>2. generation \in Nat /\ DOMAIN agents = Generations
    BY DEF IInv, AgentsKnown
  <1>3. ASSUME NEW g \in Generations, g # generation + 1 PROVE agents'[g] = agents[g]
    BY <1>1, <1>2, <1>3
  <1>4. AgentsRun'
    BY <1>1, <1>3, GenerationsAreNat DEF AgentsInv, AgentsRun, AgentRuns
  <1>5. Awaits(restart)'
    BY <1>1 DEF Awaits, Idle
  <1>6. CASE revive' = Idle
    <2>1. Awaits(revive)'
      BY <1>6 DEF Awaits, Idle
    <2> QED BY <1>1, <1>4, <1>5, <2>1 DEF AgentsInv, Unattended, Told
  <1>7. CASE revive' = revive
    <2>1. Awaits(revive)'
      BY <1>1, <1>2, <1>7 DEF AgentsInv, Awaits
    <2> QED BY <1>1, <1>4, <1>5, <2>1 DEF AgentsInv, Unattended, Told
  <1> QED BY <1>6, <1>7

LEMMA AgentsSilenced ==
  ASSUME AgentsInv, IInv, StopAgent, UNCHANGED revive, CrossedForm', crossed'.agents = crossed.agents, Told'
  PROVE  AgentsInv' /\ Silent'
  <1>1. /\ generation' = generation + 1 /\ agentHandle' = 0 /\ restart' = Idle
        /\ agents' = [g \in Generations |->
                        IF g = agentHandle /\ AgentRuns(g)
                        THEN [agents[g] EXCEPT !.life = "stopping"] ELSE agents[g]]
    BY DEF StopAgent
  <1>2. generation \in Nat /\ \A g \in Generations : agents[g] = [life |-> agents[g].life, swarm |-> agents[g].swarm]
    BY DEF IInv, AgentsKnown
  <1>3. ASSUME NEW g \in Generations, g = agentHandle, AgentRuns(g) PROVE agents'[g].life = "stopping"
    <2>1. agents'[g] = [agents[g] EXCEPT !.life = "stopping"]
      BY <1>1, <1>3
    <2>2. agents[g] = [life |-> agents[g].life, swarm |-> agents[g].swarm]
      BY <1>2
    <2> QED BY <2>1, <2>2
  <1>4. ASSUME NEW g \in Generations, ~(g = agentHandle /\ AgentRuns(g)) PROVE agents'[g] = agents[g]
    BY <1>1, <1>4
  <1>5. AgentsRun'
    BY <1>1, <1>3, <1>4 DEF AgentsInv, AgentsRun, AgentRuns
  <1>6. Awaits(restart)' /\ Awaits(revive)' /\ (revive'.at # "idle" => revive'.wait # generation')
    BY <1>1, <1>2 DEF AgentsInv, Awaits, Idle
  <1>7. ASSUME NEW g \in Generations, g = generation' PROVE agents'[g].life = "none"
    <2>1. g > generation
      BY <1>1, <1>2, <1>7
    <2>2. agents[g].life = "none"
      BY <2>1 DEF IInv, AgentsKnown
    <2> QED BY <2>2, <1>4 DEF AgentRuns
  <1>8. Silent'
    BY <1>1, <1>6, <1>7 DEF Silent, Idle
  <1> QED BY <1>1, <1>5, <1>6, <1>8 DEF AgentsInv, Told

(* A report of the process of generation g, which goes on to another life.    *)
LEMMA AgentsLived ==
  ASSUME AgentsInv, IInv, NEW g \in Generations, NEW l \in {"ready", "failing", "closed"},
         agents' = [agents EXCEPT ![g].life = l], UNCHANGED <<generation, crossed, revive, connect, leave, active>>,
         AgentRuns(g) \/ agents[g].life = "stopping",
         l # "closed" => AgentRuns(g) /\ agentHandle' = agentHandle,
         l = "closed" => agentHandle' = IF agentHandle = g THEN 0 ELSE agentHandle,
         \/ restart' = restart
         \/ l = "closed" /\ g = generation /\ restart' = [at |-> "armed", swarm |-> active, wait |-> g],
         g # generation => agent' = agent
  PROVE  AgentsInv'
  <1>1. DOMAIN agents = Generations /\ generation \in Nat /\ Generations \subseteq Nat /\ 0 \notin Generations
    BY GenerationsAreNat DEF IInv, AgentsKnown
  <1>2. \A h \in Generations : agents'[h] = IF h = g THEN [life |-> l, swarm |-> agents[g].swarm] ELSE agents[h]
    BY DEF IInv, AgentsKnown
  <1>3. AgentsRun'
    BY <1>1, <1>2 DEF AgentsInv, AgentsRun, AgentRuns
  <1>4. g = generation => ~Unattended
    BY <1>1 DEF AgentsInv, Silent, AgentRuns
  <1>5. Awaits(restart)' /\ Awaits(revive)' /\ agentHandle' \in {0, generation'}
    BY <1>1 DEF AgentsInv, Awaits
  <1>6. Unattended' => Silent'
    BY <1>1, <1>2, <1>4 DEF AgentsInv, Silent, Unattended
  <1>7. Told'
    BY <1>4 DEF AgentsInv, Told, Unattended
  <1> QED BY <1>3, <1>5, <1>6, <1>7 DEF AgentsInv, CrossedForm, Told

(* The exceptions are records of what happened. *)
LEMMA CrossedKept ==
  ASSUME CrossedForm,
         \/ crossed' = crossed
         \/ \E x : crossed' = [crossed EXCEPT !.file = x] \/ crossed' = [crossed EXCEPT !.workers = x]
  PROVE  CrossedForm' /\ crossed'.agents = crossed.agents /\ crossed'.error = crossed.error
  <1>1. CASE crossed' = crossed
    BY <1>1 DEF CrossedForm
  <1>2. ASSUME NEW x, crossed' = [crossed EXCEPT !.file = x]
        PROVE  CrossedForm' /\ crossed'.agents = crossed.agents /\ crossed'.error = crossed.error
    <2>1. crossed' = [workers |-> crossed.workers, agents |-> crossed.agents, error |-> crossed.error,
                      file |-> x]
      BY <1>2 DEF CrossedForm
    <2> QED BY <2>1 DEF CrossedForm
  <1>3. ASSUME NEW x, crossed' = [crossed EXCEPT !.workers = x]
        PROVE  CrossedForm' /\ crossed'.agents = crossed.agents /\ crossed'.error = crossed.error
    <2>1. crossed' = [workers |-> x, agents |-> crossed.agents, error |-> crossed.error,
                      file |-> crossed.file]
      BY <1>3 DEF CrossedForm
    <2> QED BY <2>1 DEF CrossedForm
  <1> QED BY <1>1, <1>2, <1>3

LEMMA CrossedPersist ==
  ASSUME CrossedForm, NEW s, Persist(s) \/ Persisted(s)
  PROVE  CrossedForm' /\ crossed'.agents = crossed.agents /\ crossed'.error = crossed.error
  BY CrossedKept DEF Persist, Persisted

(* connectSwarm() that gets nowhere near a Request Agent. *)
LEMMA AgentsConnect ==
  ASSUME AgentsInv, IInv, NEW s \in Swarms, connect.at = "idle", leave.at = "idle",
         Switch(s) \/ Missing(s) \/ Unlisted(s) \/ Preview(s)
  PROVE  AgentsInv'
  <1>1. NoSwarm \notin Swarms
    BY ServiceAssumption
  <1>2. CASE Switch(s)
    <2>1. CrossedForm' /\ crossed'.agents = crossed.agents /\ crossed'.error = crossed.error
      BY <1>2, CrossedPersist DEF Switch, AgentsInv
    <2>2. StopAgent /\ UNCHANGED <<active, agent, leave, revive>>
      BY <1>2 DEF Switch, StopAgent
    <2> QED BY <2>1, <2>2, AgentsSilenced DEF AgentsInv, Told
  <1>3. CASE Missing(s) \/ Preview(s)
    <2>1. CrossedForm' /\ crossed'.agents = crossed.agents /\ crossed'.error = crossed.error
      BY <1>3, CrossedPersist, CrossedKept DEF Missing, Preview, AgentsInv, aside
    <2>2. active' = s /\ UNCHANGED <<agentHandle, generation, agents, restart, revive, connect, leave>>
      BY <1>3 DEF Missing, Preview, agentVars, callVars
    <2> QED BY <1>1, <2>1, <2>2, AgentsKept DEF Unattended, Told
  <1>4. CASE Unlisted(s)
    BY <1>4, AgentsKept DEF Unlisted, Unattended, Told, AgentsInv, CrossedForm, joinVars, agentVars, callVars, aside
  <1> QED BY <1>2, <1>3, <1>4

LEMMA AgentsUser ==
  ASSUME Overlap = FALSE, CallsInv, IInv, AgentsInv, User
  PROVE  AgentsInv'
  <1>1. ASSUME NEW s \in Swarms, Connect(s) PROVE AgentsInv'
    BY <1>1, AgentsConnect DEF Connect, MayAct, UserCalls
  <1>2. CASE AutoReconnect
    <2>1. CASE persisted = NoSwarm
      BY <1>2, <2>1, AgentsKept DEF AutoReconnect, Unattended, Told, AgentsInv, CrossedForm, agentVars, callVars, aside
    <2>2. CASE persisted # NoSwarm
      <3>1. persisted \in Swarms /\ connect.at = "idle" /\ leave.at = "idle"
        BY <1>2, <2>2 DEF AutoReconnect, CallsInv, Joinable
      <3> QED BY <1>2, <2>2, <3>1, AgentsConnect DEF AutoReconnect
    <2> QED BY <2>1, <2>2
  <1>3. CASE ConnectAgain
    <2>1. CrossedForm' /\ crossed'.agents = crossed.agents /\ crossed'.error = crossed.error
      BY <1>3, CrossedPersist DEF ConnectAgain, AgentsInv
    <2>2. /\ active # NoSwarm /\ leave.at = "idle"
          /\ UNCHANGED <<active, agentHandle, generation, agents, restart, revive, connect, leave>>
      BY <1>3 DEF ConnectAgain, MayAct, UserCalls
    <2> QED BY <2>1, <2>2, AgentsKept DEF Unattended, Told
  <1>4. CASE Disconnect
    <2>1. CrossedForm' /\ crossed'.agents = crossed.agents /\ crossed'.error = crossed.error
      BY <1>4, CrossedPersist DEF Disconnect, AgentsInv
    <2>2. StopAgent /\ UNCHANGED <<active, agent, revive>> /\ leave'.at = "agent"
      BY <1>4 DEF Disconnect, StopAgent
    <2> QED BY <2>1, <2>2, AgentsSilenced DEF AgentsInv, Told
  <1>5. CASE Close
    <2>1. StopAgent /\ UNCHANGED <<active, agent, revive, leave, crossed>>
      BY <1>5 DEF Close, StopAgent, joinVars, aside
    <2> QED BY <2>1, AgentsSilenced DEF AgentsInv, Told, CrossedForm
  <1>6. CASE ChangeStorage
    BY <1>6, AgentsKept DEF ChangeStorage, Unattended, Told, AgentsInv, CrossedForm, joinVars, agentVars, callVars, aside
  <1> QED BY <1>1, <1>2, <1>3, <1>4, <1>5, <1>6 DEF User

LEMMA AgentsResume ==
  ASSUME CallsInv, IInv, AgentsInv, Resume
  PROVE  AgentsInv'
  <1> USE DEF joinVars, agentVars, callVars, aside, Unattended, Told, CrossedForm
  <1>1. CASE ConnectAgentStopped
    BY <1>1, AgentsKept DEF ConnectAgentStopped, AgentStopped, AgentsInv
  <1>2. CASE ConnectWorkerStopped
    BY <1>2, AgentsKept, ServiceAssumption DEF ConnectWorkerStopped, AgentsInv, CallsInv
  <1>3. CASE LeaveAgentStopped
    BY <1>3, AgentsKept DEF LeaveAgentStopped, AgentStopped, AgentsInv
  <1>4. CASE LeaveWorkerStopped
    BY <1>4, AgentsKept DEF LeaveWorkerStopped, AgentsInv, Idle
  <1>5. CASE CloseAgentStopped
    BY <1>5, AgentsKept DEF CloseAgentStopped, AgentStopped, AgentsInv
  <1>6. CASE CloseWorkerStopped
    BY <1>6, AgentsKept DEF CloseWorkerStopped, AgentsInv
  <1>7. CASE StorageStopped
    <2>1. CrossedForm' /\ crossed'.agents = crossed.agents /\ crossed'.error = crossed.error
      BY <1>7, CrossedKept DEF StorageStopped, AgentsInv
    <2> QED BY <1>7, <2>1, AgentsKept DEF StorageStopped, AgentsInv
  <1> QED BY <1>1, <1>2, <1>3, <1>4, <1>5, <1>6, <1>7 DEF Resume

LEMMA AgentsPrepared ==
  ASSUME CallsInv, IInv, AgentsInv, Prepared
  PROVE  AgentsInv'
  <1> USE DEF joinVars, callVars, aside
  <1>1. CASE ConnectPrepared
    <2>1. /\ agentHandle = 0 /\ active \in Swarms /\ leave.at = "idle"
          /\ LaunchAgent(connect.swarm) /\ connect' = Idle /\ UNCHANGED <<active, leave, revive, crossed>>
      BY <1>1 DEF ConnectPrepared, AgentsInv, Silent, Unattended, CallsInv
    <2> QED BY <2>1, AgentsLaunched, ServiceAssumption DEF AgentsInv, CrossedForm, Unattended, Idle
  <1>2. CASE AgainPrepared
    <2>1. /\ active # NoSwarm /\ connect.at = "idle" /\ leave.at = "idle"
          /\ LaunchAgent(active) /\ UNCHANGED <<active, leave, connect, revive>>
          /\ crossed' = [crossed EXCEPT !.agents = @ \cup ({agentHandle} \ {0})]
      BY <1>2 DEF AgainPrepared, CallsInv
    <2>2. crossed' = [workers |-> crossed.workers, agents |-> crossed.agents \cup ({agentHandle} \ {0}),
                      error |-> crossed.error, file |-> crossed.file]
      BY <2>1 DEF AgentsInv, CrossedForm
    <2> QED BY <2>1, <2>2, AgentsLaunched DEF AgentsInv, CrossedForm, Unattended
  <1>3. CASE RevivePrepared
    <2>1. CASE ~(Current(revive.wait) /\ active = revive.swarm)
      BY <1>3, <2>1, AgentsKept DEF RevivePrepared, AgentsInv, Unattended, Told, CrossedForm, agentVars
    <2>2. CASE Current(revive.wait) /\ active = revive.swarm
      <3>1. agentHandle = 0 /\ ~Unattended
        BY <1>3, <2>2 DEF RevivePrepared, AgentsInv, Awaits, Silent, Current
      <3>2. LaunchAgent(revive.swarm) /\ revive' = Idle /\ UNCHANGED <<active, leave, connect, crossed>>
        BY <1>3, <2>2 DEF RevivePrepared
      <3> QED BY <3>1, <3>2, AgentsLaunched DEF AgentsInv, CrossedForm, Unattended
    <2> QED BY <2>1, <2>2
  <1>4. CASE StoragePrepared
    BY <1>4, AgentsKept DEF StoragePrepared, AgentsInv, Unattended, Told, CrossedForm, agentVars
  <1>5. CASE ApplyStorage
    BY <1>5, AgentsKept DEF ApplyStorage, AgentsInv, Unattended, Told, CrossedForm, agentVars
  <1> QED BY <1>1, <1>2, <1>3, <1>4, <1>5 DEF Prepared

LEMMA AgentsFailed ==
  ASSUME CallsInv, IInv, AgentsInv, Failed
  PROVE  AgentsInv'
  <1> USE DEF joinVars, callVars, aside
  <1>1. CASE ConnectFailed
    BY <1>1, AgentsKept DEF ConnectFailed, AgentsInv, Unattended, Told, CrossedForm, agentVars, Idle
  <1>2. CASE AgainFailed
    BY <1>2, AgentsKept DEF AgainFailed, AgentsInv, Unattended, Told, CrossedForm, CallsInv
  <1>3. CASE ReviveFailed
    <2>1. /\ revive' = Idle /\ revive.at = "prepare"
          /\ restart' = (IF Current(revive.wait) /\ restart.at = "idle"
                         THEN [revive EXCEPT !.at = "armed"] ELSE restart)
          /\ crossed' = [crossed EXCEPT !.error = @ \/ ~Current(revive.wait)]
          /\ UNCHANGED <<active, agentHandle, generation, agents, leave, connect>>
      BY <1>3 DEF ReviveFailed
    <2>2. crossed' = [workers |-> crossed.workers, agents |-> crossed.agents,
                      error |-> (crossed.error \/ ~Current(revive.wait)), file |-> crossed.file]
      BY <2>1 DEF AgentsInv, CrossedForm
    <2>3. Unattended => ~Current(revive.wait)
      BY <2>1 DEF AgentsInv, Silent, Current
    <2>4. CrossedForm' /\ crossed'.agents = crossed.agents
          /\ (~Current(revive.wait) => crossed'.error)
      BY <2>2 DEF CrossedForm
    <2>5. Told'
      BY <2>1, <2>3, <2>4 DEF Told, Unattended
    <2>6. CASE ~Current(revive.wait)
      BY <2>1, <2>4, <2>5, <2>6, AgentsKept DEF Unattended
    <2>7. CASE Current(revive.wait)
      <3>1. ~Unattended'
        BY <2>1, <2>3, <2>7 DEF Unattended
      <3>2. Awaits(revive)'
        BY <2>1 DEF Awaits, Idle
      <3>3. [revive EXCEPT !.at = "armed"] = [at |-> "armed", swarm |-> revive.swarm, wait |-> revive.wait]
        BY DEF AgentsInv, Awaits
      <3>4. Awaits(restart)'
        BY <2>1, <3>3 DEF AgentsInv, Awaits
      <3>5. AgentsRun'
        BY <2>1, <2>4 DEF AgentsInv, AgentsRun, AgentRuns
      <3> QED BY <2>1, <2>4, <2>5, <3>1, <3>2, <3>4, <3>5 DEF AgentsInv
    <2> QED BY <2>6, <2>7
  <1>4. CASE StorageFailed
    BY <1>4, AgentsKept DEF StorageFailed, AgentsInv, Unattended, Told, CrossedForm, agentVars
  <1> QED BY <1>1, <1>2, <1>3, <1>4 DEF Failed

(* The restart timer fires. *)
LEMMA AgentsRevive ==
  ASSUME CallsInv, IInv, AgentsInv, Revive
  PROVE  AgentsInv'
  <1>1. /\ restart.at = "armed" /\ restart' = Idle
        /\ revive' = revive \/ revive' = [restart EXCEPT !.at = "prepare"]
        /\ UNCHANGED <<active, agentHandle, generation, agents, leave, connect, crossed>>
    BY DEF Revive, joinVars, callVars, aside
  <1>2. ~Unattended
    BY <1>1 DEF AgentsInv, Silent
  <1>3. [restart EXCEPT !.at = "prepare"] = [at |-> "prepare", swarm |-> restart.swarm, wait |-> restart.wait]
    BY DEF AgentsInv, Awaits
  <1>4. Awaits(restart)' /\ Awaits(revive)'
    <2>1. Awaits(restart)'
      BY <1>1 DEF Awaits, Idle
    <2>2. CASE revive' = revive
      BY <1>1, <2>1, <2>2 DEF AgentsInv, Awaits
    <2>3. CASE revive' = [restart EXCEPT !.at = "prepare"]
      BY <1>1, <1>3, <2>1, <2>3 DEF AgentsInv, Awaits
    <2> QED BY <1>1, <2>2, <2>3
  <1> QED BY <1>1, <1>2, <1>4 DEF AgentsInv, AgentsRun, AgentRuns, Unattended, Told, CrossedForm

LEMMA AgentsReport ==
  ASSUME CallsInv, IInv, AgentsInv, NEW g \in Generations, Agent(g) \/ AgentFault(g)
  PROVE  AgentsInv'
  <1>1. UNCHANGED <<active, leave, connect, revive, crossed, generation>>
    BY DEF Agent, AgentFault, AgentReady, AgentCloses, Generated, AgentInvalid, AgentDies, Generates,
       joinVars, callVars, aside
  <1>2. CASE AgentReady(g)
    BY <1>1, <1>2, AgentsLived DEF AgentReady, AgentRuns, Current
  <1>3. CASE AgentInvalid(g)
    BY <1>1, <1>3, AgentsLived DEF AgentInvalid, AgentRuns, Current
  <1>4. CASE AgentDies(g)
    <2>1. /\ AgentRuns(g) /\ agents' = [agents EXCEPT ![g].life = "closed"]
          /\ agentHandle' = (IF agentHandle = g THEN 0 ELSE agentHandle)
          /\ g # generation => agent' = agent
          /\ \/ restart' = restart
             \/ g = generation /\ restart' = [at |-> "armed", swarm |-> active, wait |-> g]
      BY <1>4 DEF AgentDies, AgentRuns, Current
    <2> QED BY <1>1, <2>1, AgentsLived
  <1>5. CASE AgentCloses(g)
    BY <1>1, <1>5, AgentsLived DEF AgentCloses, AgentRuns, Current
  <1>6. CASE Generates(g) \/ Generated(g)
    BY <1>1, <1>6, AgentsKept DEF Generates, Generated, AgentsInv, Unattended, Told, CrossedForm
  <1> QED BY <1>2, <1>3, <1>4, <1>5, <1>6 DEF Agent, AgentFault

LEMMA AgentsStep == ASSUME Overlap = FALSE PROVE CallsInv /\ IInv /\ AgentsInv /\ [Next]_vars => AgentsInv'
  <1> SUFFICES ASSUME CallsInv, IInv, AgentsInv, [Next]_vars PROVE AgentsInv'
    OBVIOUS
  <1>1. ASSUME NEW w \in Workers, WorkerDies(w) \/ WorkerRestarts(w) \/ WorkerCloses(w) PROVE AgentsInv'
    BY <1>1, AgentsKept DEF WorkerDies, WorkerRestarts, WorkerCloses, AgentsInv, Unattended, Told, CrossedForm,
       joinVars, agentVars, callVars, aside
  <1>2. CASE UNCHANGED vars
    BY <1>2, AgentsKept DEF vars, AgentsInv, Unattended, Told, CrossedForm, joinVars, agentVars, callVars, aside
  <1> QED BY <1>1, <1>2, AgentsUser, AgentsResume, AgentsPrepared, AgentsFailed, AgentsRevive, AgentsReport
         DEF Next, Event

LEMMA CallsInit == Init => CallsInv /\ AgentsInv
  <1> SUFFICES ASSUME Init PROVE CallsInv /\ AgentsInv
    OBVIOUS
  <1>1. CallsInv
    BY DEF Init, CallsInv, StorageStages, Idle, IdleStorage, Joinable
  <1>2. CrossedForm /\ AgentsRun /\ Awaits(restart) /\ Awaits(revive)
    BY DEF Init, CrossedForm, NotCrossed, AgentsRun, AgentRuns, Awaits, Idle
  <1> QED BY <1>1, <1>2, GenerationsAreNat DEF Init, AgentsInv, Silent, Told, Idle

------------------------------------------------------------------------------
(* The workers *)

(* Workers are numbered as they come. *)
Numbered ==
  /\ DOMAIN workers = Workers
  /\ \A w \in Workers : workers[w] = [life |-> workers[w].life, swarm |-> workers[w].swarm]
  /\ \E n \in 0..(MaxGestures + MaxChanges) : \A w \in Workers : workers[w].life = "none" <=> w > n

Known(w) == w \in Nat /\ (w \in Workers => workers[w].life # "none")

(* The handle is forgotten next, whatever it is, or was already. *)
Forgetting == connect.at \in {"worker", "prepare"} \/ leave.at = "worker"

Waited(w) ==
  \/ connect.at = "worker" /\ connect.wait = w
  \/ leave.at = "worker" /\ leave.wait = w
  \/ storage.at = "stop" /\ storage.wait = w

CallForms ==
  /\ connect = [at |-> connect.at, swarm |-> connect.swarm, wait |-> connect.wait]
  /\ leave = [at |-> leave.at, swarm |-> leave.swarm, wait |-> leave.wait]

(* What the restart for the storage compares the handle with. *)
Restarted ==
  storage.at # "idle" =>
    /\ Known(storage.previous)
    /\ storage.at = "stop" /\ storage.previous \in Workers => ~Supervised(storage.previous)

(* Until the IDE closes, a worker escapes the handle only if a restart for    *)
(* the storage crossed a join or a leave, and none stops unawaited.           *)
Tracked ==
  \A w \in Workers :
    w \notin crossed.workers =>
      /\ Supervised(w) => w = handle /\ ~Forgetting
      /\ workers[w].life = "stopping" => Waited(w)

WorkersInv ==
  /\ Numbered /\ CallForms /\ Known(handle) /\ Restarted
  /\ active = NoSwarm => handle = 0
  /\ close.at = "idle" => Tracked

LEMMA WorkersAreNat ==
  /\ Workers \subseteq Nat \ {0} /\ MaxGestures + MaxChanges \in Nat
  /\ \A n \in Nat : n # 0 /\ n <= MaxGestures + MaxChanges => n \in Workers
  BY ServiceAssumption DEF Workers

(* The next worker has the first number that is left. *)
LEMMA NextIsFirst ==
  ASSUME NEW n \in 0..(MaxGestures + MaxChanges), \A w \in Workers : workers[w].life = "none" <=> w > n
  PROVE  NextWorker = n + 1
  <1>1. n \in Int /\ n >= 0
    BY WorkersAreNat
  <1>2. {w \in Workers : workers[w].life # "none"} = 1..n
    BY WorkersAreNat DEF Workers
  <1>3. Cardinality(1..n) = n
    BY <1>1, FS_Interval
  <1> QED BY <1>1, <1>2, <1>3 DEF NextWorker

(* spawnWorker(): the others are killed, and restarted if they are supervised. *)
LEMMA WorkerSpawned ==
  ASSUME Numbered, NEW v, workers' = Spawned(v, active) \/ \E s : workers' = Spawned(v, s)
  PROVE  /\ DOMAIN workers' = Workers
         /\ \A w \in Workers : workers'[w] = [life |-> workers'[w].life, swarm |-> workers'[w].swarm]
         /\ \A w \in Workers :
              workers'[w].life = IF w = v THEN "running"
                                 ELSE IF workers[w].life = "running" THEN "killed" ELSE workers[w].life
  <1>1. PICK s : workers' = Spawned(v, s)
    OBVIOUS
  <1>2. workers' = [w \in Workers |->
                      IF w = v THEN [life |-> "running", swarm |-> s]
                      ELSE IF workers[w].life = "running" THEN [workers[w] EXCEPT !.life = "killed"]
                      ELSE workers[w]]
    BY <1>1 DEF Spawned
  <1>3. ASSUME NEW w \in Workers
        PROVE  /\ workers'[w] = [life |-> workers'[w].life, swarm |-> workers'[w].swarm]
               /\ workers'[w].life = IF w = v THEN "running"
                                     ELSE IF workers[w].life = "running" THEN "killed" ELSE workers[w].life
    <2>1. workers[w] = [life |-> workers[w].life, swarm |-> workers[w].swarm]
      BY DEF Numbered
    <2>2. [workers[w] EXCEPT !.life = "killed"] = [life |-> "killed", swarm |-> workers[w].swarm]
      BY <2>1
    <2> QED BY <1>2, <2>1, <2>2
  <1> QED BY <1>2, <1>3

LEMMA NextSpawned ==
  ASSUME Numbered, NEW s, SpawnWorker(s)
  PROVE  /\ Numbered' /\ Known(handle)' /\ handle' = NextWorker /\ NextWorker # 0
         /\ NextWorker \in Workers => workers[NextWorker].life = "none"
         /\ \A w \in Workers :
              /\ Supervised(w)' <=> Supervised(w) \/ w = NextWorker
              /\ workers'[w].life = "none" => workers[w].life = "none"
              /\ workers'[w].life = "stopping" => workers[w].life = "stopping"
  <1>1. PICK n \in 0..(MaxGestures + MaxChanges) : \A w \in Workers : workers[w].life = "none" <=> w > n
    BY DEF Numbered
  <1>2. NextWorker = n + 1 /\ n \in Nat
    BY <1>1, NextIsFirst, WorkersAreNat
  <1>3. handle' = n + 1 /\ workers' = Spawned(n + 1, s)
    BY <1>2 DEF SpawnWorker
  <1>4. /\ DOMAIN workers' = Workers
        /\ \A w \in Workers : workers'[w] = [life |-> workers'[w].life, swarm |-> workers'[w].swarm]
        /\ \A w \in Workers :
             workers'[w].life = IF w = n + 1 THEN "running"
                                ELSE IF workers[w].life = "running" THEN "killed" ELSE workers[w].life
    BY <1>3, WorkerSpawned
  <1>5. Numbered'
    <2>1. CASE n + 1 \in Workers
      <3>1. n + 1 \in 0..(MaxGestures + MaxChanges)
        BY <2>1, <1>2 DEF Workers
      <3>2. \A w \in Workers : workers'[w].life = "none" <=> w > n + 1
        BY <1>1, <1>2, <1>4, WorkersAreNat
      <3> QED BY <1>4, <3>1, <3>2 DEF Numbered
    <2>2. CASE n + 1 \notin Workers
      <3>1. \A w \in Workers : workers'[w].life = "none" <=> w > n
        BY <1>1, <1>4, <2>2
      <3> QED BY <1>1, <1>4, <3>1 DEF Numbered
    <2> QED BY <2>1, <2>2
  <1>6. n + 1 \in Workers => workers[n + 1].life = "none"
    BY <1>1, <1>2
  <1> QED BY <1>2, <1>3, <1>4, <1>5, <1>6 DEF Known, Supervised

(* stop() of a worker ends its supervision, and is awaited unless it is over. *)
LEMMA WorkerStopped ==
  ASSUME Numbered, NEW h, StopWorker(h)
  PROVE  /\ Numbered'
         /\ \A w \in Workers :
              /\ Supervised(w)' => Supervised(w) /\ w # h
              /\ workers'[w].life = "none" <=> workers[w].life = "none"
              /\ workers'[w].life = "stopping" => workers[w].life = "stopping" \/ (w = h /\ WaitFor(h) = h)
  <1>1. CASE h \notin Workers
    <2>1. /\ DOMAIN workers' = Workers
          /\ \A w \in Workers : workers'[w] = workers[w]
      BY <1>1 DEF StopWorker, Numbered
    <2> QED BY <1>1, <2>1 DEF Numbered, Supervised
  <1>2. CASE h \in Workers
    <2>1. h # 0
      BY <1>2, WorkersAreNat
    <2> DEFINE l == IF workers[h].life \in {"running", "killed"} THEN "stopping"
                    ELSE IF workers[h].life = "crashed" THEN "gone" ELSE workers[h].life
    <2>2. workers' = [workers EXCEPT ![h].life = l]
      BY <2>1 DEF StopWorker
    <2>3. /\ l \notin {"running", "killed", "crashed"} /\ (l = "none" <=> workers[h].life = "none")
          /\ l = "stopping" => workers[h].life = "stopping" \/ WaitFor(h) = h
      BY <2>1 DEF WaitFor
    <2> HIDE DEF l
    <2>4. workers[h] = [life |-> workers[h].life, swarm |-> workers[h].swarm] /\ DOMAIN workers = Workers
      BY <1>2 DEF Numbered
    <2>5. /\ DOMAIN workers' = Workers /\ workers'[h] = [life |-> l, swarm |-> workers[h].swarm]
          /\ \A w \in Workers : w # h => workers'[w] = workers[w]
      BY <1>2, <2>2, <2>4
    <2> QED BY <1>2, <2>3, <2>5 DEF Numbered, Supervised
  <1> QED BY <1>1, <1>2

LEMMA CrossedWorkers ==
  ASSUME CrossedForm,
         \/ crossed' = crossed
         \/ \E x : \/ crossed' = [crossed EXCEPT !.file = x]
                   \/ crossed' = [crossed EXCEPT !.agents = x]
                   \/ crossed' = [crossed EXCEPT !.error = x]
  PROVE  crossed'.workers = crossed.workers
  BY DEF CrossedForm

(* An action that leaves the workers alone. *)
LEMMA WorkersKept ==
  ASSUME WorkersInv, UNCHANGED <<handle, workers>>, crossed'.workers = crossed.workers, CallForms',
         active' = NoSwarm => active = NoSwarm, close'.at = "idle" => close.at = "idle",
         Forgetting' => Forgetting,
         connect' = connect \/ connect.at # "worker", leave' = leave \/ leave.at # "worker",
         \/ storage' = storage
         \/ storage'.at = "idle" /\ storage.at # "stop"
         \/ \E p : TryStorage(p, storage)
  PROVE  WorkersInv'
  <1>1. Numbered' /\ Known(handle)' /\ (active' = NoSwarm => handle' = 0)
    BY DEF WorkersInv, Numbered, Known
  <1>2. \/ storage' = storage
        \/ storage'.at = "idle" /\ storage.at # "stop"
        \/ storage.at = "idle" /\ storage'.at = "prepare" /\ storage'.previous = handle'
    BY StorageTries
  <1>3. Restarted'
    BY <1>1, <1>2 DEF WorkersInv, Restarted, Known, Supervised
  <1>4. \A w : Waited(w) => Waited(w)'
    BY <1>2 DEF Waited
  <1>5. close'.at = "idle" => Tracked'
    BY <1>4 DEF WorkersInv, Tracked, Supervised
  <1> QED BY <1>1, <1>3, <1>5 DEF WorkersInv

LEMMA WorkersUser ==
  ASSUME Overlap = FALSE, CallsInv, AgentsInv, WorkersInv, User
  PROVE  WorkersInv'
  <1> USE DEF joinVars, workerVars, callVars, storageVars, aside, Forgetting
  <1>1. ASSUME NEW s \in Swarms, Switch(s) \/ Missing(s) \/ Unlisted(s) \/ Preview(s), connect.at = "idle"
        PROVE  WorkersInv'
    <2>1. crossed'.workers = crossed.workers
      BY <1>1, CrossedWorkers DEF Switch, Missing, Unlisted, Preview, Persist, Persisted, AgentsInv
    <2>2. CallForms'
      BY <1>1 DEF Switch, Missing, Unlisted, Preview, WorkersInv, CallForms
    <2>3. /\ UNCHANGED <<handle, workers, leave, close, storage>>
          /\ active' = NoSwarm => active = NoSwarm
          /\ connect'.at \in {"idle", "agent"}
      BY <1>1, ServiceAssumption DEF Switch, Missing, Unlisted, Preview
    <2> QED BY <1>1, <2>1, <2>2, <2>3, WorkersKept
  <1>2. ASSUME NEW s \in Swarms, Connect(s) PROVE WorkersInv'
    BY <1>1, <1>2 DEF Connect, MayAct, UserCalls
  <1>3. CASE AutoReconnect
    <2>1. CASE persisted = NoSwarm
      BY <1>3, <2>1, WorkersKept DEF AutoReconnect, WorkersInv, CallForms
    <2>2. CASE persisted # NoSwarm
      <3>1. persisted \in Swarms /\ connect.at = "idle"
        BY <1>3, <2>2 DEF AutoReconnect, CallsInv, Joinable
      <3> QED BY <1>1, <1>3, <2>2, <3>1 DEF AutoReconnect
    <2> QED BY <2>1, <2>2
  <1>4. CASE ConnectAgain
    <2>1. crossed'.workers = crossed.workers
      BY <1>4, CrossedWorkers DEF ConnectAgain, Persist, Persisted, AgentsInv
    <2> QED BY <1>4, <2>1, WorkersKept DEF ConnectAgain, WorkersInv, CallForms
  <1>5. CASE Disconnect
    <2>1. crossed'.workers = crossed.workers
      BY <1>5, CrossedWorkers DEF Disconnect, Persist, Persisted, AgentsInv
    <2> QED BY <1>5, <2>1, WorkersKept DEF Disconnect, WorkersInv, CallForms
  <1>6. CASE Close
    BY <1>6, WorkersKept DEF Close, WorkersInv, CallForms
  <1>7. CASE ChangeStorage
    BY <1>7, WorkersKept DEF ChangeStorage, WorkersInv, CallForms
  <1> QED BY <1>2, <1>3, <1>4, <1>5, <1>6, <1>7 DEF User

(* A switch or a leave that has stopped the Request Agent stops the worker.   *)
LEMMA WorkersAwaited ==
  ASSUME WorkersInv, StopWorker(handle), UNCHANGED <<handle, active, close, crossed>>, CallForms',
         \/ /\ connect.at = "agent" /\ connect'.at = "worker" /\ connect'.wait = WaitFor(handle)
            /\ leave' = leave
         \/ /\ leave.at = "agent" /\ leave'.at = "worker" /\ leave'.wait = WaitFor(handle)
            /\ connect' = connect,
         storage' = storage \/ \E p : TryStorage(p, storage)
  PROVE  WorkersInv'
  <1>1. /\ Numbered'
        /\ \A w \in Workers :
             /\ Supervised(w)' => Supervised(w) /\ w # handle
             /\ workers'[w].life = "none" <=> workers[w].life = "none"
             /\ workers'[w].life = "stopping" =>
                  workers[w].life = "stopping" \/ (w = handle /\ WaitFor(handle) = handle)
    BY WorkerStopped DEF WorkersInv
  <1>2. storage' = storage \/ (storage.at = "idle" /\ storage'.at = "prepare" /\ storage'.previous = handle')
    BY StorageTries
  <1>3. Known(handle)' /\ Restarted'
    BY <1>1, <1>2 DEF WorkersInv, Restarted, Known
  <1>4. ASSUME NEW w \in Workers, Waited(w) \/ (w = handle /\ WaitFor(handle) = handle) PROVE Waited(w)'
    BY <1>2, <1>4 DEF Waited
  <1>5. close'.at = "idle" => Tracked'
    BY <1>1, <1>4 DEF WorkersInv, Tracked
  <1> QED BY <1>1, <1>3, <1>5 DEF WorkersInv

LEMMA WorkersResume ==
  ASSUME CallsInv, AgentsInv, WorkersInv, Resume
  PROVE  WorkersInv'
  <1> USE DEF joinVars, callVars, storageVars, aside
  <1>1. CASE ConnectAgentStopped
    <2>1. connect' = [at |-> "worker", swarm |-> connect.swarm, wait |-> WaitFor(handle)]
      BY <1>1 DEF ConnectAgentStopped, WorkersInv, CallForms
    <2>2. CallForms'
      BY <1>1, <2>1 DEF ConnectAgentStopped, WorkersInv, CallForms
    <2> QED BY <1>1, <2>1, <2>2, WorkersAwaited DEF ConnectAgentStopped
  <1>2. CASE LeaveAgentStopped
    <2>1. leave' = [at |-> "worker", swarm |-> leave.swarm, wait |-> WaitFor(handle)]
      BY <1>2 DEF LeaveAgentStopped, WorkersInv, CallForms
    <2>2. CallForms'
      BY <1>2, <2>1 DEF LeaveAgentStopped, WorkersInv, CallForms
    <2> QED BY <1>2, <2>1, <2>2, WorkersAwaited DEF LeaveAgentStopped
  <1>3. CASE CloseAgentStopped
    <2>1. /\ StopWorker(handle) /\ UNCHANGED <<handle, active, connect, leave>>
          /\ \E p : TryStorage(p, storage)
      BY <1>3 DEF CloseAgentStopped
    <2>2. close.at = "agent" /\ close'.at = "worker"
      BY <1>3 DEF CloseAgentStopped
    <2>3. Numbered' /\ \A w \in Workers : (Supervised(w)' => Supervised(w))
                         /\ (workers'[w].life = "none" <=> workers[w].life = "none")
      BY <2>1, WorkerStopped DEF WorkersInv
    <2>4. storage' = storage \/ (storage.at = "idle" /\ storage'.at = "prepare" /\ storage'.previous = handle')
      BY <2>1, StorageTries
    <2>5. Known(handle)' /\ Restarted'
      BY <2>1, <2>3, <2>4 DEF WorkersInv, Restarted, Known
    <2> QED BY <2>1, <2>2, <2>3, <2>5 DEF WorkersInv, CallForms
  <1>4. CASE ConnectWorkerStopped
    <2>1. connect' = [at |-> "prepare", swarm |-> connect.swarm, wait |-> 0]
      BY <1>4 DEF ConnectWorkerStopped, WorkersInv, CallForms
    <2>2. /\ connect.at = "worker" /\ handle' = 0 /\ active' # NoSwarm
          /\ UNCHANGED <<workers, leave, close, storage, crossed>>
          /\ \A w \in Workers : workers[w].life = "stopping" => connect.wait # w
      BY <1>4, ServiceAssumption, WorkersAreNat DEF ConnectWorkerStopped, CallsInv, WorkerClosed
    <2>3. Numbered' /\ Restarted' /\ Known(handle)' /\ CallForms'
      BY <2>1, <2>2, WorkersAreNat DEF WorkersInv, Numbered, Restarted, Known, Supervised, CallForms
    <2>4. close'.at = "idle" => Tracked'
      BY <2>2 DEF WorkersInv, Tracked, Supervised, Forgetting, Waited
    <2> QED BY <2>2, <2>3, <2>4 DEF WorkersInv
  <1>5. CASE LeaveWorkerStopped
    <2>1. /\ leave.at = "worker" /\ handle' = 0 /\ leave' = Idle
          /\ UNCHANGED <<workers, connect, close, storage, crossed>>
          /\ \A w \in Workers : workers[w].life = "stopping" => leave.wait # w
      BY <1>5, WorkersAreNat DEF LeaveWorkerStopped, WorkerClosed
    <2>2. Numbered' /\ Restarted' /\ Known(handle)' /\ CallForms'
      BY <2>1, WorkersAreNat DEF WorkersInv, Numbered, Restarted, Known, Supervised, CallForms, Idle
    <2>3. close'.at = "idle" => Tracked'
      BY <2>1 DEF WorkersInv, Tracked, Supervised, Forgetting, Waited
    <2> QED BY <2>1, <2>2, <2>3 DEF WorkersInv
  <1>6. CASE CloseWorkerStopped
    <2>1. /\ handle' = 0 /\ close'.at = "done" /\ UNCHANGED <<workers, connect, leave, storage>>
      BY <1>6 DEF CloseWorkerStopped
    <2> QED BY <2>1, WorkersAreNat DEF WorkersInv, Numbered, Restarted, Known, Supervised, CallForms
  <1>7. CASE StorageStopped
    <2>1. /\ storage.at = "stop" /\ storage' = IdleStorage
          /\ UNCHANGED <<active, connect, leave, close>>
          /\ \A w \in Workers : workers[w].life = "stopping" => storage.wait # w
      BY <1>7, WorkersAreNat DEF StorageStopped, StorageEnds, WorkerClosed
    <2>2. Restarted' /\ CallForms' /\ (Forgetting' => Forgetting)
          /\ \A w \in Workers : workers[w].life = "stopping" /\ Waited(w) => Waited(w)'
      BY <2>1 DEF Restarted, IdleStorage, WorkersInv, CallForms, Forgetting, Waited
    <2>3. CASE active # storage.swarm
      <3>1. handle' = (IF handle = storage.previous THEN 0 ELSE handle) /\ UNCHANGED <<workers, crossed>>
        BY <1>7, <2>3 DEF StorageStopped
      <3>2. Numbered' /\ Known(handle)' /\ (active' = NoSwarm => handle' = 0)
        BY <2>1, <3>1, WorkersAreNat DEF WorkersInv, Numbered, Known
      <3>3. close'.at = "idle" => Tracked'
        BY <2>1, <2>2, <3>1 DEF WorkersInv, Tracked, Supervised, Restarted
      <3> QED BY <2>2, <3>2, <3>3 DEF WorkersInv
    <2>4. CASE active = storage.swarm
      <3>1. SpawnWorker(active) /\ crossed' = [crossed EXCEPT !.workers = @ \cup Crossing]
        BY <1>7, <2>4 DEF StorageStopped
      <3>2. crossed'.workers = crossed.workers \cup Crossing
        BY <3>1 DEF AgentsInv, CrossedForm
      <3>3. active' # NoSwarm
        BY <2>1, <2>4, ServiceAssumption DEF CallsInv, StorageStages
      <3>4. /\ Numbered' /\ Known(handle)' /\ handle' = NextWorker /\ NextWorker # 0
            /\ NextWorker \in Workers => workers[NextWorker].life = "none"
            /\ \A w \in Workers :
                 /\ Supervised(w)' <=> Supervised(w) \/ w = NextWorker
                 /\ workers'[w].life = "stopping" => workers[w].life = "stopping"
        BY <3>1, NextSpawned DEF WorkersInv
      <3>5. ASSUME close'.at = "idle", NEW w \in Workers, w \notin crossed'.workers, Supervised(w)'
            PROVE  w = handle' /\ ~Forgetting'
        <4>1. close.at = "idle" /\ w \notin crossed.workers /\ w \notin Crossing /\ w # 0
          BY <2>1, <3>2, <3>5, WorkersAreNat
        <4>2. CASE w = NextWorker
          <5>1. w # handle
            BY <3>4, <4>2 DEF WorkersInv, Known
          <5>2. \A c \in UserCalls : c.at = "idle"
            BY <4>1, <4>2, <5>1 DEF Crossing
          <5> QED BY <2>1, <3>4, <4>2, <5>2 DEF UserCalls, Forgetting
        <4>3. CASE w # NextWorker
          <5>1. Supervised(w) /\ w = handle
            BY <3>4, <3>5, <4>1, <4>3 DEF WorkersInv, Tracked
          <5>2. handle = storage.previous
            BY <4>1, <5>1 DEF Crossing
          <5> QED BY <2>1, <5>1, <5>2 DEF WorkersInv, Restarted
        <4> QED BY <4>2, <4>3
      <3>6. close'.at = "idle" => Tracked'
        BY <2>1, <2>2, <3>2, <3>4, <3>5 DEF WorkersInv, Tracked
      <3> QED BY <2>2, <3>3, <3>4, <3>6 DEF WorkersInv
    <2> QED BY <2>3, <2>4
  <1> QED BY <1>1, <1>2, <1>3, <1>4, <1>5, <1>6, <1>7 DEF Resume


LEMMA WorkersPrepared ==
  ASSUME CallsInv, AgentsInv, WorkersInv, Prepared
  PROVE  WorkersInv'
  <1> USE DEF joinVars, workerVars, callVars, storageVars, aside
  <1>1. CASE ConnectPrepared
    <2>1. /\ connect.at = "prepare" /\ connect' = Idle /\ active' = active /\ active # NoSwarm
          /\ leave.at = "idle" /\ UNCHANGED <<leave, close, crossed>> /\ SpawnWorker(connect.swarm)
          /\ \E p : TryStorage(p, storage)
      BY <1>1, ServiceAssumption DEF ConnectPrepared, CallsInv
    <2>2. /\ Numbered' /\ Known(handle)' /\ handle' = NextWorker
          /\ NextWorker \in Workers => workers[NextWorker].life = "none"
          /\ \A w \in Workers :
               /\ Supervised(w)' <=> Supervised(w) \/ w = NextWorker
               /\ workers'[w].life = "none" => workers[w].life = "none"
               /\ workers'[w].life = "stopping" => workers[w].life = "stopping"
      BY <2>1, NextSpawned DEF WorkersInv
    <2>3. storage' = storage \/ (storage.at = "idle" /\ storage'.at = "prepare" /\ storage'.previous = handle')
      BY <2>1, StorageTries
    <2>4. Restarted'
      BY <2>2, <2>3 DEF WorkersInv, Restarted, Known
    <2>5. ~Forgetting' /\ \A w \in Workers : Waited(w) => Waited(w)'
      BY <2>1, <2>3 DEF Forgetting, Waited, Idle
    <2>6. close'.at = "idle" => Tracked'
      BY <2>1, <2>2, <2>5 DEF WorkersInv, Tracked, Forgetting
    <2> QED BY <2>1, <2>2, <2>4, <2>6 DEF WorkersInv, CallForms, Idle
  <1>2. CASE AgainPrepared
    <2>1. crossed'.workers = crossed.workers
      BY <1>2, CrossedWorkers DEF AgainPrepared, AgentsInv
    <2> QED BY <1>2, <2>1, WorkersKept DEF AgainPrepared, WorkersInv, CallForms, Forgetting
  <1>3. CASE RevivePrepared
    BY <1>3, WorkersKept DEF RevivePrepared, WorkersInv, CallForms, Forgetting
  <1>4. CASE StoragePrepared
    <2>1. storage.at = "prepare" /\ UNCHANGED <<active, handle, connect, leave, close, crossed>>
      BY <1>4 DEF StoragePrepared
    <2>2. CASE active = storage.swarm /\ handle = storage.previous
      <3>1. StopWorker(handle) /\ storage' = [storage EXCEPT !.at = "stop", !.wait = WaitFor(handle)]
        BY <1>4, <2>2 DEF StoragePrepared
      <3>2. /\ Numbered'
            /\ \A w \in Workers :
                 /\ Supervised(w)' => Supervised(w) /\ w # handle
                 /\ workers'[w].life = "none" <=> workers[w].life = "none"
                 /\ workers'[w].life = "stopping" =>
                      workers[w].life = "stopping" \/ (w = handle /\ WaitFor(handle) = handle)
        BY <3>1, WorkerStopped DEF WorkersInv
      <3>3. storage'.at = "stop" /\ storage'.wait = WaitFor(handle) /\ storage'.previous = handle
        BY <2>2, <3>1 DEF CallsInv, StorageStages
      <3>4. Known(handle)' /\ Restarted'
        BY <2>1, <3>2, <3>3 DEF WorkersInv, Restarted, Known
      <3>5. close'.at = "idle" => Tracked'
        BY <2>1, <3>2, <3>3 DEF WorkersInv, Tracked, Waited
      <3> QED BY <2>1, <3>2, <3>4, <3>5 DEF WorkersInv, CallForms
    <2>3. CASE ~(active = storage.swarm /\ handle = storage.previous)
      <3>1. storage'.at = "idle" /\ workers' = workers
        BY <1>4, <2>3 DEF StoragePrepared, StorageEnds, IdleStorage
      <3> QED BY <2>1, <3>1, WorkersKept DEF WorkersInv, CallForms, Forgetting
    <2> QED BY <2>2, <2>3
  <1>5. CASE ApplyStorage
    BY <1>5, WorkersKept DEF ApplyStorage, WorkersInv, CallForms, Forgetting
  <1> QED BY <1>1, <1>2, <1>3, <1>4, <1>5 DEF Prepared

LEMMA WorkersFailed ==
  ASSUME CallsInv, AgentsInv, WorkersInv, Failed
  PROVE  WorkersInv'
  <1> USE DEF joinVars, workerVars, callVars, storageVars, aside
  <1>1. CASE ConnectFailed
    BY <1>1, WorkersKept DEF ConnectFailed, WorkersInv, CallForms, Forgetting, Idle
  <1>2. CASE AgainFailed
    BY <1>2, WorkersKept DEF AgainFailed, WorkersInv, CallForms, Forgetting
  <1>3. CASE ReviveFailed
    <2>1. crossed'.workers = crossed.workers
      BY <1>3, CrossedWorkers DEF ReviveFailed, AgentsInv
    <2> QED BY <1>3, <2>1, WorkersKept DEF ReviveFailed, WorkersInv, CallForms, Forgetting
  <1>4. CASE StorageFailed
    <2>1. storage'.at = "idle" /\ storage.at = "prepare"
      BY <1>4 DEF StorageFailed, StorageEnds, IdleStorage
    <2> QED BY <1>4, <2>1, WorkersKept DEF StorageFailed, WorkersInv, CallForms, Forgetting
  <1> QED BY <1>1, <1>2, <1>3, <1>4 DEF Failed

LEMMA WorkersReport ==
  ASSUME WorkersInv, NEW g \in Generations, Agent(g) \/ AgentFault(g)
  PROVE  WorkersInv'
  <1>1. /\ UNCHANGED <<active, handle, workers, connect, leave, close, crossed>>
        /\ storage' = storage \/ TryStorage(pending, storage)
    BY DEF Agent, AgentFault, AgentReady, AgentCloses, Generated, AgentInvalid, AgentDies, Generates,
       joinVars, workerVars, callVars, storageVars, aside
  <1> QED BY <1>1, WorkersKept DEF WorkersInv, CallForms, Forgetting

(* A worker crashes, is restarted, or has stopped. *)
LEMMA WorkersLived ==
  ASSUME WorkersInv, NEW w \in Workers, WorkerDies(w) \/ WorkerRestarts(w) \/ WorkerCloses(w)
  PROVE  WorkersInv'
  <1>1. UNCHANGED <<active, handle, connect, leave, close, crossed, storage>>
    BY DEF WorkerDies, WorkerRestarts, WorkerCloses, joinVars, callVars, storageVars, aside
  <1>2. /\ DOMAIN workers' = Workers
        /\ \A v \in Workers :
             /\ workers'[v] = [life |-> workers'[v].life, swarm |-> workers'[v].swarm]
             /\ Supervised(v)' => Supervised(v)
             /\ workers'[v].life = "none" <=> workers[v].life = "none"
             /\ workers'[v].life = "stopping" => workers[v].life = "stopping"
    <2>1. DOMAIN workers = Workers /\ workers[w] = [life |-> workers[w].life, swarm |-> workers[w].swarm]
          /\ \A v \in Workers : workers[v] = [life |-> workers[v].life, swarm |-> workers[v].swarm]
      BY DEF WorkersInv, Numbered
    <2>2. ASSUME NEW l, workers' = [workers EXCEPT ![w].life = l]
          PROVE  /\ workers'[w] = [life |-> l, swarm |-> workers[w].swarm] /\ DOMAIN workers' = Workers
                 /\ \A v \in Workers : v # w => workers'[v] = workers[v]
      BY <2>1, <2>2
    <2>3. CASE WorkerDies(w)
      <3>1. workers' = [workers EXCEPT ![w].life = "crashed"] /\ workers[w].life \in {"running", "killed"}
        BY <2>3 DEF WorkerDies
      <3> QED BY <2>1, <2>2, <3>1 DEF Supervised
    <2>4. CASE WorkerCloses(w)
      <3>1. workers' = [workers EXCEPT ![w].life = "gone"] /\ workers[w].life = "stopping"
        BY <2>4 DEF WorkerCloses
      <3> QED BY <2>1, <2>2, <3>1 DEF Supervised
    <2>5. CASE WorkerRestarts(w)
      <3>1. workers' = Spawned(w, workers[w].swarm) /\ workers[w].life = "crashed"
        BY <2>5 DEF WorkerRestarts
      <3>2. /\ DOMAIN workers' = Workers
            /\ \A v \in Workers : workers'[v] = [life |-> workers'[v].life, swarm |-> workers'[v].swarm]
            /\ \A v \in Workers :
                 workers'[v].life = IF v = w THEN "running"
                                    ELSE IF workers[v].life = "running" THEN "killed" ELSE workers[v].life
        BY <3>1, WorkerSpawned DEF WorkersInv
      <3> QED BY <3>1, <3>2 DEF Supervised
    <2> QED BY <2>3, <2>4, <2>5
  <1>3. Numbered'
    BY <1>2 DEF WorkersInv, Numbered
  <1>4. Known(handle)' /\ Restarted' /\ (close'.at = "idle" => Tracked')
    BY <1>1, <1>2 DEF WorkersInv, Known, Restarted, Tracked, Waited, Forgetting
  <1> QED BY <1>1, <1>3, <1>4 DEF WorkersInv, CallForms

LEMMA WorkersStep ==
  ASSUME Overlap = FALSE
  PROVE  CallsInv /\ AgentsInv /\ WorkersInv /\ [Next]_vars => WorkersInv'
  <1> SUFFICES ASSUME CallsInv, AgentsInv, WorkersInv, [Next]_vars PROVE WorkersInv'
    OBVIOUS
  <1>1. CASE UNCHANGED vars \/ Revive
    BY <1>1, WorkersKept DEF vars, Revive, WorkersInv, CallForms, Forgetting, joinVars, workerVars, callVars,
       storageVars, aside
  <1> QED BY <1>1, WorkersUser, WorkersResume, WorkersPrepared, WorkersFailed, WorkersReport, WorkersLived
         DEF Next, Event

LEMMA WorkersInit == Init => WorkersInv
  <1> SUFFICES ASSUME Init PROVE WorkersInv
    OBVIOUS
  <1>1. Numbered
    BY WorkersAreNat DEF Init, Numbered
  <1> QED BY <1>1, WorkersAreNat DEF Init, WorkersInv, CallForms, Known, Restarted, Tracked, Supervised,
         Idle, IdleStorage

------------------------------------------------------------------------------

(* The three layers together: the calls exclude each other, and what they did *)
(* not cross is tracked.                                                      *)
LEMMA LayersHold ==
  ASSUME Overlap = FALSE
  PROVE  Spec => [](CallsInv /\ IInv /\ AgentsInv /\ WorkersInv)
  <1> DEFINE L == CallsInv /\ IInv /\ AgentsInv /\ WorkersInv
  <1>1. Init => L
    BY CallsInit, InitIInv, WorkersInit
  <1>2. L /\ [Next]_vars => L'
    BY CallsStep, StepIInv, AgentsStep, WorkersStep
  <1> HIDE DEF L
  <1>3. Spec => []L
    BY <1>1, <1>2, PTL DEF Spec
  <1> QED BY <1>3 DEF L

(* While the IDE is open no supervised worker escapes the handle, and no      *)
(* second Request Agent runs, but for exactly those that a restart for the    *)
(* storage or connectSwarm() of the joined swarm displaced, for a user who    *)
(* waits for his own calls and for none of the service's (connectSwarm,       *)
(* disconnect, tryApplyModelStorageRestart, restartRequestAgent).             *)
THEOREM NoOther == ASSUME Overlap = FALSE PROVE Spec => []OneOfEach
  <1>1. WorkersInv /\ AgentsInv => OneOfEach
    BY DEF WorkersInv, AgentsInv, AgentsRun, Tracked, OneOfEach, OneWorker, OneAgent
  <1> QED BY <1>1, LayersHold, PTL

(* Once the swarm is left and everything is at rest nothing is left of it:    *)
(* no handle, no process, no restart that is armed, no error but that of a    *)
(* restart that was out of date (disconnect).                                 *)
THEOREM NothingIsLeft == ASSUME Overlap = FALSE PROVE Spec => []NothingLeft
  <1>1. WorkersInv /\ AgentsInv => NothingLeft
    <2> SUFFICES ASSUME WorkersInv, AgentsInv, AtRest, active = NoSwarm
                 PROVE  /\ handle = 0 /\ agentHandle = 0 /\ restart.at = "idle"
                        /\ agent = "stopped" \/ crossed.error
                        /\ \A w \in Workers \ crossed.workers : ~Alive(w) /\ ~Supervised(w)
                        /\ \A g \in Generations \ crossed.agents : ~AgentRuns(g)
      BY DEF NothingLeft
    <2>1. connect.at = "idle" /\ leave.at = "idle" /\ storage.at = "idle" /\ close.at = "idle"
      BY DEF AtRest, UserCalls, OwnCalls
    <2>2. handle = 0 /\ agentHandle = 0 /\ restart.at = "idle" /\ (agent = "stopped" \/ crossed.error)
      BY DEF WorkersInv, AgentsInv, Unattended, Silent, Told
    <2>3. ASSUME NEW w \in Workers \ crossed.workers PROVE ~Alive(w) /\ ~Supervised(w)
      <3>1. ~Supervised(w) /\ workers[w].life # "stopping"
        BY <2>1, <2>2, <2>3, WorkersAreNat DEF WorkersInv, Tracked, Waited
      <3> QED BY <3>1 DEF Alive, Supervised
    <2>4. ASSUME NEW g \in Generations \ crossed.agents PROVE ~AgentRuns(g)
      BY <2>2, <2>4, GenerationsAreNat DEF AgentsInv, AgentsRun
    <2> QED BY <2>2, <2>3, <2>4
  <1> QED BY <1>1, LayersHold, PTL

------------------------------------------------------------------------------
(* What the next start of the IDE finds *)

(* The file follows the call that changes it, from its first step.            *)
PersistInv ==
  ~crossed.file =>
    /\ connect.at # "idle" => persisted = connect.swarm
    /\ leave.at # "idle" => persisted = NoSwarm
    /\ connect.at = "idle" /\ leave.at = "idle" /\ ~preview /\ active # NoSwarm => persisted = active
    /\ connect.at = "idle" /\ active = NoSwarm /\ settled => persisted = NoSwarm

LEMMA CrossedFile ==
  ASSUME CrossedForm,
         \/ crossed' = crossed
         \/ \E x : \/ crossed' = [crossed EXCEPT !.workers = x]
                   \/ crossed' = [crossed EXCEPT !.agents = x]
                   \/ crossed' = [crossed EXCEPT !.error = x]
  PROVE  crossed'.file = crossed.file
  BY DEF CrossedForm

LEMMA FileWritten ==
  ASSUME CrossedForm, NEW s, Persist(s) \/ Persisted(s)
  PROVE  ~crossed'.file => persisted' = s
  BY DEF CrossedForm, Persist, Persisted

LEMMA PersistKept ==
  ASSUME PersistInv, crossed'.file = crossed.file,
         UNCHANGED <<joinVars, connect, leave, preview>>
  PROVE  PersistInv'
  BY DEF PersistInv, joinVars

LEMMA PersistUser ==
  ASSUME Overlap = FALSE, CallsInv, AgentsInv, PersistInv, User
  PROVE  PersistInv'
  <1> USE DEF joinVars, callVars, aside
  <1>1. ASSUME NEW s \in Swarms, connect.at = "idle", leave.at = "idle",
               Switch(s) \/ Missing(s) \/ (Preview(s) /\ settled' \in {settled, TRUE}) \/ (Unlisted(s))
        PROVE  PersistInv'
    <2>1. s # NoSwarm
      BY ServiceAssumption
    <2>2. CASE Switch(s)
      <3>1. (~crossed'.file => persisted' = s) /\ connect'.swarm = s /\ connect'.at = "agent"
            /\ UNCHANGED <<leave, preview>>
        BY <2>2, FileWritten DEF Switch, AgentsInv
      <3> QED BY <1>1, <3>1 DEF PersistInv
    <2>3. CASE Missing(s)
      <3>1. (~crossed'.file => persisted' = s) /\ active' = s /\ UNCHANGED <<connect, leave, preview>>
        BY <2>3, FileWritten DEF Missing, AgentsInv
      <3> QED BY <1>1, <2>1, <3>1 DEF PersistInv
    <2>4. CASE Preview(s)
      <3>1. preview /\ active' = s /\ UNCHANGED <<persisted, connect, leave, preview, crossed>>
        BY <2>4 DEF Preview
      <3> QED BY <1>1, <2>1, <3>1 DEF PersistInv
    <2>5. CASE Unlisted(s)
      BY <2>5, PersistKept DEF Unlisted
    <2> QED BY <1>1, <2>2, <2>3, <2>4, <2>5
  <1>2. ASSUME NEW s \in Swarms, Connect(s) PROVE PersistInv'
    BY <1>1, <1>2 DEF Connect, MayAct, UserCalls
  <1>3. CASE AutoReconnect
    <2>1. CASE persisted = NoSwarm
      <3>1. active' = NoSwarm /\ persisted' = NoSwarm /\ UNCHANGED <<connect, leave, preview, crossed>>
        BY <1>3, <2>1 DEF AutoReconnect
      <3> QED BY <2>1, <3>1 DEF PersistInv
    <2>2. CASE persisted # NoSwarm
      <3>1. persisted \in Swarms /\ connect.at = "idle" /\ leave.at = "idle"
        BY <1>3, <2>2 DEF AutoReconnect, CallsInv, Joinable
      <3> QED BY <1>1, <1>3, <2>2, <3>1 DEF AutoReconnect
    <2> QED BY <2>1, <2>2
  <1>4. CASE ConnectAgain
    <2>1. (~crossed'.file => persisted' = active) /\ active # NoSwarm
          /\ connect.at = "idle" /\ leave.at = "idle" /\ UNCHANGED <<active, connect, leave, preview>>
      BY <1>4, FileWritten DEF ConnectAgain, AgentsInv, MayAct, UserCalls
    <2> QED BY <2>1 DEF PersistInv
  <1>5. CASE Disconnect
    <2>1. (~crossed'.file => persisted' = NoSwarm) /\ leave'.at = "agent" /\ connect.at = "idle"
          /\ UNCHANGED <<active, connect, preview>>
      BY <1>5, FileWritten DEF Disconnect, AgentsInv, MayAct, UserCalls
    <2> QED BY <2>1 DEF PersistInv
  <1>6. CASE Close \/ ChangeStorage
    BY <1>6, PersistKept DEF Close, ChangeStorage
  <1> QED BY <1>2, <1>3, <1>4, <1>5, <1>6 DEF User

LEMMA PersistResume ==
  ASSUME CallsInv, AgentsInv, WorkersInv, PersistInv, Resume
  PROVE  PersistInv'
  <1> USE DEF joinVars, callVars, aside
  <1>1. CASE ConnectAgentStopped
    <2>1. connect' = [at |-> "worker", swarm |-> connect.swarm, wait |-> WaitFor(handle)]
      BY <1>1 DEF ConnectAgentStopped, WorkersInv, CallForms
    <2> QED BY <1>1, <2>1 DEF ConnectAgentStopped, PersistInv
  <1>2. CASE ConnectWorkerStopped
    <2>1. connect' = [at |-> "prepare", swarm |-> connect.swarm, wait |-> 0]
      BY <1>2 DEF ConnectWorkerStopped, WorkersInv, CallForms
    <2> QED BY <1>2, <2>1 DEF ConnectWorkerStopped, PersistInv
  <1>3. CASE LeaveAgentStopped
    <2>1. leave' = [at |-> "worker", swarm |-> leave.swarm, wait |-> WaitFor(handle)]
      BY <1>3 DEF LeaveAgentStopped, WorkersInv, CallForms
    <2> QED BY <1>3, <2>1 DEF LeaveAgentStopped, PersistInv
  <1>4. CASE LeaveWorkerStopped
    BY <1>4 DEF LeaveWorkerStopped, PersistInv, Idle
  <1>5. CASE CloseAgentStopped \/ CloseWorkerStopped
    BY <1>5, PersistKept DEF CloseAgentStopped, CloseWorkerStopped
  <1>6. CASE StorageStopped
    <2>1. crossed'.file = crossed.file
      BY <1>6, CrossedFile DEF StorageStopped, AgentsInv
    <2> QED BY <1>6, <2>1, PersistKept DEF StorageStopped
  <1> QED BY <1>1, <1>2, <1>3, <1>4, <1>5, <1>6 DEF Resume

LEMMA PersistStep ==
  ASSUME Overlap = FALSE
  PROVE  CallsInv /\ AgentsInv /\ WorkersInv /\ PersistInv /\ [Next]_vars => PersistInv'
  <1> SUFFICES ASSUME CallsInv, AgentsInv, WorkersInv, PersistInv, [Next]_vars PROVE PersistInv'
    OBVIOUS
  <1> USE DEF joinVars, callVars, aside
  <1>1. CASE ConnectPrepared \/ ConnectFailed
    <2>1. connect.at = "prepare" /\ connect' = Idle /\ active = connect.swarm /\ active # NoSwarm
          /\ UNCHANGED <<active, persisted, settled, leave, preview, crossed>>
      BY <1>1, ServiceAssumption DEF ConnectPrepared, ConnectFailed, CallsInv
    <2> QED BY <2>1 DEF PersistInv, Idle
  <1>2. CASE AgainPrepared \/ ReviveFailed
    <2>1. crossed'.file = crossed.file
      BY <1>2, CrossedFile DEF AgainPrepared, ReviveFailed, AgentsInv
    <2> QED BY <1>2, <2>1, PersistKept DEF AgainPrepared, ReviveFailed
  <1>3. CASE RevivePrepared \/ StoragePrepared \/ ApplyStorage \/ AgainFailed \/ StorageFailed \/ Revive
    BY <1>3, PersistKept DEF RevivePrepared, StoragePrepared, ApplyStorage, AgainFailed, StorageFailed, Revive
  <1>4. ASSUME NEW g \in Generations, Agent(g) \/ AgentFault(g) PROVE PersistInv'
    BY <1>4, PersistKept DEF Agent, AgentFault, AgentReady, AgentCloses, Generated, AgentInvalid, AgentDies,
       Generates
  <1>5. ASSUME NEW w \in Workers, WorkerDies(w) \/ WorkerRestarts(w) \/ WorkerCloses(w) PROVE PersistInv'
    BY <1>5, PersistKept DEF WorkerDies, WorkerRestarts, WorkerCloses
  <1>6. CASE UNCHANGED vars
    BY <1>6, PersistKept DEF vars
  <1> QED BY <1>1, <1>2, <1>3, <1>4, <1>5, <1>6, PersistUser, PersistResume
         DEF Next, Event, Prepared, Failed

LEMMA PersistInit == Init => PersistInv
  BY DEF Init, PersistInv, Idle

(* At rest, what the next start of the IDE finds is what is joined, or none   *)
(* once the swarm was left, unless the file could not be written; and what    *)
(* was left is gone.  The browser preview, which persists nothing, is apart   *)
(* (persistSwarmId, clearPersistedSwarmId and their callers).                 *)
THEOREM RestHolds == ASSUME Overlap = FALSE PROVE Spec => []RestIsTrue
  <1> DEFINE L == CallsInv /\ AgentsInv /\ WorkersInv
  <1>1. Init => PersistInv
    BY PersistInit
  <1>2. L /\ PersistInv /\ [Next]_vars => PersistInv'
    BY PersistStep
  <1>3. PersistInv => PersistedIsJoined /\ ForgottenIsLeft
    BY DEF PersistInv, PersistedIsJoined, ForgottenIsLeft, AtRest, UserCalls
  <1>4. CallsInv /\ IInv /\ AgentsInv /\ WorkersInv => L
    OBVIOUS
  <1>5. NothingLeft /\ PersistedIsJoined /\ ForgottenIsLeft => RestIsTrue
    BY DEF RestIsTrue
  <1> HIDE DEF L
  <1>6. Spec => []PersistInv
    BY <1>1, <1>2, <1>4, LayersHold, PTL DEF Spec
  <1> QED BY <1>3, <1>5, <1>6, NothingIsLeft, PTL
==============================================================================
