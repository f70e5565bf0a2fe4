----------------------------- MODULE MCSeparate -----------------------------
(***************************************************************************)
(* Parts that share nothing with the others: the three streams that the    *)
(* backend follows, and resumes when they are cut, the registration of the *)
(* model, the stage of Maestro, and files: the hooks, the storage, the     *)
(* account token and the trusted root.  Each behaviour is one of one of    *)
(* them.                                                                   *)
(***************************************************************************)
EXTENDS Naturals, Sequences

CONSTANTS r1, r2, Requests, MaxChanges, MaxEvents, MaxTurns, MaxChunks, MaxCuts,
  Swarms, None, MaxPushes, MaxSyncs, MaxFailures,
  Instances, Foreign, MaxEdits, MaxHookFaults,
  Windows, Roots, Primary, Invalid, MaxExtraLocations, MaxCalls, MaxRestarts, MaxStorageFaults,
  Shells, Talks, MaxShows, MaxOpens, Processes, MaxLives, Launchers, MaxDamages

VARIABLES
  part,       \* the one that this behaviour is about
  now, cache, stream, pushed, poll, answer, timer, overtaken,
  log, link, sent, lastEventId, active,
  step, size, wire, linked, parts, turn, on, out, lastText, echo, spoiled,
  cuts,       \* of the stream that is followed
  front, started, generation, wires, registered, model, assigned, pushes, failures,
  program, settings, config, install, got, edits, hookFaults,
  file, renames, call, publishing, shown, late, calls, restarts, storageFaults,
  listed, selected, messages, loads, loading, refresh, sending, opening, terminal, attached, crossed, shows,
  tokenFile, given, holder, apart,
  root, windows, prep, damages

(* The hooks that others have, alone in their groups or with one of Fabi's,   *)
(* and what config.toml may be.                                               *)
Edited == {<<>>, <<<<"x">>, <<"p">>>>, <<<<"q", "x">>, <<"q">>, <<"x">>>>}
Tables == {<<>>, <<"key">>, <<"[features]", "key", "[other]", "hooks = false">>,
           <<"[other]", "[features]", "hooks = false">>}

(* No file, one in order, and one that was edited. *)
FilesFound == {<<>>} \cup {<<q, r>> : q, r \in Roots} \cup {<<q, Invalid, q, r>> : q, r \in Roots}

Registry == INSTANCE RegistryFeed
Agent == INSTANCE RequestAgentFeed
Parts == INSTANCE PartStream
Registration == INSTANCE ModelRegistration
Hooks == INSTANCE HookInstall
Storage == INSTANCE ModelStorage
Stage == INSTANCE MaestroStage
Token == INSTANCE AccountToken
Trust == INSTANCE WorkerBootstrap

ASSUME SeparateAssumption ==
  /\ Registry!RegistryAssumption /\ Agent!AgentFeedAssumption /\ Parts!PartAssumption
  /\ Registration!RegistrationAssumption /\ Hooks!HookInstallAssumption /\ Storage!StorageAssumption
  /\ Stage!StageAssumption /\ Token!TokenAssumption /\ Trust!BootstrapAssumption

registryVars == <<now, cache, stream, pushed, poll, answer, timer, overtaken>>
agentVars == <<log, link, sent, lastEventId, active>>
partVars == <<step, size, wire, linked, parts, turn, on, out, lastText, echo, spoiled>>
modelVars == <<front, started, generation, wires, registered, model, assigned, pushes, failures>>
hookVars == <<program, settings, config, install, got, edits, hookFaults>>
storageVars == <<file, renames, call, publishing, shown, late, calls, restarts, storageFaults>>
streamVars == <<registryVars, agentVars, partVars, cuts>>
stageVars == <<listed, selected, messages, loads, loading, refresh, sending, opening, terminal, attached, crossed, shows>>
tokenVars == <<tokenFile, given, holder, apart>>
trustVars == <<root, windows, prep, damages>>
laterVars == <<stageVars, tokenVars, trustVars>>
firstVars == <<streamVars, modelVars, hookVars, storageVars>>
vars == <<part, firstVars, laterVars>>

Of(p) == part = p /\ UNCHANGED part

Init ==
  /\ part \in {"registry", "agent", "parts", "model", "hooks", "storage", "stage", "token", "trust"}
  /\ Registry!Init /\ Agent!Init /\ Parts!Init /\ Registration!Init
  /\ IF part = "hooks" THEN Hooks!Init ELSE Hooks!Init /\ program = "claude" /\ settings = <<>> /\ config = <<>>
  /\ IF part = "storage" THEN Storage!Init ELSE Storage!Init /\ file = <<>> /\ renames
  /\ Stage!Init
  /\ IF part = "token" THEN Token!Init ELSE Token!Init /\ given = [p \in Processes |-> "none"]
  /\ IF part = "trust" THEN Trust!Init ELSE Trust!Init /\ root = "absent" /\ ~windows

OneOfFirst ==
  \/ Of("registry") /\ Registry!Next /\ UNCHANGED <<agentVars, partVars, modelVars, hookVars, storageVars>>
  \/ Of("agent") /\ Agent!Next /\ UNCHANGED <<registryVars, partVars, modelVars, hookVars, storageVars>>
  \/ Of("parts") /\ Parts!Next /\ UNCHANGED <<registryVars, agentVars, modelVars, hookVars, storageVars>>
  \/ Of("model") /\ Registration!Next /\ UNCHANGED <<streamVars, hookVars, storageVars>>
  \/ Of("hooks") /\ Hooks!Next /\ UNCHANGED <<streamVars, modelVars, storageVars>>
  \/ Of("storage") /\ Storage!Next /\ UNCHANGED <<streamVars, modelVars, hookVars>>

OneOfLater ==
  \/ Of("stage") /\ Stage!Next /\ UNCHANGED <<tokenVars, trustVars>>
  \/ Of("token") /\ Token!Next /\ UNCHANGED <<stageVars, trustVars>>
  \/ Of("trust") /\ Trust!Next /\ UNCHANGED <<stageVars, tokenVars>>

Next ==
  \/ OneOfFirst /\ UNCHANGED laterVars
  \/ OneOfLater /\ UNCHANGED firstVars

Spec == Init /\ [][Next]_vars

(* Of the two feeds of the backend: the list of the swarms is the last one,   *)
(* pushed or polled at all times, and the requests that count as active are   *)
(* those that are.                                                            *)
FeedsAreCurrent ==
  /\ Registry!TypeOK /\ Registry!KeepsLooking /\ Registry!CacheIsCurrent
  /\ Agent!TypeOK /\ Agent!ActiveIsTrue

(* The answer that the chat displays is the text of the engine, and the stage *)
(* of Maestro has the conversation or the terminal of the selected agent.     *)
ScreensAreTrue == Parts!TypeOK /\ Parts!AnswerIsShown /\ Stage!StageIsSelected

(* The model that Theia has is the swarm that may serve now. *)
ModelIsCurrent == Registration!TypeOK /\ Registration!ModelIsCurrent

(* The hooks of others survive the installation of Fabi's. *)
HooksAreMerged == Hooks!HooksAreMerged

(* Calls of several windows change the storage one location at a time; the    *)
(* processes of a user agree on its token, and on the root that they trust.   *)
FilesAreSound == Storage!StorageIsSound /\ Token!TokenIsShared /\ Trust!RootIsPinned
==============================================================================
